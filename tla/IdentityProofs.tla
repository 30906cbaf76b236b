--------------------------- MODULE IdentityProofs ---------------------------
(***************************************************************************)
(* Who may become what, and whose session a sign-in yields: the safety of  *)
(* Identity for any number of accounts, subjects, browsers, attempts,      *)
(* invitations, sessions and bootstrap commands.                           *)
(***************************************************************************)
EXTENDS Identity, TLAPS

-----------------------------------------------------------------------------
(* The inductive invariant *)

(* The rank somebody needs, at some time, to give role r to another.       *)
Entitled(u, r) == u \in Users /\ rank[u] >= (IF r \in Staff THEN 3 ELSE 2)

(* Memberships: a role was never above the rank, and was given by the      *)
(* operator or by somebody entitled to.                                    *)
RoleInv ==
    /\ account \subseteq Users
    /\ role \in [Users -> Roles \cup {"none"}]
    /\ grantedBy \in [Users -> Users \cup {None, Operator}]
    /\ rank \in [Users -> 0 .. 3]
    /\ \A u \in Users : role[u] # "none" =>
           u \in account /\ grantedBy[u] # None /\ rank[u] >= Rank[role[u]]
    /\ PrivilegeFromPrivilege

InviteRow == [state : {"none", "open", "consumed", "closed"},
              role : {"member", "admin"}, email : Users \cup {None},
              issuer : Users \cup {None}, by : Users \cup {None}]

IssueTask == [kind : {"issue"}, actor : Users, role : {"member", "admin"},
              email : Users \cup {None}]
RevokeTask == [kind : {"revoke"}, actor : Users]

(* Invitations, and the request that is about to write one.                *)
InviteInv ==
    /\ invite \in [Invites -> InviteRow]
    /\ task \in {NoTask} \cup IssueTask \cup RevokeTask
    /\ task \in IssueTask => Entitled(task.actor, task.role)
    /\ \A i \in Invites : invite[i].state = "open" => Entitled(invite[i].issuer, invite[i].role)

AttemptRow == [state : {"none", "open", "exchange", "spent"},
               browser : Browsers \cup {None}, invite : Invites \cup {None}]
SessionRow == [state : {"none", "live", "ended"}, user : Users \cup {None},
               attempt : Attempts \cup {None}, from : Sessions \cup {None}]
Cookies == [attempt : Attempts \cup {None}, invite : Invites \cup {None},
            session : Sessions \cup {None}]

BrowserType ==
    /\ attempt \in [Attempts -> AttemptRow]
    /\ session \in [Sessions -> SessionRow]
    /\ cookie \in [Browsers -> Cookies]

(* An attempt cookie belongs to the browser that started the attempt.      *)
AttemptInv ==
    /\ \A a \in Attempts : attempt[a].state = "exchange" => attempt[a].browser # None
    /\ \A b \in Browsers, a \in Attempts : cookie[b].attempt = a =>
           attempt[a].state # "none" /\ (attempt[a].state = "open" => attempt[a].browser = b)

(* A session comes from an attempt that can yield no other, and a session  *)
(* cookie from a session.                                                  *)
SessionInv ==
    /\ \A s \in Sessions : session[s].state # "none" =>
           /\ session[s].user \in Users /\ session[s].attempt \in Attempts
           /\ attempt[session[s].attempt].state = "spent"
    /\ \A b \in Browsers, s \in Sessions : cookie[b].session = s => session[s].state # "none"
    /\ OneLiveSessionPerSignIn

LinkType == link \in [Subjects -> Users \cup {None}] /\ commands \in 0 .. MaxCommands

Change == [actor : Users \cup {None}, target : Users \cup {None},
           to : Roles \cup {"none"}, overtaken : BOOLEAN]

(* Whoever began a role change was an owner, and unless the operator took  *)
(* an owner's role since, somebody besides its target still is one.        *)
ChangeInv ==
    /\ boot \in Users \cup {None}
    /\ change \in Change
    /\ change.target # None =>
           /\ change.actor \in Users /\ rank[change.actor] >= 3
           /\ change.overtaken \/ Owners \ {change.target} # {}

IInv == /\ RoleInv /\ InviteInv /\ BrowserType /\ AttemptInv /\ SessionInv /\ LinkType
        /\ ChangeInv

-----------------------------------------------------------------------------
(* Nobody has an account, a cookie or a session yet.                       *)
LEMMA InitIInv == Init => IInv
<1> SUFFICES ASSUME Init PROVE IInv
  OBVIOUS
<1> USE IdentityAssumption DEF Init
<1>1. RoleInv
  BY DEF RoleInv, PrivilegeFromPrivilege, Roles
<1>2. InviteInv
  BY DEF InviteInv, InviteRow, IssueTask, NoInvite, NoTask
<1>3. BrowserType
  BY DEF BrowserType, AttemptRow, SessionRow, Cookies, NoAttempt, NoSession, NoCookies
<1>4. AttemptInv
  BY DEF AttemptInv, NoAttempt, NoCookies
<1>5. SessionInv
  BY DEF SessionInv, OneLiveSessionPerSignIn, NoSession, NoCookies
<1>6. LinkType
  BY DEF LinkType
<1>7. ChangeInv
  BY DEF ChangeInv, Change, NoChange
<1>8. QED
  BY <1>1, <1>2, <1>3, <1>4, <1>5, <1>6, <1>7 DEF IInv

(* The typed view of a state that satisfies the invariant.                 *)
LEMMA IInvTypes == IInv => TypeOK
BY DEF IInv, RoleInv, InviteInv, BrowserType, AttemptInv, LinkType, ChangeInv, TypeOK,
   InviteRow, AttemptRow, SessionRow, Cookies, NoTask, IssueTask, RevokeTask, Change

-----------------------------------------------------------------------------
(* Roles *)

(* A role given by the operator or by somebody entitled keeps memberships  *)
(* sound, and nobody's rank falls.                                         *)
LEMMA GrantStep ==
  ASSUME RoleInv, NEW u \in Users, NEW r \in Roles, NEW g \in Users \cup {Operator},
         g \in Users => Entitled(g, r), Grant(u, r, g)
  PROVE  RoleInv' /\ \A v \in Users : rank'[v] >= rank[v]
<1>a. Operator \notin Users /\ Operator # None /\ None \notin Users
  BY IdentityAssumption
<1>t. /\ account \subseteq Users /\ role \in [Users -> Roles \cup {"none"}]
      /\ grantedBy \in [Users -> Users \cup {None, Operator}] /\ rank \in [Users -> 0 .. 3]
  BY DEF RoleInv
<1>r. Rank[r] \in 1 .. 3
  BY DEF Roles, Rank
<1>1. /\ account' = account \cup {u}
      /\ \A v \in Users : role'[v] = IF v = u THEN r ELSE role[v]
      /\ \A v \in Users : grantedBy'[v] = IF v = u THEN g ELSE grantedBy[v]
      /\ \A v \in Users : rank'[v] = IF v = u /\ rank[u] < Rank[r] THEN Rank[r] ELSE rank[v]
  BY <1>t DEF Grant
<1>2. /\ account' \subseteq Users /\ role' \in [Users -> Roles \cup {"none"}]
      /\ grantedBy' \in [Users -> Users \cup {None, Operator}]
  BY <1>t DEF Grant
<1>3. rank' \in [Users -> 0 .. 3]
  BY <1>t, <1>r DEF Grant
<1>4. \A v \in Users : rank'[v] \in 0 .. 3 /\ rank'[v] >= rank[v]
  BY <1>t, <1>r, <1>1
<1>5. rank'[u] >= Rank[r]
  BY <1>t, <1>r, <1>1
<1>6. \A v \in Users : role'[v] # "none" =>
        v \in account' /\ grantedBy'[v] # None /\ rank'[v] >= Rank[role'[v]]
  <2> SUFFICES ASSUME NEW v \in Users, role'[v] # "none"
               PROVE  v \in account' /\ grantedBy'[v] # None /\ rank'[v] >= Rank[role'[v]]
    OBVIOUS
  <2>1. CASE v = u
    BY <2>1, <1>1, <1>5, <1>a
  <2>2. CASE v # u
    BY <2>2, <1>1 DEF RoleInv
  <2>3. QED
    BY <2>1, <2>2
<1>7. PrivilegeFromPrivilege'
  <2> SUFFICES ASSUME NEW v \in Users, grantedBy'[v] \in Users
               PROVE  rank'[grantedBy'[v]] >= (IF role'[v] \in Staff THEN 3 ELSE 2)
    BY DEF PrivilegeFromPrivilege
  <2>0. rank[grantedBy'[v]] \in 0 .. 3 /\ rank'[grantedBy'[v]] \in 0 .. 3
        /\ rank'[grantedBy'[v]] >= rank[grantedBy'[v]]
    BY <1>t, <1>4
  <2>1. CASE v = u
    BY <2>0, <2>1, <1>1 DEF Entitled
  <2>2. CASE v # u
    BY <2>0, <2>2, <1>1 DEF RoleInv, PrivilegeFromPrivilege
  <2>3. QED
    BY <2>1, <2>2
<1>8. QED
  BY <1>2, <1>3, <1>4, <1>6, <1>7 DEF RoleInv

(* The member behind a usable session cookie.                              *)
LEMMA ActorType ==
  ASSUME IInv, NEW b \in Browsers, Usable(cookie[b].session)
  PROVE  Actor(b) \in Users /\ role[Actor(b)] # "none" /\ rank[Actor(b)] >= Rank[role[Actor(b)]]
<1>1. cookie[b].session \in Sessions
  BY DEF IInv, BrowserType, Cookies, Usable
<1>2. session[cookie[b].session].state = "live"
  BY DEF Usable
<1>3. QED
  BY <1>1, <1>2 DEF IInv, SessionInv, RoleInv, Actor, Usable

(* Every step gives roles only as it may, and takes no rank away.          *)
LEMMA RoleStep ==
  ASSUME IInv, Next
  PROVE  RoleInv' /\ \A v \in Users : rank'[v] >= rank[v]
<1>t. RoleInv /\ rank \in [Users -> 0 .. 3] /\ role \in [Users -> Roles \cup {"none"}]
      /\ grantedBy \in [Users -> Users \cup {None, Operator}]
  BY DEF IInv, RoleInv
<1>0. CASE UNCHANGED memberVars
  <2>1. \A v \in Users : rank'[v] >= rank[v]
    BY <1>0, <1>t DEF memberVars
  <2>2. QED
    BY <2>1, <1>0, <1>t DEF memberVars, RoleInv, PrivilegeFromPrivilege
<1>1. ASSUME NEW u \in Users, NEW r \in Roles, NEW replace \in BOOLEAN, Bootstrap(u, r, replace)
      PROVE  RoleInv' /\ \A v \in Users : rank'[v] >= rank[v]
  <2>1. Grant(u, r, Operator) /\ Operator \notin Users
    BY <1>1, IdentityAssumption DEF Bootstrap
  <2>2. QED
    BY <2>1, <1>t, GrantStep
<1>2. ASSUME NEW a \in Attempts, NEW id \in Idents, NEW s \in Sessions,
             CompleteSignInWithInvitation(a, id, s)
      PROVE  RoleInv' /\ \A v \in Users : rank'[v] >= rank[v]
  <2>1. attempt[a].invite \in Invites /\ invite[attempt[a].invite].state = "open"
    BY <1>2 DEF CompleteSignInWithInvitation, IInv, BrowserType, AttemptRow
  <2>2. PICK g \in Users, r \in Roles :
          /\ g = invite[attempt[a].invite].issuer /\ r = invite[attempt[a].invite].role
          /\ Entitled(g, r)
    BY <2>1 DEF IInv, InviteInv, InviteRow, Entitled, Roles
  <2>3. Grant(id[2], r, g) /\ id[2] \in Users
    BY <1>2, <2>2, IdentityAssumption DEF CompleteSignInWithInvitation
  <2>4. QED
    BY <2>2, <2>3, <1>t, GrantStep
<1>3. ASSUME ChangeMemberRole
      PROVE  RoleInv' /\ \A v \in Users : rank'[v] >= rank[v]
  <2>1. /\ change.target \in Users /\ change.to \in Roles
        /\ change.actor \in Users /\ rank[change.actor] >= 3
    BY <1>3 DEF ChangeMemberRole, IInv, ChangeInv, Change
  <2>2. Entitled(change.actor, change.to)
    BY <2>1, <1>t DEF Entitled
  <2>3. QED
    BY <1>3, <2>1, <2>2, <1>t, GrantStep DEF ChangeMemberRole
<1>4. ASSUME RevokeMember
      PROVE  RoleInv' /\ \A v \in Users : rank'[v] >= rank[v]
  <2> DEFINE u == change.target
  <2>1. u \in Users
    BY <1>4 DEF RevokeMember, IInv, ChangeInv, Change
  <2>2. /\ UNCHANGED <<account, rank>> /\ None \notin Users
        /\ role' = [role EXCEPT ![u] = "none"] /\ grantedBy' = [grantedBy EXCEPT ![u] = None]
    BY <1>4, IdentityAssumption DEF RevokeMember
  <2> HIDE DEF u
  <2>3. \A v \in Users : rank'[v] >= rank[v]
    BY <2>2, <1>t
  <2>4. QED
    BY <2>1, <2>2, <2>3, <1>t DEF RoleInv, PrivilegeFromPrivilege
<1>5. \/ UNCHANGED memberVars
      \/ \E u \in Users, r \in Roles, replace \in BOOLEAN : Bootstrap(u, r, replace)
      \/ \E a \in Attempts, id \in Idents, s \in Sessions : CompleteSignInWithInvitation(a, id, s)
      \/ ChangeMemberRole \/ RevokeMember
  BY DEF Next, AcceptInvite, StartGoogle, Callback, CallbackError, Logout, CheckRevoke,
     CompleteSignIn, SignInRefused, RotateSession, Expire, CheckInvite, IssueInvitation,
     RevokeInvitation, BootstrapCheck, BootstrapRefused, BeginChange, AbortChange
<1>6. QED
  BY <1>0, <1>1, <1>2, <1>3, <1>4, <1>5

-----------------------------------------------------------------------------
(* Invitations *)

(* Whoever was entitled to give a role stays so in this sense.             *)
LEMMA EntitledStays ==
  ASSUME RoleInv, RoleInv', \A v \in Users : rank'[v] >= rank[v], NEW u, NEW r, Entitled(u, r)
  PROVE  u \in Users /\ rank'[u] >= (IF r \in Staff THEN 3 ELSE 2)
<1>1. u \in Users /\ rank[u] \in 0 .. 3 /\ rank'[u] \in 0 .. 3 /\ rank'[u] >= rank[u]
  BY DEF RoleInv, Entitled
<1>2. QED
  BY <1>1 DEF Entitled

(* A step that issues nothing: invitations keep their issuer and role.     *)
LEMMA InvitesKept ==
  ASSUME IInv, RoleInv', \A v \in Users : rank'[v] >= rank[v],
         invite' \in [Invites -> InviteRow],
         \A i \in Invites : invite'[i].state = "open" => invite'[i] = invite[i],
         task' \in {NoTask, task} \cup RevokeTask
  PROVE  InviteInv'
<1>0. RoleInv /\ InviteInv
  BY DEF IInv
<1>1. \A i \in Invites : invite'[i].state = "open" =>
        /\ invite'[i].issuer \in Users
        /\ rank'[invite'[i].issuer] >= (IF invite'[i].role \in Staff THEN 3 ELSE 2)
  BY <1>0, EntitledStays DEF InviteInv
<1>2. task' \in IssueTask => task' = task
  BY DEF NoTask, IssueTask, RevokeTask
<1>3. task' \in IssueTask =>
        task'.actor \in Users /\ rank'[task'.actor] >= (IF task'.role \in Staff THEN 3 ELSE 2)
  BY <1>0, <1>2, EntitledStays DEF InviteInv
<1>4. task' \in {NoTask} \cup IssueTask \cup RevokeTask
  BY <1>0 DEF InviteInv
<1>5. QED
  BY <1>1, <1>3, <1>4 DEF InviteInv, Entitled

(* Every step keeps invitations and the request about them sound.          *)
LEMMA InviteStep ==
  ASSUME IInv, Next
  PROVE  InviteInv'
<1>t. /\ RoleInv' /\ \A v \in Users : rank'[v] >= rank[v]
  BY RoleStep
<1>i. /\ invite \in [Invites -> InviteRow] /\ RoleInv /\ InviteInv
      /\ task \in {NoTask} \cup IssueTask \cup RevokeTask
  BY DEF IInv, InviteInv
<1>0. CASE UNCHANGED <<invite, task>>
  BY <1>0, <1>t, <1>i, InvitesKept
<1>1. ASSUME NEW a \in Attempts, NEW id \in Idents, NEW s \in Sessions,
             CompleteSignInWithInvitation(a, id, s)
      PROVE  InviteInv'
  <2>1. PICK i \in Invites, u \in Users :
          invite' = [invite EXCEPT ![i] = [invite[i] EXCEPT !.state = "consumed", !.by = u]]
    <3>1. attempt[a].invite \in Invites /\ id[2] \in Users
      BY <1>1, IdentityAssumption DEF CompleteSignInWithInvitation, IInv, BrowserType, AttemptRow
    <3>2. QED
      BY <1>1, <3>1, <1>i DEF CompleteSignInWithInvitation
  <2>2. invite' \in [Invites -> InviteRow]
        /\ \A j \in Invites : invite'[j].state = "open" => invite'[j] = invite[j]
    BY <2>1, <1>i DEF InviteRow
  <2>3. task' = task
    BY <1>1 DEF CompleteSignInWithInvitation
  <2>4. QED
    BY <2>2, <2>3, <1>t, InvitesKept
<1>2. CASE Expire
  <2>1. UNCHANGED task /\ (\/ UNCHANGED invite
                           \/ \E i \in Invites : invite' = [invite EXCEPT ![i].state = "closed"])
    BY <1>2 DEF Expire
  <2>2. invite' \in [Invites -> InviteRow]
        /\ \A j \in Invites : invite'[j].state = "open" => invite'[j] = invite[j]
    BY <2>1, <1>i DEF InviteRow
  <2>3. QED
    BY <2>1, <2>2, <1>t, InvitesKept
<1>3. ASSUME NEW b \in Browsers, CheckRevoke(b) PROVE InviteInv'
  <2>1. Actor(b) \in Users
    BY <1>3, ActorType DEF CheckRevoke, IsStaff
  <2>2. task' \in RevokeTask /\ UNCHANGED invite
    BY <1>3, <2>1 DEF CheckRevoke, RevokeTask
  <2>3. QED
    BY <2>2, <1>t, <1>i, InvitesKept
<1>4. ASSUME NEW b \in Browsers, NEW r \in {"member", "admin"}, NEW e \in Addressees,
             CheckInvite(b, r, e)
      PROVE  InviteInv'
  <2>1. Actor(b) \in Users /\ rank[Actor(b)] >= Rank[role[Actor(b)]] /\ rank[Actor(b)] \in 0 .. 3
    BY <1>4, <1>i, ActorType DEF CheckInvite, IsStaff, RoleInv
  <2>2. task' = [kind |-> "issue", actor |-> Actor(b), role |-> r, email |-> e]
        /\ UNCHANGED <<invite, memberVars>> /\ UNCHANGED <<rank, role>> /\ MayIssue(Actor(b), r)
    BY <1>4 DEF CheckInvite, memberVars
  <2>3. Entitled(Actor(b), r)
    BY <2>1, <2>2 DEF MayIssue, Rank, Entitled, Staff
  <2>4. task' \in IssueTask /\ task'.actor = Actor(b) /\ task'.role = r
    BY <2>1, <2>2, IdentityAssumption DEF IssueTask
  <2>5. task' \notin {NoTask}
    BY <2>2 DEF NoTask
  <2>6. QED
    BY <2>2, <2>3, <2>4, <2>5, <1>i DEF InviteInv, Entitled
<1>5. ASSUME NEW i \in Invites, IssueInvitation(i) PROVE InviteInv'
  <2>1. task \in IssueTask /\ Entitled(task.actor, task.role)
    BY <1>5, <1>i DEF IssueInvitation, InviteInv, NoTask, RevokeTask
  <2>2. invite' = [invite EXCEPT ![i] = [state |-> "open", role |-> task.role,
                       email |-> task.email, issuer |-> task.actor, by |-> None]]
        /\ task' = NoTask /\ UNCHANGED <<memberVars>> /\ UNCHANGED rank
    BY <1>5 DEF IssueInvitation, memberVars
  <2>3. invite' \in [Invites -> InviteRow]
    BY <2>1, <2>2, <1>i DEF InviteRow, IssueTask
  <2>4. \A j \in Invites : invite'[j].state = "open" => Entitled(invite'[j].issuer, invite'[j].role)
    BY <2>1, <2>2, <1>i DEF InviteInv
  <2>5. NoTask \notin IssueTask
    BY DEF NoTask, IssueTask
  <2>6. QED
    BY <2>2, <2>3, <2>4, <2>5 DEF InviteInv, Entitled
<1>6. ASSUME NEW i \in Invites, RevokeInvitation(i) PROVE InviteInv'
  <2>1. task' = NoTask /\ (invite' = invite \/ invite' = [invite EXCEPT ![i].state = "closed"])
    BY <1>6 DEF RevokeInvitation
  <2>2. invite' \in [Invites -> InviteRow]
        /\ \A j \in Invites : invite'[j].state = "open" => invite'[j] = invite[j]
    BY <2>1, <1>i DEF InviteRow
  <2>3. QED
    BY <2>1, <2>2, <1>t, InvitesKept
<1>7. \/ UNCHANGED <<invite, task>> \/ Expire
      \/ \E a \in Attempts, id \in Idents, s \in Sessions : CompleteSignInWithInvitation(a, id, s)
      \/ \E b \in Browsers : CheckRevoke(b)
      \/ \E b \in Browsers, r \in {"member", "admin"}, e \in Addressees : CheckInvite(b, r, e)
      \/ \E i \in Invites : IssueInvitation(i) \/ RevokeInvitation(i)
  BY DEF Next, BootstrapCheck, Bootstrap, BootstrapRefused, AcceptInvite, StartGoogle, Callback,
     CallbackError, Logout, CompleteSignIn, SignInRefused, RotateSession, BeginChange,
     AbortChange, ChangeMemberRole, RevokeMember
<1>8. QED
  BY <1>0, <1>1, <1>2, <1>3, <1>4, <1>5, <1>6, <1>7

-----------------------------------------------------------------------------
(* Attempts, sessions and cookies *)

(* An attempt that is spent, or whose cookie is gone, harms nothing.       *)
LEMMA AttemptStep ==
  ASSUME BrowserType, AttemptInv, SessionInv, UNCHANGED session,
         cookie' \in [Browsers -> Cookies], attempt' \in [Attempts -> AttemptRow],
         \A b \in Browsers : cookie'[b].session = cookie[b].session,
         \A b \in Browsers : cookie'[b].attempt \in {cookie[b].attempt, None},
         \A a \in Attempts : attempt'[a] = attempt[a] \/ attempt'[a].state = "spent"
  PROVE  BrowserType' /\ AttemptInv' /\ SessionInv'
<1>a. None \notin Attempts
  BY IdentityAssumption
<1>1. BrowserType'
  BY DEF BrowserType
<1>2. AttemptInv'
  BY <1>a DEF AttemptInv
<1>3. SessionInv'
  BY DEF SessionInv, OneLiveSessionPerSignIn
<1>4. QED
  BY <1>1, <1>2, <1>3

(* StartGoogle: a fresh attempt, in the cookie of the browser it is for.   *)
LEMMA StartStep ==
  ASSUME IInv, NEW b \in Browsers, NEW a \in Attempts, StartGoogle(b, a)
  PROVE  BrowserType' /\ AttemptInv' /\ SessionInv'
<1>t. BrowserType /\ AttemptInv /\ SessionInv
  BY DEF IInv
<1>0. attempt[a].state = "none" /\ UNCHANGED session
  BY DEF StartGoogle
<1>1. /\ attempt'[a].state = "open" /\ attempt'[a].browser = b
      /\ \A x \in Attempts : x # a => attempt'[x] = attempt[x]
  BY <1>t DEF StartGoogle, NoAttempt, BrowserType
<1>2. \A c \in Browsers : cookie'[c] =
        IF c = b THEN [attempt |-> a, invite |-> cookie[b].invite, session |-> cookie[b].session]
        ELSE cookie[c]
  BY <1>t DEF StartGoogle, BrowserType, Cookies
<1>3. attempt' \in [Attempts -> AttemptRow]
  BY <1>t DEF StartGoogle, NoAttempt, BrowserType, AttemptRow
<1>4. cookie' \in [Browsers -> Cookies]
  BY <1>t DEF StartGoogle, BrowserType, Cookies
<1>5. BrowserType'
  BY <1>0, <1>3, <1>4, <1>t DEF BrowserType
<1>6. AttemptInv'
  BY <1>0, <1>1, <1>2, <1>t DEF AttemptInv
<1>7. \A c \in Browsers : cookie'[c].session = cookie[c].session
  BY <1>2
<1>8. \A x \in Attempts : attempt[x].state = "spent" => attempt'[x].state = "spent"
  BY <1>0, <1>1
<1>9. SessionInv'
  BY <1>0, <1>7, <1>8, <1>t DEF SessionInv, OneLiveSessionPerSignIn
<1>10. QED
  BY <1>5, <1>6, <1>9

(* Callback: only the attempt of the browser's own cookie is exchanged.    *)
LEMMA CallbackStep ==
  ASSUME IInv, NEW b \in Browsers, NEW a \in Attempts, Callback(b, a)
  PROVE  BrowserType' /\ AttemptInv' /\ SessionInv'
<1>t. BrowserType /\ AttemptInv /\ SessionInv
  BY DEF IInv
<1>0. UNCHANGED session /\ b # None /\ None \notin Attempts
  BY IdentityAssumption DEF Callback
<1>1. \A c \in Browsers : cookie'[c] =
        IF c = b THEN [attempt |-> None, invite |-> cookie[b].invite, session |-> cookie[b].session]
        ELSE cookie[c]
  BY <1>t DEF Callback, BrowserType, Cookies
<1>2. /\ cookie' \in [Browsers -> Cookies]
      /\ \A c \in Browsers : cookie'[c].session = cookie[c].session
      /\ \A c \in Browsers : cookie'[c].attempt \in {cookie[c].attempt, None}
  BY <1>1, <1>t DEF Callback, BrowserType, Cookies
<1>3. CASE attempt' = attempt \/ attempt' = [attempt EXCEPT ![a] = Spent]
  <2>1. attempt' \in [Attempts -> AttemptRow]
        /\ \A x \in Attempts : attempt'[x] = attempt[x] \/ attempt'[x].state = "spent"
    BY <1>3, <1>t DEF BrowserType, AttemptRow, Spent, NoAttempt
  <2>2. QED
    BY <2>1, <1>0, <1>2, <1>t, AttemptStep
<1>4. CASE /\ attempt[a].state = "open" /\ cookie[b].attempt = a
           /\ attempt' = [attempt EXCEPT ![a] = [state |-> "exchange", browser |-> b,
                                                 invite |-> cookie[b].invite]]
  <2>1. \A x \in Attempts : attempt'[x] =
          IF x = a THEN [state |-> "exchange", browser |-> b, invite |-> cookie[b].invite]
          ELSE attempt[x]
    BY <1>4, <1>t DEF BrowserType
  <2>2. attempt' \in [Attempts -> AttemptRow]
    BY <1>4, <1>t DEF BrowserType, AttemptRow, Cookies
  <2>3. BrowserType'
    BY <2>2, <1>0, <1>2, <1>t DEF BrowserType
  <2>4. AttemptInv'
    BY <2>1, <1>0, <1>2, <1>t DEF AttemptInv
  <2>5. SessionInv'
    BY <2>1, <1>0, <1>2, <1>4, <1>t DEF SessionInv, OneLiveSessionPerSignIn
  <2>6. QED
    BY <2>3, <2>4, <2>5
<1>5. QED
  BY <1>3, <1>4 DEF Callback

(* OpenSession: the one session an attempt yields, in the browser that     *)
(* exchanged it.                                                           *)
LEMMA OpenStep ==
  ASSUME IInv, NEW a \in Attempts, NEW s \in Sessions, NEW u \in Users,
         attempt[a].state = "exchange", OpenSession(a, s, u)
  PROVE  BrowserType' /\ AttemptInv' /\ SessionInv'
<1>t. BrowserType /\ AttemptInv /\ SessionInv /\ None \notin Attempts /\ None \notin Sessions
  BY IdentityAssumption DEF IInv
<1>0. PICK b \in Browsers : b = attempt[a].browser
  BY <1>t DEF BrowserType, AttemptInv, AttemptRow
<1>1. /\ session[s].state = "none"
      /\ session' = [session EXCEPT ![s] = [state |-> "live", user |-> u, attempt |-> a, from |-> None]]
      /\ attempt' = [attempt EXCEPT ![a] = Spent]
  BY DEF OpenSession
<1>2. /\ cookie' \in [Browsers -> Cookies]
      /\ \A c \in Browsers : c # b => cookie'[c] = cookie[c]
      /\ cookie'[b].attempt = cookie[b].attempt /\ cookie'[b].session = s
  <2>1. cookie[b] \in Cookies
    BY <1>t DEF BrowserType
  <2>2. PICK i \in Invites \cup {None} :
          cookie' = [cookie EXCEPT ![b] = [[cookie[b] EXCEPT !.session = s] EXCEPT !.invite = i]]
    BY <2>1, <1>0, <1>t DEF OpenSession, BrowserType, Cookies
  <2>3. QED
    BY <2>1, <2>2, <1>t DEF BrowserType, Cookies
<1>3. /\ \A x \in Sessions : x # s => session'[x] = session[x]
      /\ session'[s] = [state |-> "live", user |-> u, attempt |-> a, from |-> None]
      /\ \A x \in Attempts : x # a => attempt'[x] = attempt[x]
      /\ attempt'[a].state = "spent"
  BY <1>1, <1>t DEF BrowserType, Spent, NoAttempt
<1>4. BrowserType'
  <2>1. session' \in [Sessions -> SessionRow]
    BY <1>1, <1>t DEF BrowserType, SessionRow
  <2>2. attempt' \in [Attempts -> AttemptRow]
    BY <1>1, <1>t DEF BrowserType, AttemptRow, Spent, NoAttempt
  <2>3. QED
    BY <2>1, <2>2, <1>2 DEF BrowserType
<1>5. AttemptInv'
  BY <1>2, <1>3, <1>t DEF AttemptInv
<1>6. \A x \in Sessions : session[x].state # "none" => session[x].attempt # a /\ x # s
  BY <1>1, <1>t DEF SessionInv
<1>7. \A c \in Browsers : cookie[c].session # s
  BY <1>1, <1>t DEF SessionInv
<1>8. OneLiveSessionPerSignIn'
  <2> SUFFICES ASSUME NEW x \in Sessions, NEW y \in Sessions
               PROVE  /\ x # y /\ session'[x].state = "live" /\ session'[y].state = "live"
                           => session'[x].attempt # session'[y].attempt
                      /\ \A c, d \in Browsers : c # d /\ cookie'[c].session = x => cookie'[d].session # x
    BY DEF OneLiveSessionPerSignIn
  <2>1. x # y /\ session'[x].state = "live" /\ session'[y].state = "live"
          => session'[x].attempt # session'[y].attempt
    BY <1>3, <1>6, <1>t DEF SessionInv, OneLiveSessionPerSignIn
  <2>2. \A c, d \in Browsers : c # d /\ cookie'[c].session = x => cookie'[d].session # x
    BY <1>2, <1>7, <1>t DEF SessionInv, OneLiveSessionPerSignIn
  <2>3. QED
    BY <2>1, <2>2
<1>9. SessionInv'
  BY <1>2, <1>3, <1>8, <1>t DEF SessionInv
<1>10. QED
  BY <1>4, <1>5, <1>9

(* Rotation: the old session ends, and its cookie becomes the new one's.   *)
LEMMA RotateStep ==
  ASSUME IInv, NEW s \in Sessions, NEW n \in Sessions, RotateSession(s, n)
  PROVE  BrowserType' /\ AttemptInv' /\ SessionInv'
<1>t. BrowserType /\ AttemptInv /\ SessionInv /\ None \notin Sessions
  BY IdentityAssumption DEF IInv
<1>0. session[s].state = "live" /\ session[n].state = "none" /\ n # s /\ attempt' = attempt
      /\ session[s] \in SessionRow
  BY <1>t DEF RotateSession, BrowserType
<1>1. session' = [session EXCEPT ![s] = [session[s] EXCEPT !.state = "ended"],
                                 ![n] = [session[s] EXCEPT !.from = s]]
  BY <1>0, <1>t DEF RotateSession, BrowserType
<1>2. [session[s] EXCEPT !.state = "ended"] =
        [state |-> "ended", user |-> session[s].user, attempt |-> session[s].attempt,
         from |-> session[s].from]
  BY <1>0 DEF SessionRow
<1>3. [session[s] EXCEPT !.from = s] =
        [state |-> "live", user |-> session[s].user, attempt |-> session[s].attempt, from |-> s]
  BY <1>0 DEF SessionRow
<1>4. /\ \A x \in Sessions \ {s, n} : session'[x] = session[x]
      /\ session'[s].state = "ended" /\ session'[n].state = "live"
      /\ session'[s].user = session[s].user /\ session'[n].user = session[s].user
      /\ session'[s].attempt = session[s].attempt /\ session'[n].attempt = session[s].attempt
  BY <1>0, <1>1, <1>2, <1>3, <1>t DEF BrowserType
<1>5. session' \in [Sessions -> SessionRow]
  BY <1>0, <1>1, <1>2, <1>3, <1>t DEF BrowserType, SessionRow
<1>6. /\ cookie' \in [Browsers -> Cookies]
      /\ \A b \in Browsers : cookie'[b].attempt = cookie[b].attempt
      /\ \A b \in Browsers :
           cookie'[b].session = IF cookie[b].session = s THEN n ELSE cookie[b].session
  BY <1>t DEF RotateSession, BrowserType, Cookies
<1>7. BrowserType'
  BY <1>0, <1>5, <1>6, <1>t DEF BrowserType
<1>8. AttemptInv'
  BY <1>0, <1>6, <1>t DEF AttemptInv
<1>9. \A b \in Browsers : cookie[b].session # n
  BY <1>0, <1>t DEF SessionInv
<1>10. OneLiveSessionPerSignIn'
  <2> SUFFICES ASSUME NEW x \in Sessions, NEW y \in Sessions
               PROVE  /\ x # y /\ session'[x].state = "live" /\ session'[y].state = "live"
                           => session'[x].attempt # session'[y].attempt
                      /\ \A c, d \in Browsers : c # d /\ cookie'[c].session = x => cookie'[d].session # x
    BY DEF OneLiveSessionPerSignIn
  <2>1. x # y /\ session'[x].state = "live" /\ session'[y].state = "live"
          => session'[x].attempt # session'[y].attempt
    BY <1>0, <1>4, <1>t DEF SessionInv, OneLiveSessionPerSignIn
  <2>2. \A c, d \in Browsers : c # d /\ cookie'[c].session = x => cookie'[d].session # x
    BY <1>6, <1>9, <1>t DEF SessionInv, OneLiveSessionPerSignIn
  <2>3. QED
    BY <2>1, <2>2
<1>11. SessionInv'
  BY <1>0, <1>4, <1>6, <1>9, <1>10, <1>t DEF SessionInv
<1>12. QED
  BY <1>7, <1>8, <1>11

(* Sessions end and cookies are cleared: logging out, and time passing.    *)
LEMMA EndStep ==
  ASSUME IInv, UNCHANGED attempt,
         \/ session' = session
         \/ \E s \in Sessions : session[s].state = "live" /\ session' = [session EXCEPT ![s].state = "ended"],
         cookie' = cookie \/ \E b \in Browsers : cookie' = [cookie EXCEPT ![b].session = None]
  PROVE  BrowserType' /\ AttemptInv' /\ SessionInv'
<1>t. BrowserType /\ AttemptInv /\ SessionInv /\ None \notin Sessions
  BY IdentityAssumption DEF IInv
<1>1. /\ session' \in [Sessions -> SessionRow]
      /\ \A x \in Sessions : /\ session'[x].user = session[x].user
                             /\ session'[x].attempt = session[x].attempt
                             /\ session'[x].state = "none" <=> session[x].state = "none"
                             /\ session'[x].state = "live" => session[x].state = "live"
  BY <1>t DEF BrowserType, SessionRow
<1>2. /\ cookie' \in [Browsers -> Cookies]
      /\ \A b \in Browsers : cookie'[b].attempt = cookie[b].attempt
      /\ \A b \in Browsers : cookie'[b].session \in {cookie[b].session, None}
  BY <1>t DEF BrowserType, Cookies
<1>3. BrowserType' /\ AttemptInv'
  BY <1>1, <1>2, <1>t DEF BrowserType, AttemptInv
<1>4. SessionInv'
  BY <1>1, <1>2, <1>t DEF SessionInv, OneLiveSessionPerSignIn
<1>5. QED
  BY <1>3, <1>4

(* Every step keeps attempts, sessions and cookies in order.               *)
LEMMA BrowserStep ==
  ASSUME IInv, Next
  PROVE  BrowserType' /\ AttemptInv' /\ SessionInv'
<1>t. BrowserType /\ AttemptInv /\ SessionInv /\ LinkType
  BY DEF IInv
<1>0. CASE UNCHANGED <<attempt, session, cookie>>
  BY <1>0, <1>t DEF BrowserType, AttemptInv, SessionInv, OneLiveSessionPerSignIn
<1>1. ASSUME NEW b \in Browsers, NEW i \in Invites, AcceptInvite(b, i)
      PROVE  BrowserType' /\ AttemptInv' /\ SessionInv'
  <2>1. cookie' = [cookie EXCEPT ![b].invite = i] /\ UNCHANGED <<attempt, session>>
    BY <1>1 DEF AcceptInvite
  <2>2. /\ cookie' \in [Browsers -> Cookies]
        /\ \A c \in Browsers : cookie'[c].session = cookie[c].session
        /\ \A c \in Browsers : cookie'[c].attempt = cookie[c].attempt
    BY <2>1, <1>t DEF BrowserType, Cookies
  <2>3. QED
    BY <2>1, <2>2, <1>t, AttemptStep DEF BrowserType
<1>2. ASSUME NEW b \in Browsers, CallbackError(b)
      PROVE  BrowserType' /\ AttemptInv' /\ SessionInv'
  <2>1. cookie' = [cookie EXCEPT ![b].attempt = None] /\ UNCHANGED <<attempt, session>>
    BY <1>2 DEF CallbackError
  <2>2. /\ cookie' \in [Browsers -> Cookies]
        /\ \A c \in Browsers : cookie'[c].session = cookie[c].session
        /\ \A c \in Browsers : cookie'[c].attempt \in {cookie[c].attempt, None}
    BY <2>1, <1>t DEF BrowserType, Cookies
  <2>3. QED
    BY <2>1, <2>2, <1>t, AttemptStep DEF BrowserType
<1>3. ASSUME NEW a \in Attempts, NEW tried \in BOOLEAN, SignInRefused(a, tried)
      PROVE  BrowserType' /\ AttemptInv' /\ SessionInv'
  <2>1. attempt' = [attempt EXCEPT ![a] = Spent] /\ UNCHANGED session
        /\ (cookie' = cookie \/ cookie' = [cookie EXCEPT ![attempt[a].browser].invite = None])
    BY <1>3 DEF SignInRefused
  <2>2. /\ cookie' \in [Browsers -> Cookies]
        /\ \A c \in Browsers : cookie'[c].session = cookie[c].session
        /\ \A c \in Browsers : cookie'[c].attempt = cookie[c].attempt
    BY <2>1, <1>t DEF BrowserType, Cookies
  <2>3. attempt' \in [Attempts -> AttemptRow]
        /\ \A x \in Attempts : attempt'[x] = attempt[x] \/ attempt'[x].state = "spent"
    BY <2>1, <1>t DEF BrowserType, AttemptRow, Spent, NoAttempt
  <2>4. QED
    BY <2>1, <2>2, <2>3, <1>t, AttemptStep
<1>4. ASSUME NEW a \in Attempts, NEW id \in Idents, NEW s \in Sessions,
             CompleteSignIn(a, id, s) \/ CompleteSignInWithInvitation(a, id, s)
      PROVE  BrowserType' /\ AttemptInv' /\ SessionInv'
  <2>1. id[1] \in Subjects /\ id[2] \in Users /\ None \notin Users
    BY IdentityAssumption
  <2>2. Linked(id) => link[id[1]] \in Users
    BY <2>1, <1>t DEF Linked, LinkType
  <2>3. attempt[a].state = "exchange" /\ \E u \in Users : OpenSession(a, s, u)
    BY <1>4, <2>1, <2>2 DEF CompleteSignIn, CompleteSignInWithInvitation
  <2>4. QED
    BY <2>3, OpenStep
<1>5. CASE Expire
  <2>1. CASE UNCHANGED attempt
    BY <1>5, <2>1, EndStep DEF Expire
  <2>2. CASE ~ UNCHANGED attempt
    <3>1. UNCHANGED <<session, cookie>> /\ \E a \in Attempts : attempt' = [attempt EXCEPT ![a] = Spent]
      BY <1>5, <2>2 DEF Expire
    <3>2. attempt' \in [Attempts -> AttemptRow]
          /\ \A x \in Attempts : attempt'[x] = attempt[x] \/ attempt'[x].state = "spent"
      BY <3>1, <1>t DEF BrowserType, AttemptRow, Spent, NoAttempt
    <3>3. QED
      BY <3>1, <3>2, <1>t, AttemptStep DEF BrowserType
  <2>3. QED
    BY <2>1, <2>2
<1>6. ASSUME NEW b \in Browsers, Logout(b)
      PROVE  BrowserType' /\ AttemptInv' /\ SessionInv'
  <2>1. Usable(cookie[b].session) => cookie[b].session \in Sessions
                                     /\ session[cookie[b].session].state = "live"
    BY <1>t DEF Usable, BrowserType, Cookies
  <2>2. UNCHANGED attempt /\ cookie' = [cookie EXCEPT ![b].session = None]
        /\ (\/ session' = session
            \/ \E s \in Sessions : /\ session[s].state = "live"
                                   /\ session' = [session EXCEPT ![s].state = "ended"])
    BY <1>6, <2>1 DEF Logout
  <2>3. QED
    BY <2>2, EndStep
<1>7. \/ UNCHANGED <<attempt, session, cookie>> \/ Expire
      \/ \E b \in Browsers, i \in Invites : AcceptInvite(b, i)
      \/ \E b \in Browsers, a \in Attempts : StartGoogle(b, a) \/ Callback(b, a)
      \/ \E b \in Browsers : CallbackError(b) \/ Logout(b)
      \/ \E a \in Attempts, id \in Idents, s \in Sessions :
             CompleteSignIn(a, id, s) \/ CompleteSignInWithInvitation(a, id, s)
      \/ \E a \in Attempts, tried \in BOOLEAN : SignInRefused(a, tried)
      \/ \E s, s2 \in Sessions : RotateSession(s, s2)
  BY DEF Next, BootstrapCheck, Bootstrap, BootstrapRefused, CheckRevoke, CheckInvite,
     IssueInvitation, RevokeInvitation, BeginChange, AbortChange, ChangeMemberRole, RevokeMember
<1>8. QED
  BY <1>0, <1>1, <1>2, <1>3, <1>4, <1>5, <1>6, <1>7, StartStep, CallbackStep, RotateStep

(* Subjects and the operator's commands.                                   *)
LEMMA LinkStep ==
  ASSUME IInv, Next
  PROVE  /\ LinkType'
         /\ \A x \in Subjects : link[x] # None => link'[x] = link[x]
<1>t. link \in [Subjects -> Users \cup {None}] /\ commands \in 0 .. MaxCommands /\ MaxCommands \in Nat
  BY IdentityAssumption DEF IInv, LinkType
<1>0. CASE UNCHANGED <<link, commands>>
  BY <1>0, <1>t DEF LinkType
<1>1. ASSUME NEW u \in Users, BootstrapCheck(u) \/ \E r \in Roles, replace \in BOOLEAN : Bootstrap(u, r, replace)
      PROVE  LinkType' /\ link' = link
  BY <1>1, <1>t DEF BootstrapCheck, Bootstrap, LinkType
<1>2. ASSUME NEW a \in Attempts, NEW id \in Idents, NEW s \in Sessions,
             CompleteSignIn(a, id, s) \/ CompleteSignInWithInvitation(a, id, s)
      PROVE  LinkType' /\ \A x \in Subjects : link[x] # None => link'[x] = link[x]
  <2>1. id[1] \in Subjects /\ id[2] \in Users /\ UNCHANGED commands
    BY <1>2, IdentityAssumption DEF CompleteSignIn, CompleteSignInWithInvitation, openVars
  <2>2. link' = link \/ (link' = [link EXCEPT ![id[1]] = id[2]] /\ link[id[1]] \in {None, id[2]})
    BY <1>2, <1>t DEF CompleteSignIn, CompleteSignInWithInvitation, Approved, ByEmail
  <2>3. QED
    BY <2>1, <2>2, <1>t DEF LinkType
<1>3. \/ UNCHANGED <<link, commands>>
      \/ \E u \in Users : BootstrapCheck(u) \/ \E r \in Roles, replace \in BOOLEAN : Bootstrap(u, r, replace)
      \/ \E a \in Attempts, id \in Idents, s \in Sessions :
             CompleteSignIn(a, id, s) \/ CompleteSignInWithInvitation(a, id, s)
  BY DEF Next, AcceptInvite, StartGoogle, Callback, CallbackError, Logout, CheckRevoke,
     SignInRefused, RotateSession, Expire, CheckInvite, IssueInvitation,
     RevokeInvitation, BootstrapRefused, BeginChange, AbortChange, ChangeMemberRole,
     RevokeMember, openVars
<1>4. QED
  BY <1>0, <1>1, <1>2, <1>3

-----------------------------------------------------------------------------
(* Role changes in flight *)

(* Nobody is taken the role of owner, nor is a change begun or overtaken.  *)
LEMMA OwnersKeptChange ==
  ASSUME ChangeInv, RoleInv, \A v \in Users : rank'[v] >= rank[v], RoleInv',
         UNCHANGED change, boot' \in Users \cup {None}, Owners \subseteq Owners'
  PROVE  ChangeInv'
BY DEF ChangeInv, RoleInv

(* Role changes lock their target and count the owners; only the operator  *)
(* can take an owner's role meanwhile, and is noticed.                     *)
LEMMA ChangeStep ==
  ASSUME IInv, Next, RoleInv', \A v \in Users : rank'[v] >= rank[v]
  PROVE  ChangeInv'
<1>t. /\ role \in [Users -> Roles \cup {"none"}] /\ rank \in [Users -> 0 .. 3]
      /\ RoleInv /\ ChangeInv /\ None \notin Users
  BY IdentityAssumption DEF IInv, RoleInv
<1>n. NoChange \in Change /\ NoChange.target = None
  BY DEF NoChange, Change
<1>0. CASE UNCHANGED <<role, boot, change>>
  BY <1>0, <1>t, OwnersKeptChange DEF ChangeInv, Owners
<1>1. CASE BootstrapRefused \/ \E u \in Users : BootstrapCheck(u)
  <2>1. UNCHANGED <<role, change>> /\ boot' \in Users \cup {None}
    BY <1>1 DEF BootstrapRefused, BootstrapCheck, memberVars
  <2>2. QED
    BY <2>1, <1>t, OwnersKeptChange DEF Owners
<1>2. ASSUME NEW u \in Users, NEW r \in Roles, NEW replace \in BOOLEAN, Bootstrap(u, r, replace)
      PROVE  ChangeInv'
  <2>1. /\ boot' = None /\ change.target # u
        /\ \A v \in Users : v # u => role'[v] = role[v]
        /\ change' = [change EXCEPT !.overtaken = @ \/ (change.target # None /\ role[u] = "owner")]
    BY <1>2, <1>t DEF Bootstrap, Grant
  <2>2. change \in Change
    BY <1>t DEF ChangeInv
  <2>3. /\ change' \in Change
        /\ change'.target = change.target /\ change'.actor = change.actor
        /\ change'.overtaken <=> change.overtaken \/ (change.target # None /\ role[u] = "owner")
    BY <2>1, <2>2 DEF Change
  <2>4. ASSUME change'.target # None, ~ change'.overtaken
        PROVE  Owners' \ {change'.target} # {}
    <3>1. role[u] # "owner" /\ Owners \ {change.target} # {}
      BY <2>3, <2>4, <1>t DEF ChangeInv
    <3>2. Owners \subseteq Owners'
      BY <3>1, <2>1 DEF Owners
    <3>3. QED
      BY <3>1, <3>2, <2>3
  <2>5. change'.target # None => change'.actor \in Users /\ rank'[change'.actor] >= 3
    BY <2>3, <1>t DEF ChangeInv, RoleInv
  <2>6. QED
    BY <2>1, <2>3, <2>4, <2>5 DEF ChangeInv
<1>3. ASSUME NEW a \in Attempts, NEW id \in Idents, NEW s \in Sessions,
             CompleteSignInWithInvitation(a, id, s)
      PROVE  ChangeInv'
  <2>1. id[2] \in Users /\ UNCHANGED <<boot, change>>
    BY <1>3, IdentityAssumption DEF CompleteSignInWithInvitation, openVars
  <2>2. \A v \in Users : role[v] = "owner" => role'[v] = "owner"
    BY <1>3, <2>1, <1>t DEF CompleteSignInWithInvitation, Grant
  <2>3. QED
    BY <2>1, <2>2, <1>t, OwnersKeptChange DEF Owners, ChangeInv
<1>4. ASSUME NEW b \in Browsers, NEW u \in Users, NEW to \in Roles \cup {"none"}, BeginChange(b, u, to)
      PROVE  ChangeInv'
  <2>1. /\ UNCHANGED <<role, rank, boot>>
        /\ change' = [actor |-> Actor(b), target |-> u, to |-> to, overtaken |-> FALSE]
        /\ role[Actor(b)] = "owner" /\ ~LastOwner(u)
    BY <1>4 DEF BeginChange, MayChange, memberVars
  <2>2. Actor(b) \in Users /\ rank[Actor(b)] >= 3
    BY <1>4, <2>1, ActorType DEF BeginChange, Rank
  <2>3. Owners \ {u} # {}
    BY <2>1, <2>2 DEF LastOwner, Owners
  <2>4. Owners' = Owners
    BY <2>1 DEF Owners
  <2>5. change' \in Change /\ change'.target = u /\ change'.actor = Actor(b)
    BY <2>1, <2>2 DEF Change
  <2>6. QED
    BY <2>1, <2>2, <2>3, <2>4, <2>5, <1>t DEF ChangeInv
<1>5. ASSUME change' = NoChange, UNCHANGED boot PROVE ChangeInv'
  BY <1>5, <1>t, <1>n DEF ChangeInv
<1>6. \/ UNCHANGED <<role, boot, change>>
      \/ BootstrapRefused \/ \E u \in Users : BootstrapCheck(u)
      \/ \E u \in Users, r \in Roles, replace \in BOOLEAN : Bootstrap(u, r, replace)
      \/ \E a \in Attempts, id \in Idents, s \in Sessions : CompleteSignInWithInvitation(a, id, s)
      \/ \E b \in Browsers, u \in Users, to \in Roles \cup {"none"} : BeginChange(b, u, to)
      \/ change' = NoChange /\ UNCHANGED boot
  BY DEF Next, memberVars, openVars, AcceptInvite, StartGoogle, Callback, CallbackError, Logout,
     CheckRevoke, CompleteSignIn, SignInRefused, RotateSession, Expire, CheckInvite,
     IssueInvitation, RevokeInvitation, AbortChange, ChangeMemberRole, RevokeMember
<1>7. QED
  BY <1>0, <1>1, <1>2, <1>3, <1>4, <1>5, <1>6

(* Every step preserves the invariant.                                     *)
LEMMA NextIInv == IInv /\ [Next]_vars => IInv'
<1>1. ASSUME IInv, Next PROVE IInv'
  BY <1>1, RoleStep, InviteStep, BrowserStep, LinkStep, ChangeStep DEF IInv
<1>2. ASSUME IInv, UNCHANGED vars PROVE IInv'
  <2>1. RoleInv' /\ InviteInv'
    BY <1>2 DEF vars, IInv, RoleInv, PrivilegeFromPrivilege, InviteInv, Entitled
  <2>2. BrowserType' /\ AttemptInv' /\ SessionInv' /\ LinkType'
    BY <1>2 DEF vars, IInv, BrowserType, AttemptInv, SessionInv, OneLiveSessionPerSignIn, LinkType
  <2>3. ChangeInv'
    BY <1>2 DEF vars, IInv, ChangeInv, Owners
  <2>4. QED
    BY <2>1, <2>2, <2>3 DEF IInv
<1>3. QED
  BY <1>1, <1>2

-----------------------------------------------------------------------------
(* The inductive invariant holds of every reachable state.                 *)
THEOREM Invariance == Spec => []IInv
BY InitIInv, NextIInv, PTL DEF Spec

(* IssueInvitation, consumeInvitation, ChangeMemberRole and the bootstrap  *)
(* command: whatever happens between the check of a role and its use, a    *)
(* role comes from the operator or from somebody who once could give it.   *)
THEOREM RolesCorrect == Spec => []RolesSound
<1>1. IInv => RolesSound
  BY IInvTypes DEF IInv, RoleInv, RolesSound
<1>2. QED
  BY <1>1, Invariance, PTL

(* insertSession and Rotate: one live session for each login attempt, in   *)
(* one browser, through replayed callbacks and rotations.                  *)
THEOREM SessionsCorrect == Spec => []OneLiveSessionPerSignIn
<1>1. IInv => OneLiveSessionPerSignIn
  BY DEF IInv, SessionInv
<1>2. QED
  BY <1>1, Invariance, PTL

(* An attempt is exchanged in the browser whose cookie names it.           *)
LEMMA ExchangeBound ==
  ASSUME IInv, Next, NEW a \in Attempts, attempt[a].state = "open", attempt'[a].state = "exchange"
  PROVE  attempt'[a].browser = attempt[a].browser
<1>t. BrowserType /\ AttemptInv
  BY DEF IInv
<1>1. ASSUME NEW b \in Browsers, NEW x \in Attempts, Callback(b, x)
      PROVE  attempt'[a].browser = attempt[a].browser
  <2>1. CASE attempt' = attempt
    BY <2>1
  <2>2. CASE attempt' = [attempt EXCEPT ![x] = Spent]
    BY <2>2, <1>t DEF BrowserType, Spent, NoAttempt
  <2>3. CASE /\ cookie[b].attempt = x
             /\ attempt' = [attempt EXCEPT ![x] = [state |-> "exchange", browser |-> b,
                                                   invite |-> cookie[b].invite]]
    BY <2>3, <1>t DEF BrowserType, AttemptInv
  <2>4. QED
    BY <1>1, <2>1, <2>2, <2>3 DEF Callback
<1>2. ASSUME NEW b \in Browsers, NEW x \in Attempts, StartGoogle(b, x)
      PROVE  attempt'[a] = attempt[a]
  BY <1>2, <1>t DEF StartGoogle, BrowserType
<1>3. ASSUME NEW x \in Attempts, attempt' = [attempt EXCEPT ![x] = Spent]
      PROVE  attempt'[a] = attempt[a]
  BY <1>3, <1>t DEF BrowserType, Spent, NoAttempt
<1>4. \/ UNCHANGED attempt
      \/ \E b \in Browsers, x \in Attempts : StartGoogle(b, x) \/ Callback(b, x)
      \/ \E x \in Attempts : attempt' = [attempt EXCEPT ![x] = Spent]
  <2>1. \/ UNCHANGED attempt \/ Expire
        \/ \E b \in Browsers, x \in Attempts : StartGoogle(b, x) \/ Callback(b, x)
        \/ \E x \in Attempts, id \in Idents, s \in Sessions :
               CompleteSignIn(x, id, s) \/ CompleteSignInWithInvitation(x, id, s)
        \/ \E x \in Attempts, tried \in BOOLEAN : SignInRefused(x, tried)
    BY DEF Next, BootstrapCheck, Bootstrap, BootstrapRefused, AcceptInvite, CallbackError,
       Logout, CheckRevoke, RotateSession, CheckInvite, IssueInvitation, RevokeInvitation,
       BeginChange, AbortChange, ChangeMemberRole, RevokeMember
  <2>2. CASE Expire
    BY <2>2, Zenon DEF Expire
  <2>3. CASE \E x \in Attempts, id \in Idents, s \in Sessions :
               CompleteSignIn(x, id, s) \/ CompleteSignInWithInvitation(x, id, s)
    <3>1. \E x \in Attempts, s \in Sessions : \E u : OpenSession(x, s, u)
      BY <2>3 DEF CompleteSignIn, CompleteSignInWithInvitation
    <3>2. QED
      BY <3>1, Zenon DEF OpenSession
  <2>4. CASE \E x \in Attempts, tried \in BOOLEAN : SignInRefused(x, tried)
    BY <2>4, Zenon DEF SignInRefused
  <2>5. QED
    BY <2>1, <2>2, <2>3, <2>4
<1>5. QED
  BY <1>1, <1>2, <1>3, <1>4

(* An invitation is used up only by the sign-in of somebody who is no      *)
(* member, and a used one stays as it is.                                  *)
LEMMA InviteUse ==
  ASSUME IInv, Next, NEW i \in Invites
  PROVE  /\ invite[i].state # "consumed" /\ invite'[i].state = "consumed" =>
              /\ invite[i].state = "open"
              /\ role[invite'[i].by] = "none"
              /\ role' = [role EXCEPT ![invite'[i].by] = invite[i].role]
         /\ invite[i].state = "consumed" => invite'[i] = invite[i]
<1> DEFINE Used == /\ invite[i].state # "consumed" /\ invite'[i].state = "consumed" =>
                        /\ invite[i].state = "open"
                        /\ role[invite'[i].by] = "none"
                        /\ role' = [role EXCEPT ![invite'[i].by] = invite[i].role]
                   /\ invite[i].state = "consumed" => invite'[i] = invite[i]
<1>t. invite \in [Invites -> InviteRow] /\ BrowserType
  BY DEF IInv, InviteInv
<1>1. ASSUME NEW a \in Attempts, NEW id \in Idents, NEW s \in Sessions,
             CompleteSignInWithInvitation(a, id, s)
      PROVE  Used
  <2>1. PICK j \in Invites : j = attempt[a].invite
    BY <1>1, <1>t DEF CompleteSignInWithInvitation, BrowserType, AttemptRow
  <2>2. /\ invite[j].state = "open" /\ role[id[2]] = "none"
        /\ role' = [role EXCEPT ![id[2]] = invite[j].role]
        /\ invite' = [invite EXCEPT ![j] = [[invite[j] EXCEPT !.state = "consumed"] EXCEPT !.by = id[2]]]
    BY <1>1, <2>1, <1>t DEF CompleteSignInWithInvitation, Grant
  <2>3. invite'[j].by = id[2] /\ \A k \in Invites : k # j => invite'[k] = invite[k]
    BY <2>2, <1>t DEF InviteRow
  <2>4. QED
    BY <2>2, <2>3
<1>2. CASE \/ UNCHANGED invite
           \/ \E j \in Invites : /\ invite[j].state # "consumed"
                                 /\ invite' = [invite EXCEPT ![j].state = "closed"]
  BY <1>2, <1>t DEF InviteRow
<1>3. ASSUME NEW j \in Invites, IssueInvitation(j) PROVE Used
  BY <1>3, <1>t DEF IssueInvitation, InviteRow
<1>4. \/ UNCHANGED invite
      \/ \E j \in Invites : /\ invite[j].state # "consumed"
                            /\ invite' = [invite EXCEPT ![j].state = "closed"]
      \/ \E a \in Attempts, id \in Idents, s \in Sessions : CompleteSignInWithInvitation(a, id, s)
      \/ \E j \in Invites : IssueInvitation(j)
  BY DEF Next, BootstrapCheck, Bootstrap, BootstrapRefused, AcceptInvite, StartGoogle, Callback,
     CallbackError, Logout, CheckRevoke, CompleteSignIn, SignInRefused, RotateSession, Expire,
     CheckInvite, RevokeInvitation, BeginChange, AbortChange, ChangeMemberRole, RevokeMember
<1>5. QED
  BY <1>1, <1>2, <1>3, <1>4

(* finishCallback and resolveApprovedIdentity: a sign-in finishes in the   *)
(* browser that began it, a subject keeps its account, and an invitation   *)
(* is used up only to admit somebody new, with the role it was issued for. *)
THEOREM SignInCorrect == Spec => SignInSound
<1>1. IInv /\ [Next]_vars =>
        [\A a \in Attempts : attempt[a].state = "open" /\ attempt'[a].state = "exchange"
             => attempt'[a].browser = attempt[a].browser]_vars
  BY ExchangeBound
<1>2. IInv /\ [Next]_vars => [\A s \in Subjects : link[s] # None => link'[s] = link[s]]_vars
  BY LinkStep
<1>3. IInv /\ [Next]_vars =>
        [\A i \in Invites :
           /\ invite[i].state # "consumed" /\ invite'[i].state = "consumed" =>
                 /\ invite[i].state = "open"
                 /\ role[invite'[i].by] = "none"
                 /\ role' = [role EXCEPT ![invite'[i].by] = invite[i].role]
           /\ invite[i].state = "consumed" => invite'[i] = invite[i]]_vars
  BY InviteUse
<1>4. QED
  BY <1>1, <1>2, <1>3, Invariance, PTL
     DEF Spec, SignInSound, BrowserBound, LinksAreForLife, InviteAdmitsNewMember

(* Nothing an owner can do leaves the book without one, unless the         *)
(* operator took an owner's role while it was under way.                   *)
LEMMA OwnerStays ==
  ASSUME IInv, Next, commands' = commands, ~ change.overtaken, Owners # {}
  PROVE  Owners' # {}
<1>t. role \in [Users -> Roles \cup {"none"}] /\ None \notin Users /\ commands \in Nat
  BY IdentityAssumption DEF IInv, RoleInv, LinkType
<1>0. CASE UNCHANGED role
  BY <1>0 DEF Owners
<1>1. ASSUME NEW u \in Users, NEW r \in Roles \cup {"none"}, role' = [role EXCEPT ![u] = r],
             r = "owner" \/ Owners \ {u} # {}
      PROVE  Owners' # {}
  <2>1. CASE r = "owner"
    BY <1>1, <1>t, <2>1 DEF Owners
  <2>2. CASE Owners \ {u} # {}
    <3>1. PICK o \in Users : role[o] = "owner" /\ o # u
      BY <2>2 DEF Owners
    <3>2. role'[o] = "owner"
      BY <3>1, <1>1, <1>t
    <3>3. QED
      BY <3>2 DEF Owners
  <2>3. QED
    BY <1>1, <2>1, <2>2
<1>2. ASSUME NEW a \in Attempts, NEW id \in Idents, NEW s \in Sessions,
             CompleteSignInWithInvitation(a, id, s)
      PROVE  Owners' # {}
  <2>1. attempt[a].invite \in Invites /\ id[2] \in Users
    BY <1>2, IdentityAssumption DEF CompleteSignInWithInvitation, IInv, BrowserType, AttemptRow
  <2>2. invite[attempt[a].invite].role \in Roles
    BY <2>1 DEF IInv, InviteInv, InviteRow, Roles
  <2>3. Owners \ {id[2]} # {}
    BY <1>2 DEF CompleteSignInWithInvitation, Owners
  <2>4. QED
    BY <1>1, <1>2, <2>1, <2>2, <2>3 DEF CompleteSignInWithInvitation, Grant
<1>3. ASSUME ChangeMemberRole \/ RevokeMember
      PROVE  Owners' # {}
  <2>1. /\ change.target \in Users /\ change.to \in Roles \cup {"none"}
        /\ Owners \ {change.target} # {}
    BY <1>3 DEF ChangeMemberRole, RevokeMember, IInv, ChangeInv, Change
  <2>2. role' = [role EXCEPT ![change.target] = change.to]
    BY <1>3 DEF ChangeMemberRole, RevokeMember, Grant
  <2>3. QED
    BY <1>1, <2>1, <2>2
<1>4. ASSUME NEW u \in Users, NEW r \in Roles, NEW replace \in BOOLEAN, Bootstrap(u, r, replace)
      PROVE  Owners' # {}
  <2>1. r = "owner" /\ role' = [role EXCEPT ![u] = r]
    BY <1>4, <1>t DEF Bootstrap, Grant
  <2>2. QED
    BY <1>1, <2>1
<1>5. \/ UNCHANGED role
      \/ \E u \in Users, r \in Roles, replace \in BOOLEAN : Bootstrap(u, r, replace)
      \/ \E a \in Attempts, id \in Idents, s \in Sessions : CompleteSignInWithInvitation(a, id, s)
      \/ ChangeMemberRole \/ RevokeMember
  BY DEF Next, memberVars, AcceptInvite, StartGoogle, Callback, CallbackError, Logout,
     CheckRevoke, CompleteSignIn, SignInRefused, RotateSession, Expire, CheckInvite,
     IssueInvitation, RevokeInvitation, BootstrapCheck, BootstrapRefused, BeginChange, AbortChange
<1>6. QED
  BY <1>0, <1>2, <1>3, <1>4, <1>5

(* ChangeMemberRole and RevokeMember count the owners in their snapshot:   *)
(* no order of role changes, revocations and sign-ins removes the last     *)
(* one; the operator's command can, by itself or in the middle of one.     *)
THEOREM OwnersCorrect == Spec => OwnerKept
<1>1. IInv /\ [Next]_vars =>
        [Owners # {} /\ Owners' = {} => commands' # commands \/ change.overtaken]_vars
  BY OwnerStays
<1>2. QED
  BY <1>1, Invariance, PTL DEF Spec, OwnerKept
=============================================================================
