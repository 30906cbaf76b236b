----------------------------- MODULE Tournament -----------------------------
(***************************************************************************)
(* The tables of one competition event (competitionpg.Store): teams and    *)
(* their rosters, matches and their participants, verified results, the    *)
(* players' statistics, the links between players and users, and the       *)
(* deletions that must not lose history.                                   *)
(*                                                                         *)
(* Roster changes, deletions, results and the statistics projection are    *)
(* SERIALIZABLE transactions: they read the snapshot taken by their first  *)
(* statement.  Among themselves they behave as if run one at a time, so    *)
(* one of them is in flight here.  CreateMatch, CreateMarket, links and    *)
(* single inserts are READ COMMITTED and commit at any time meanwhile.     *)
(***************************************************************************)
EXTENDS Integers, FiniteSets, FiniteSetsExt, MatchRules

CONSTANTS
  Teams, Users, Matches,
  FormatOf,       \* FormatOf[m]: the format asked for when m is created
  Histories,      \* what the release before the rosters may have left: the
                  \* sides of the matches it held, <<>> in a fresh database
  NoTeam, NoUser, NoTx

ASSUME TournamentAssumption ==
  /\ IsFiniteSet(Players) /\ IsFiniteSet(Matches)
  /\ FormatOf \in [Matches -> Formats]
  /\ NoTeam \notin Teams /\ NoUser \notin Users

Side == [team : Teams, players : SUBSET Players]

(* Who appeared for team t in the matches of h.                            *)
Appeared(h, t) ==
  {p \in Players : \E m \in DOMAIN h, s \in {1, 2} :
     h[m][s].team = t /\ p \in h[m][s].players}

(* The migration that introduces rosters refuses a player who appeared for *)
(* two teams of the event; the two sides of a match are different teams.   *)
ASSUME HistoryAssumption ==
  \A h \in Histories :
    /\ DOMAIN h \subseteq Matches
    /\ \A m \in DOMAIN h : h[m] \in [{1, 2} -> Side] /\ h[m][1].team # h[m][2].team
    /\ \A t, u \in Teams : t # u => Appeared(h, t) \cap Appeared(h, u) = {}

VARIABLES
  event,      \* the event's row: "none", "active" or "deleted"
  team,       \* the teams' rows: "none", "live" or "deleted"
  created,    \* players inserted
  roster,     \* team and captaincy of each player
  link,       \* user a player is linked to
  match,      \* state, sides and result of each match
  market,     \* betting markets of a match: "none", "live", "voided"
  applied,    \* match_stat_applications
  stats,      \* player_stat_projections
  tx          \* snapshot of the SERIALIZABLE transaction in flight

vars == <<event, team, created, roster, link, match, market, applied, stats, tx>>

Results == {"side_1", "side_2", "tie"}
OffRoster == [team |-> NoTeam, captain |-> FALSE]
NoMatch == [state |-> "none", sides |-> <<>>, result |-> "none"]
NoStats == [played |-> 0, wins |-> 0, losses |-> 0, ties |-> 0]

(* A fresh database, or one the migration filled: everybody who appeared   *)
(* for a team is on its roster and nobody is captain.  Its matches are     *)
(* open here; a decided one is a step or two later.                        *)
Init ==
  \E h \in Histories :
    /\ event = IF DOMAIN h = {} THEN "none" ELSE "active"
    /\ team = [t \in Teams |->
         IF \E m \in DOMAIN h, s \in {1, 2} : h[m][s].team = t THEN "live" ELSE "none"]
    /\ created = {p \in Players : \E t \in Teams : p \in Appeared(h, t)}
    /\ roster = [p \in Players |->
         IF \E t \in Teams : p \in Appeared(h, t)
         THEN [team |-> CHOOSE t \in Teams : p \in Appeared(h, t), captain |-> FALSE]
         ELSE OffRoster]
    /\ link = [p \in Players |-> NoUser]
    /\ match = [m \in Matches |->
         IF m \in DOMAIN h THEN [state |-> "open", sides |-> h[m], result |-> "none"]
         ELSE NoMatch]
    /\ market = [m \in Matches |-> "none"]
    /\ applied = {}
    /\ stats = [p \in Players |-> NoStats]
    /\ tx = NoTx

MembersOf(t) == {p \in Players : roster[p].team = t}
CaptainsOf(t) == {p \in MembersOf(t) : roster[p].captain}
Live(ms, m) == ms[m].state \in {"open", "verified"}
Plays(ms, p, t) ==
  \E m \in Matches : Live(ms, m) /\ \E s \in {1, 2} :
    ms[m].sides[s].team = t /\ p \in ms[m].sides[s].players
PlaysFor(ms, t) == \E m \in Matches, s \in {1, 2} : Live(ms, m) /\ ms[m].sides[s].team = t

-----------------------------------------------------------------------------
(* READ COMMITTED *)

CreateEvent ==
  /\ event = "none"
  /\ event' = "active"
  /\ UNCHANGED <<team, created, roster, link, match, market, applied, stats, tx>>

(* The foreign key needs the event's row.                                  *)
CreateTeam(t) ==
  /\ event = "active" /\ team[t] = "none"
  /\ team' = [team EXCEPT ![t] = "live"]
  /\ UNCHANGED <<event, created, roster, link, match, market, applied, stats, tx>>

(* With or without a member; a member has one player at most (UNIQUE).     *)
CreatePlayer(p, u) ==
  /\ p \notin created
  /\ u # NoUser => \A q \in Players : link[q] # u
  /\ created' = created \cup {p}
  /\ link' = [link EXCEPT ![p] = u]
  /\ UNCHANGED <<event, team, roster, match, market, applied, stats, tx>>

(* CreateMatch locks both teams FOR SHARE before it looks at the rosters,  *)
(* so no roster change of theirs is in flight past its own lock.           *)
CreateMatch(m, t1, t2, players) ==
  /\ event = "active" /\ match[m].state = "none"
  /\ t1 # t2 /\ team[t1] = "live" /\ team[t2] = "live"
  /\ CaptainsOf(t1) # {} /\ CaptainsOf(t2) # {}
  /\ LegalSides(FormatOf[m], <<MembersOf(t1), MembersOf(t2)>>, players)
  /\ match' = [match EXCEPT ![m] =
       [state |-> "open", result |-> "none",
        sides |-> << [team |-> t1, players |-> players[1]],
                     [team |-> t2, players |-> players[2]] >>]]
  /\ UNCHANGED <<event, team, created, roster, link, market, applied, stats, tx>>

(* CreateMarket for a match: under a share lock on the match's row, which  *)
(* must be open and have no other market that is not voided.               *)
CreateMarket(m) ==
  /\ match[m].state = "open"
  /\ market[m] # "live"
  /\ market' = [market EXCEPT ![m] = "live"]
  /\ UNCHANGED <<event, team, created, roster, link, match, applied, stats, tx>>

VoidMarket(m) ==
  /\ market[m] = "live"
  /\ market' = [market EXCEPT ![m] = "voided"]
  /\ UNCHANGED <<event, team, created, roster, link, match, applied, stats, tx>>

(* LinkPlayerToUser holds the member's row while it looks for another      *)
(* player of the member, then the player's row.                            *)
LinkPlayerToUser(p, u) ==
  /\ p \in created
  /\ \A q \in Players \ {p} : link[q] # u
  /\ link[p] = NoUser
  /\ link' = [link EXCEPT ![p] = u]
  /\ UNCHANGED <<event, team, created, roster, match, market, applied, stats, tx>>

UnlinkPlayer(p, u) ==
  /\ link[p] = u
  /\ link' = [link EXCEPT ![p] = NoUser]
  /\ UNCHANGED <<event, team, created, roster, match, market, applied, stats, tx>>

-----------------------------------------------------------------------------
(* SERIALIZABLE *)

(* The first statement (requireStaff) takes the snapshot.                  *)
Begin ==
  /\ tx = NoTx
  /\ tx' = [event |-> event, team |-> team, created |-> created,
            match |-> match, market |-> market]
  /\ UNCHANGED <<event, team, created, roster, link, match, market, applied, stats>>

(* A refusal, an error, or a serialization failure.                        *)
Rollback ==
  /\ tx # NoTx
  /\ tx' = NoTx
  /\ UNCHANGED <<event, team, created, roster, link, match, market, applied, stats>>

Commit == tx # NoTx /\ tx' = NoTx

SetAnyCaptain(t, p, asked) ==
  /\ Commit
  /\ tx.team[t] = "live" /\ p \in tx.created
  /\ roster[p].team \in {NoTeam, t}
  /\ roster[p] # [team |-> t, captain |-> asked]
  /\ roster' = [roster EXCEPT ![p] = [team |-> t, captain |-> asked]]
  /\ UNCHANGED <<event, team, created, link, match, market, applied, stats>>

(* The first golfer of a team becomes captain; the last captain stays one. *)
SetTeamMember(t, p, asked) ==
  LET captain == asked \/ CaptainsOf(t) = {} IN
  /\ Commit
  /\ tx.team[t] = "live" /\ p \in tx.created
  /\ roster[p].team \in {NoTeam, t}
  /\ ~ (~ captain /\ CaptainsOf(t) = {p})
  /\ roster[p] # [team |-> t, captain |-> captain]
  /\ roster' = [roster EXCEPT ![p] = [team |-> t, captain |-> captain]]
  /\ UNCHANGED <<event, team, created, link, match, market, applied, stats>>

RemoveAnyMember(t, p) ==
  /\ Commit
  /\ tx.team[t] = "live"
  /\ roster[p].team = t
  /\ ~ Plays(tx.match, p, t)
  /\ roster' = [roster EXCEPT ![p] = OffRoster]
  /\ UNCHANGED <<event, team, created, link, match, market, applied, stats>>

(* Match history is looked for in the snapshot.                            *)
RemoveTeamMember(t, p) ==
  /\ Commit
  /\ tx.team[t] = "live"
  /\ roster[p].team = t
  /\ ~ Plays(tx.match, p, t)
  /\ ~ (CaptainsOf(t) = {p} /\ MembersOf(t) # {p})
  /\ roster' = [roster EXCEPT ![p] = OffRoster]
  /\ UNCHANGED <<event, team, created, link, match, market, applied, stats>>

RecordAgain(m, r) ==
  /\ Commit
  /\ Live(tx.match, m)
  /\ match' = [match EXCEPT ![m].state = "verified", ![m].result = r]
  /\ UNCHANGED <<event, team, created, roster, link, market, applied, stats>>

RecordKeepsOpen(m, r) ==
  /\ Commit
  /\ tx.match[m].state = "open"
  /\ match' = [match EXCEPT ![m].result = r]
  /\ UNCHANGED <<event, team, created, roster, link, market, applied, stats>>

(* The result of an open match; a verified match is left as it is.         *)
RecordAdminResult(m, r) ==
  /\ Commit
  /\ tx.match[m].state = "open"
  /\ match' = [match EXCEPT ![m].state = "verified", ![m].result = r]
  /\ UNCHANGED <<event, team, created, roster, link, market, applied, stats>>

(* Foreign keys are checked against what is committed when the row goes:   *)
(* RESTRICT refuses, CASCADE over rows the snapshot does not show is a     *)
(* serialization failure.                                                  *)
MatchReferenced(m) == market[m] # "none" \/ m \in applied
TeamReferenced(t) == PlaysFor(match, t) \/ MembersOf(t) # {}
EventReferenced == \E t \in Teams : team[t] = "live" /\ team[t] # tx.team[t]

(* Only a match that is open and has neither a market nor statistics.      *)
Unprotected(m) ==
  /\ tx.match[m].state = "open"
  /\ tx.market[m] = "none" /\ m \notin applied

DeleteCascades(m) ==
  /\ Commit
  /\ Unprotected(m)
  /\ match' = [match EXCEPT ![m] = [NoMatch EXCEPT !.state = "deleted"]]
  /\ UNCHANGED <<event, team, created, roster, link, market, applied, stats>>

DeleteMatch(m) ==
  /\ Commit
  /\ Unprotected(m)
  /\ ~ MatchReferenced(m)
  /\ match' = [match EXCEPT ![m] = [NoMatch EXCEPT !.state = "deleted"]]
  /\ UNCHANGED <<event, team, created, roster, link, market, applied, stats>>

DeleteTeam(t) ==
  /\ Commit
  /\ tx.team[t] = "live"
  /\ ~ PlaysFor(tx.match, t) /\ MembersOf(t) = {}
  /\ ~ TeamReferenced(t)
  /\ team' = [team EXCEPT ![t] = "deleted"]
  /\ UNCHANGED <<event, created, roster, link, match, market, applied, stats>>

DeleteEvent ==
  /\ Commit
  /\ tx.event = "active"
  /\ \A t \in Teams : tx.team[t] # "live"
  /\ \A m \in Matches : ~ Live(tx.match, m)
  /\ \A p \in Players : stats[p] = NoStats
  /\ ~ EventReferenced
  /\ event' = "deleted"
  /\ UNCHANGED <<team, created, roster, link, match, market, applied, stats>>

(* outcomeForSide *)
Tally(r, s) ==
  [played |-> 1,
   wins   |-> IF r = (IF s = 1 THEN "side_1" ELSE "side_2") THEN 1 ELSE 0,
   losses |-> IF r = (IF s = 1 THEN "side_2" ELSE "side_1") THEN 1 ELSE 0,
   ties   |-> IF r = "tie" THEN 1 ELSE 0]

Add(x, y) ==
  [played |-> x.played + y.played, wins |-> x.wins + y.wins,
   losses |-> x.losses + y.losses, ties |-> x.ties + y.ties]

SideIn(m, p) == {s \in {1, 2} : p \in match[m].sides[s].players}

Projected(m) ==
  [p \in Players |-> IF SideIn(m, p) = {} THEN stats[p]
     ELSE Add(stats[p], Tally(match[m].result, CHOOSE s \in SideIn(m, p) : TRUE))]

ProjectEveryDelivery(m) ==
  /\ Commit
  /\ tx.match[m].state = "verified"
  /\ stats[CHOOSE p \in Players : SideIn(m, p) # {}].played <= Cardinality(Matches)
  /\ applied' = applied \cup {m}
  /\ stats' = Projected(m)
  /\ UNCHANGED <<event, team, created, roster, link, match, market>>

(* StatsProjectionConsumer.Handle, delivered any number of times once the  *)
(* result is verified: the row of match_stat_applications stops it.        *)
ProjectStats(m) ==
  /\ Commit
  /\ tx.match[m].state = "verified"
  /\ m \notin applied
  /\ applied' = applied \cup {m}
  /\ stats' = Projected(m)
  /\ UNCHANGED <<event, team, created, roster, link, match, market>>

-----------------------------------------------------------------------------
ReadCommitted ==
  \/ CreateEvent
  \/ \E t \in Teams : CreateTeam(t)
  \/ \E p \in Players, u \in Users \cup {NoUser} : CreatePlayer(p, u)
  \/ \E m \in Matches :
       \/ \E t1, t2 \in Teams, a, b \in SUBSET Players : CreateMatch(m, t1, t2, <<a, b>>)
       \/ CreateMarket(m) \/ VoidMarket(m)
  \/ \E p \in Players, u \in Users : LinkPlayerToUser(p, u) \/ UnlinkPlayer(p, u)

Serializable ==
  \/ Begin \/ Rollback
  \/ \E t \in Teams, p \in Players :
       RemoveTeamMember(t, p) \/ \E asked \in BOOLEAN : SetTeamMember(t, p, asked)
  \/ \E m \in Matches :
       \/ \E r \in Results : RecordAdminResult(m, r)
       \/ DeleteMatch(m) \/ ProjectStats(m)
  \/ \E t \in Teams : DeleteTeam(t)
  \/ DeleteEvent

Next == ReadCommitted \/ Serializable

Spec == Init /\ [][Next]_vars

-----------------------------------------------------------------------------
(* Properties *)

Stats == [played : Nat, wins : Nat, losses : Nat, ties : Nat]

(* Every table has its type, and a match has a result exactly when it is   *)
(* verified.                                                               *)
TypeOK ==
  /\ event \in {"none", "active", "deleted"}
  /\ team \in [Teams -> {"none", "live", "deleted"}]
  /\ created \subseteq Players
  /\ roster \in [Players -> [team : Teams \cup {NoTeam}, captain : BOOLEAN]]
  /\ link \in [Players -> Users \cup {NoUser}]
  /\ \A m \in Matches :
       /\ match[m].state \in {"none", "open", "verified", "deleted"}
       /\ Live(match, m) => match[m].sides \in [{1, 2} -> Side]
       /\ match[m].result \in Results <=> match[m].state = "verified"
  /\ market \in [Matches -> {"none", "live", "voided"}]
  /\ applied \subseteq Matches
  /\ stats \in [Players -> Stats]

(* Only live teams are staffed.                                            *)
StaffedTeamsLive == \A t \in Teams : MembersOf(t) # {} => team[t] = "live"

(* Nothing is left dangling by a deletion: a match has its event, its two  *)
(* different teams and its players, and a team its event; a market or      *)
(* statistics have their match.                                            *)
NothingDangles ==
  /\ \A t \in Teams : team[t] = "live" => event = "active"
  /\ \A m \in Matches :
       /\ Live(match, m) =>
            /\ event = "active"
            /\ match[m].sides[1].team # match[m].sides[2].team
            /\ \A s \in {1, 2} : /\ team[match[m].sides[s].team] = "live"
                                 /\ match[m].sides[s].players \subseteq created
       /\ market[m] # "none" => Live(match, m)
       /\ m \in applied => match[m].state = "verified"

(* The standings are the verified results counted once each, however often *)
(* a result is delivered and however late.                                 *)
Played(p) == {m \in applied : SideIn(m, p) # {}}
Won(p) == {m \in Played(p) : \E s \in SideIn(m, p) :
             match[m].result = (IF s = 1 THEN "side_1" ELSE "side_2")}
Tied(p) == {m \in Played(p) : match[m].result = "tie"}
StandingsMatchResults ==
  \A p \in Players :
    /\ stats[p].played = Cardinality(Played(p))
    /\ stats[p].wins = Cardinality(Won(p))
    /\ stats[p].ties = Cardinality(Tied(p))
    /\ stats[p].losses = stats[p].played - stats[p].wins - stats[p].ties

(* "Removes only a golfer who has no match history for that team": whoever *)
(* leaves a roster plays in no match for that team.                        *)
RemovalKeepsHistory ==
  [][\A p \in Players : roster[p].team # NoTeam /\ roster'[p].team = NoTeam =>
       ~ Plays(match, p, roster[p].team)]_vars

(* Every row that is left refers to rows that are left, although deletions *)
(* look for history in a snapshot while other transactions insert.         *)
ReferencesHold == TypeOK /\ NothingDangles /\ StaffedTeamsLive

(* A team that has a captain has one as long as anybody is on it, whatever *)
(* is promoted, demoted or removed in whichever order; and a team that got *)
(* its roster without one has a captain as soon as a golfer joins it.      *)
KeepsCaptains ==
  \A t \in Teams :
    /\ CaptainsOf(t) # {} /\ MembersOf(t)' # {} => CaptainsOf(t)' # {}
    /\ MembersOf(t)' \ MembersOf(t) # {} => CaptainsOf(t)' # {}
CaptainsKept == [][KeepsCaptains]_vars
=============================================================================
