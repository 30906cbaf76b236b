----------------------------- MODULE MatchResult -----------------------------
(***************************************************************************)
(* The result of one match (competition.Match): players and captains of    *)
(* the two sides submit, confirm and dispute a result, administrators      *)
(* override and correct it.  One action is one command under the match's   *)
(* mutex.  A command that is refused, or replays an identifier already     *)
(* used, changes nothing and is a stuttering step.                         *)
(***************************************************************************)
EXTENDS Integers, Sequences, FiniteSets, MatchRules

CONSTANTS
  Actors,         \* authenticated users
  NoPlayer,       \* an actor need not be a player
  PlayerOf,       \* PlayerOf[a]: the player an actor is linked to
  Privileged,     \* actors that are administrators or owners
  Format,         \* the match's format
  Roster,         \* Roster[s]: members of the team of side s
  Participants,   \* Participants[s]: players of side s
  Captains,       \* Captains[s]: captains of the team of side s
  Proposals,      \* results an actor may type in, valid or not
  SubmissionIds, ConfirmationIds, VerificationIds, CommandIds,
  Nobody,         \* the submitter of a submission not made
  NoId

Sides == {1, 2}
NoSide == 0

ASSUME MatchAssumption ==
  /\ NoPlayer \notin Players /\ Nobody \notin Actors
  /\ NoId \notin SubmissionIds \cup VerificationIds
  /\ PlayerOf \in [Actors -> Players \cup {NoPlayer}]
  /\ Privileged \subseteq Actors
  /\ Format \in Formats
  /\ Roster \in [Sides -> SUBSET Players]
  /\ Captains \in [Sides -> SUBSET Players]
  /\ \A s \in Sides : LegalTeam(Roster[s], Captains[s])
  /\ LegalSides(Format, Roster, Participants)
  /\ \A r \in Proposals : r = [outcome |-> r.outcome, winner |-> r.winner, score |-> r.score]

VARIABLES
  state,          \* MatchState
  submissions,    \* by identifier
  confirmations,  \* by identifier
  verified,       \* VerifiedResults, oldest first
  commands,       \* identifiers of the commands that took effect
  events          \* domain events returned, oldest first

resultVars == <<state, submissions, confirmations, verified, commands, events>>

-----------------------------------------------------------------------------
WinnerUnchecked(r) == r.outcome \in {"side_win", "tie"}

(* Result.validate: a win names a side of the match, a tie names none.     *)
ValidResult(r) ==
  \/ r.outcome = "side_win" /\ r.winner \in Sides
  \/ r.outcome = "tie" /\ r.winner = NoSide

(* actingSide: the side an actor plays for or captains, the first found.   *)
Members(s) == Participants[s] \cup Captains[s]
ActingSide(a) ==
  IF PlayerOf[a] \in Members(1) THEN 1
  ELSE IF PlayerOf[a] \in Members(2) THEN 2 ELSE NoSide

(* isSubmitter: the same user, or another user linked to the same player.  *)
IsSubmitter(a, b) == a = b \/ (PlayerOf[a] # NoPlayer /\ PlayerOf[a] = PlayerOf[b])

SameUser(a, b) == a = b

(* Whether a may answer what b submitted.                                  *)
Opposes(a, b) ==
  /\ ~ IsSubmitter(a, b)
  /\ ActingSide(a) # NoSide
  /\ ActingSide(b) # NoSide
  /\ ActingSide(a) # ActingSide(b)

-----------------------------------------------------------------------------
NoSubmission == [by |-> Nobody, result |-> NoId, state |-> "none"]
NoConfirmation == [submission |-> NoId, by |-> Nobody, decision |-> "none"]

ResultInit ==
  /\ state = "awaiting_result"
  /\ submissions = [i \in SubmissionIds |-> NoSubmission]
  /\ confirmations = [i \in ConfirmationIds |-> NoConfirmation]
  /\ verified = <<>>
  /\ commands = {}
  /\ events = <<>>

Pending == {i \in SubmissionIds : submissions[i].state = "pending"}
VerifiedIds == {verified[n].id : n \in 1 .. Len(verified)}

CommandUnrecorded(c) ==
  /\ c \notin commands
  /\ commands' = commands

(* checkCommand and recordCommand: an identifier takes effect once.        *)
Command(c) ==
  /\ c \notin commands
  /\ commands' = commands \cup {c}

Emit(c, type, r) ==
  events' = Append(events, [type |-> type, result |-> r, command |-> c])

(* SubmitResult on a match without a result: a player, a captain or an     *)
(* administrator.                                                          *)
SubmitFirst(c, i, a, r) ==
  /\ state = "awaiting_result"
  /\ ActingSide(a) # NoSide \/ a \in Privileged
  /\ ValidResult(r)
  /\ submissions[i].state = "none"
  /\ Command(c)
  /\ submissions' = [submissions EXCEPT ![i] = [by |-> a, result |-> r, state |-> "pending"]]
  /\ state' = "awaiting_confirmation"
  /\ Emit(c, "submitted", r)
  /\ UNCHANGED <<confirmations, verified>>

(* SubmitResult by the other side with another result: both submissions    *)
(* are disputed.                                                           *)
SubmitConflicting(c, i, a, r) ==
  /\ state = "awaiting_confirmation"
  /\ ValidResult(r)
  /\ submissions[i].state = "none"
  /\ \E p \in Pending :
       /\ Opposes(a, submissions[p].by)
       /\ submissions[p].result # r
       /\ submissions' = [submissions EXCEPT
            ![p].state = "disputed",
            ![i] = [by |-> a, result |-> r, state |-> "disputed"]]
  /\ Command(c)
  /\ state' = "disputed"
  /\ events' = events \o << [type |-> "submitted", result |-> r, command |-> c],
                            [type |-> "disputed", result |-> r, command |-> c] >>
  /\ UNCHANGED <<confirmations, verified>>

ConfirmBySide(c, k, v, i, a) ==
  /\ state = "awaiting_confirmation"
  /\ submissions[i].state # "none"
  /\ ActingSide(a) # NoSide /\ ~ SameUser(a, submissions[i].by)
  /\ confirmations[k].decision = "none" /\ v \notin VerifiedIds
  /\ Command(c)
  /\ confirmations' = [confirmations EXCEPT
       ![k] = [submission |-> i, by |-> a, decision |-> "confirmed"]]
  /\ submissions' = [submissions EXCEPT ![i].state = "confirmed"]
  /\ verified' = Append(verified,
       [id |-> v, version |-> 1, result |-> submissions[i].result,
        method |-> "opponent", by |-> a, submission |-> i, supersedes |-> NoId])
  /\ state' = "verified"
  /\ Emit(c, "verified", submissions[i].result)

ConfirmResult(c, k, v, i, a) ==
  /\ state = "awaiting_confirmation"
  /\ submissions[i].state # "none"
  /\ Opposes(a, submissions[i].by)
  /\ confirmations[k].decision = "none" /\ v \notin VerifiedIds
  /\ Command(c)
  /\ confirmations' = [confirmations EXCEPT
       ![k] = [submission |-> i, by |-> a, decision |-> "confirmed"]]
  /\ submissions' = [submissions EXCEPT ![i].state = "confirmed"]
  /\ verified' = Append(verified,
       [id |-> v, version |-> 1, result |-> submissions[i].result,
        method |-> "opponent", by |-> a, submission |-> i, supersedes |-> NoId])
  /\ state' = "verified"
  /\ Emit(c, "verified", submissions[i].result)

DisputeResult(c, k, i, a) ==
  /\ state = "awaiting_confirmation"
  /\ submissions[i].state # "none"
  /\ Opposes(a, submissions[i].by)
  /\ confirmations[k].decision = "none"
  /\ Command(c)
  /\ confirmations' = [confirmations EXCEPT
       ![k] = [submission |-> i, by |-> a, decision |-> "disputed"]]
  /\ submissions' = [submissions EXCEPT ![i].state = "disputed"]
  /\ state' = "disputed"
  /\ Emit(c, "disputed", submissions[i].result)
  /\ UNCHANGED verified

OverrideLeavesPending(c, v, a, r) ==
  /\ state \in {"awaiting_result", "awaiting_confirmation", "disputed"}
  /\ a \in Privileged /\ ValidResult(r) /\ v \notin VerifiedIds
  /\ Command(c)
  /\ verified' = Append(verified,
       [id |-> v, version |-> 1, result |-> r,
        method |-> "override", by |-> a, submission |-> NoId, supersedes |-> NoId])
  /\ state' = "verified"
  /\ Emit(c, "verified", r)
  /\ UNCHANGED <<submissions, confirmations>>

(* An administrator decides a match that is not verified; what was pending *)
(* is superseded.                                                          *)
AdminOverride(c, v, a, r) ==
  /\ state \in {"awaiting_result", "awaiting_confirmation", "disputed"}
  /\ a \in Privileged /\ ValidResult(r) /\ v \notin VerifiedIds
  /\ Command(c)
  /\ submissions' = [i \in SubmissionIds |->
       IF i \in Pending THEN [submissions[i] EXCEPT !.state = "superseded"]
                        ELSE submissions[i]]
  /\ verified' = Append(verified,
       [id |-> v, version |-> 1, result |-> r,
        method |-> "override", by |-> a, submission |-> NoId, supersedes |-> NoId])
  /\ state' = "verified"
  /\ Emit(c, "verified", r)
  /\ UNCHANGED confirmations

CorrectFirst(c, v, a, r) ==
  LET previous == verified[1] IN
  /\ state = "verified"
  /\ a \in Privileged /\ ValidResult(r) /\ v \notin VerifiedIds
  /\ previous.result # r
  /\ Command(c)
  /\ verified' = Append(verified,
       [id |-> v, version |-> previous.version + 1, result |-> r,
        method |-> "correction", by |-> a, submission |-> NoId,
        supersedes |-> previous.id])
  /\ Emit(c, "corrected", r)
  /\ UNCHANGED <<state, submissions, confirmations>>

CorrectAsVerified(c, v, a, r) ==
  LET previous == verified[Len(verified)] IN
  /\ state = "verified"
  /\ a \in Privileged /\ ValidResult(r) /\ v \notin VerifiedIds
  /\ previous.result # r
  /\ Command(c)
  /\ verified' = Append(verified,
       [id |-> v, version |-> previous.version + 1, result |-> r,
        method |-> "correction", by |-> a, submission |-> NoId,
        supersedes |-> previous.id])
  /\ Emit(c, "verified", r)
  /\ UNCHANGED <<state, submissions, confirmations>>

(* A correction appends a version that differs from the last one.          *)
CorrectResult(c, v, a, r) ==
  LET previous == verified[Len(verified)] IN
  /\ state = "verified"
  /\ a \in Privileged /\ ValidResult(r) /\ v \notin VerifiedIds
  /\ previous.result # r
  /\ Command(c)
  /\ verified' = Append(verified,
       [id |-> v, version |-> previous.version + 1, result |-> r,
        method |-> "correction", by |-> a, submission |-> NoId,
        supersedes |-> previous.id])
  /\ Emit(c, "corrected", r)
  /\ UNCHANGED <<state, submissions, confirmations>>

-----------------------------------------------------------------------------
ResultNext ==
  \E c \in CommandIds, a \in Actors :
    \/ \E i \in SubmissionIds, r \in Proposals :
         SubmitFirst(c, i, a, r) \/ SubmitConflicting(c, i, a, r)
    \/ \E k \in ConfirmationIds, v \in VerificationIds, i \in SubmissionIds :
         ConfirmResult(c, k, v, i, a)
    \/ \E k \in ConfirmationIds, i \in SubmissionIds : DisputeResult(c, k, i, a)
    \/ \E v \in VerificationIds, r \in Proposals :
         AdminOverride(c, v, a, r) \/ CorrectResult(c, v, a, r)

ResultSpec == ResultInit /\ [][ResultNext]_resultVars

-----------------------------------------------------------------------------
(* Properties *)

MatchStates == {"awaiting_result", "awaiting_confirmation", "disputed", "verified"}
SubmissionStates == {"pending", "confirmed", "disputed", "superseded"}
LegalResults ==
  {r \in Proposals : <<r.outcome, r.winner>>
     \in {<<"side_win", 1>>, <<"side_win", 2>>, <<"tie", NoSide>>}}
Submission == [by : Actors, result : LegalResults, state : SubmissionStates]
Confirmation == [submission : SubmissionIds, by : Actors, decision : {"confirmed", "disputed"}]
VerifiedResult ==
  [id : VerificationIds, version : Nat \ {0}, result : LegalResults,
   method : {"opponent", "override", "correction"}, by : Actors,
   submission : SubmissionIds \cup {NoId}, supersedes : VerificationIds \cup {NoId}]
DomainEvent ==
  [type : {"submitted", "disputed", "verified", "corrected"}, result : LegalResults,
   command : CommandIds]

(* Every variable has its type; in particular only results that name a     *)
(* side that played, or a tie, are ever submitted, verified or published.  *)
ResultTypeOK ==
  /\ state \in MatchStates
  /\ submissions \in [SubmissionIds -> Submission \cup {NoSubmission}]
  /\ confirmations \in [ConfirmationIds -> Confirmation \cup {NoConfirmation}]
  /\ verified \in Seq(VerifiedResult)
  /\ commands \subseteq CommandIds
  /\ events \in Seq(DomainEvent)

(* Which submissions there can be in each state of the match: exactly one, *)
(* and it is pending, while a confirmation is awaited; none is pending     *)
(* otherwise.  ConfirmResult and DisputeResult name a submission and do    *)
(* not ask whether it is the pending one.                                  *)
Submitted == {i \in SubmissionIds : submissions[i].state # "none"}
SubmissionsFitState ==
  /\ state = "awaiting_result" => Submitted = {}
  /\ state = "awaiting_confirmation" => \E i \in SubmissionIds : Submitted = {i} /\ Pending = {i}
  /\ state # "awaiting_confirmation" => Pending = {}
  /\ state = "verified" <=> verified # <<>>

(* Nobody makes a result official alone: a result verified by confirmation *)
(* is the one that was submitted, and submitter and confirmer are          *)
(* different users and different players of different sides, whatever      *)
(* accounts are linked to them.                                            *)
TwoPartyRule ==
  \A n \in 1 .. Len(verified) :
    verified[n].method = "opponent" =>
      \E i \in SubmissionIds :
        LET s == submissions[i] IN
        /\ verified[n].submission = i
        /\ s.state = "confirmed"
        /\ s.result = verified[n].result
        /\ s.by # verified[n].by
        /\ PlayerOf[s.by] # PlayerOf[verified[n].by]
        /\ {ActingSide(s.by), ActingSide(verified[n].by)} = Sides

(* The verified results form one chain: numbered without a gap, each one   *)
(* naming the one before it and differing from it, only the first one      *)
(* without an administrator's correction.                                  *)
ChainOfVersions ==
  \A n \in 1 .. Len(verified) :
    /\ verified[n].version = n
    /\ n = 1 => verified[n].supersedes = NoId /\ verified[n].method # "correction"
    /\ n > 1 => /\ verified[n].method = "correction"
                /\ verified[n].supersedes = verified[n - 1].id
                /\ verified[n].result # verified[n - 1].result

(* A command applied again after a lost answer has no second effect: no    *)
(* command identifier returned the same kind of event twice.               *)
AppliedOnce ==
  \A m, n \in 1 .. Len(events) :
    /\ events[m].command \in commands
    /\ events[m].command = events[n].command /\ events[m].type = events[n].type => m = n

(* Decisions are never rewritten: verified results are only appended to,   *)
(* one at a time and only by a step that emits the matching event, and a   *)
(* verified match stays verified.                                          *)
ResultsAppendOnly ==
  [][/\ state = "verified" => state' = "verified"
     /\ verified' # verified =>
          /\ verified' = Append(verified, verified'[Len(verified')])
          /\ events' = Append(events, events'[Len(events')])
          /\ events'[Len(events')].result = verified'[Len(verified')].result
          /\ events'[Len(events')].type
               = IF Len(verified) = 0 THEN "verified" ELSE "corrected"]_resultVars

(* The Match aggregate stays consistent through every order of commands:   *)
(* its submissions fit its state, its verified results are one chain, and  *)
(* no command counted twice.                                               *)
ResultsSound ==
  /\ ResultTypeOK
  /\ SubmissionsFitState
  /\ ChainOfVersions
  /\ AppliedOnce
=============================================================================
