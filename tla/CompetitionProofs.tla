-------------------------- MODULE CompetitionProofs --------------------------
(***************************************************************************)
(* Proofs about the competition: the result of one match (MatchResult),    *)
(* for any actors, players, identifiers and results typed in, and the      *)
(* tables of an event (Tournament), for any number of teams, players,      *)
(* members and matches.                                                    *)
(***************************************************************************)
EXTENDS MatchResult, Tournament, FiniteSetTheorems, TLAPS

-----------------------------------------------------------------------------
(* Sequences that grow by one or two elements *)

(* An element of S appended to a list over S.                              *)
LEMMA AppendType ==
  ASSUME NEW S, NEW s \in Seq(S), NEW e \in S
  PROVE  Append(s, e) \in Seq(S)
OBVIOUS

(* Appending adds one element at the end and moves none.                   *)
LEMMA AppendIndex ==
  ASSUME NEW S, NEW s \in Seq(S), NEW e
  PROVE  /\ Len(Append(s, e)) = Len(s) + 1
         /\ Len(s) \in Nat
         /\ \A n \in 1 .. Len(s) : Append(s, e)[n] = s[n]
         /\ Append(s, e)[Len(s) + 1] = e
OBVIOUS

(* Nor does appending two.                                                 *)
LEMMA AppendTwo ==
  ASSUME NEW S, NEW s \in Seq(S), NEW d \in S, NEW e \in S
  PROVE  /\ s \o <<d, e>> \in Seq(S)
         /\ Len(s \o <<d, e>>) = Len(s) + 2
         /\ \A n \in 1 .. Len(s) : (s \o <<d, e>>)[n] = s[n]
         /\ (s \o <<d, e>>)[Len(s) + 1] = d
         /\ (s \o <<d, e>>)[Len(s) + 2] = e
OBVIOUS

-----------------------------------------------------------------------------
(* What the commands' checks establish *)

(* Result.validate: a proposal that passes is a result of the match.       *)
LEMMA ValidIsResult ==
  ASSUME NEW r \in Proposals, ValidResult(r)
  PROVE  r \in LegalResults
BY DEF ValidResult, LegalResults, Sides, NoSide

(* actingSide: only a player acts for a side.                              *)
LEMMA ActingIsPlayer ==
  ASSUME NEW a \in Actors, ActingSide(a) # NoSide
  PROVE  PlayerOf[a] \in Players /\ ActingSide(a) \in Sides
<1>1. \A s \in Sides : Members(s) \subseteq Players
  BY MatchAssumption DEF Members, LegalTeam, LegalSides, Sides
<1>2. QED
  BY <1>1 DEF ActingSide, Sides

(* ConfirmResult and DisputeResult: who answers is another user, another   *)
(* player and the other side.                                              *)
LEMMA OpposesIsOther ==
  ASSUME NEW a \in Actors, NEW b \in Actors, Opposes(a, b)
  PROVE  /\ b # a
         /\ PlayerOf[b] # PlayerOf[a]
         /\ {ActingSide(b), ActingSide(a)} = Sides
<1>1. /\ PlayerOf[a] \in Players /\ ActingSide(a) \in Sides
      /\ PlayerOf[b] \in Players /\ ActingSide(b) \in Sides
      /\ ActingSide(a) # ActingSide(b)
  BY ActingIsPlayer DEF Opposes
<1>2. b # a /\ PlayerOf[b] # PlayerOf[a]
  BY <1>1, MatchAssumption DEF Opposes, IsSubmitter
<1>3. QED
  BY <1>1, <1>2 DEF Sides

-----------------------------------------------------------------------------
(* Every conjunct of ResultsSound is needed to keep the others, and the    *)
(* two-party rule rests on them.                                           *)
IInv == ResultsSound /\ TwoPartyRule

(* A new match has no submission and no result.                            *)
LEMMA InitIInv == ResultInit => IInv
<1> SUFFICES ASSUME ResultInit PROVE IInv
  OBVIOUS
<1>1. ResultTypeOK
  BY DEF ResultInit, ResultTypeOK, MatchStates
<1>2. SubmissionsFitState
  BY DEF ResultInit, SubmissionsFitState, Submitted, Pending, NoSubmission
<1>3. ChainOfVersions /\ AppliedOnce /\ TwoPartyRule
  BY DEF ResultInit, ChainOfVersions, AppliedOnce, TwoPartyRule
<1>4. QED
  BY <1>1, <1>2, <1>3 DEF IInv, ResultsSound

(* A submission that was made has its type.                                *)
LEMMA SubmissionMade ==
  ASSUME ResultTypeOK, NEW i \in SubmissionIds, submissions[i].state # "none"
  PROVE  submissions[i] \in Submission
BY DEF ResultTypeOK, NoSubmission

(* A submission that awaits an answer is the only one.                     *)
LEMMA OnlyOneAwaits ==
  ASSUME SubmissionsFitState, state = "awaiting_confirmation",
         NEW i \in SubmissionIds, submissions[i].state # "none"
  PROVE  /\ submissions[i].state = "pending"
         /\ \A j \in SubmissionIds : j # i => submissions[j].state = "none"
         /\ verified = <<>>
BY DEF SubmissionsFitState, Submitted, Pending

-----------------------------------------------------------------------------
(* Commands that take effect once.  A step that emits one event of a fresh *)
(* command keeps AppliedOnce.                                              *)
LEMMA EmitOnce ==
  ASSUME ResultTypeOK, AppliedOnce, NEW c \in CommandIds, NEW type, NEW r,
         Command(c), Emit(c, type, r)
  PROVE  AppliedOnce'
<1> DEFINE e == [type |-> type, result |-> r, command |-> c]
<1>1. events \in Seq(DomainEvent) /\ events' = Append(events, e)
  BY DEF ResultTypeOK, Emit
<1>2. /\ Len(events') = Len(events) + 1 /\ Len(events) \in Nat
      /\ \A n \in 1 .. Len(events) : events'[n] = events[n]
      /\ events'[Len(events) + 1] = e
  BY <1>1, AppendIndex
<1> QED
  BY <1>2 DEF AppliedOnce, Command

(* A step that appends no result keeps the chain.                          *)
LEMMA SameResultsChain ==
  ASSUME ChainOfVersions, verified' = verified
  PROVE  ChainOfVersions'
BY DEF ChainOfVersions

-----------------------------------------------------------------------------
(* SubmitResult *)

(* The first submission opens the question ...                             *)
LEMMA SubmitFirstKeeps ==
  ASSUME IInv, NEW c \in CommandIds, NEW i \in SubmissionIds, NEW a \in Actors,
         NEW r \in Proposals, SubmitFirst(c, i, a, r)
  PROVE  IInv'
<1> DEFINE sub == [by |-> a, result |-> r, state |-> "pending"]
<1>0. ResultTypeOK /\ SubmissionsFitState /\ ChainOfVersions /\ AppliedOnce /\ TwoPartyRule
  BY DEF IInv, ResultsSound
<1>1. r \in LegalResults
  BY ValidIsResult DEF SubmitFirst
<1>2. /\ state = "awaiting_result" /\ state' = "awaiting_confirmation"
      /\ submissions' = [submissions EXCEPT ![i] = sub]
      /\ confirmations' = confirmations /\ verified' = verified
      /\ commands' = commands \cup {c}
      /\ events' = Append(events, [type |-> "submitted", result |-> r, command |-> c])
  BY DEF SubmitFirst, Command, Emit
<1>3. verified = <<>> /\ \A j \in SubmissionIds : submissions[j].state = "none"
  BY <1>0, <1>2 DEF SubmissionsFitState, Submitted
<1>4. ResultTypeOK'
  <2>1. sub \in Submission
    BY <1>1 DEF Submission, SubmissionStates
  <2>2. [type |-> "submitted", result |-> r, command |-> c] \in DomainEvent
    BY <1>1 DEF DomainEvent
  <2>3. events' \in Seq(DomainEvent)
    BY <1>0, <1>2, <2>2, AppendType DEF ResultTypeOK
  <2>4. submissions' \in [SubmissionIds -> Submission \cup {NoSubmission}]
    BY <1>0, <1>2, <2>1 DEF ResultTypeOK
  <2>5. QED
    BY <1>0, <1>2, <2>3, <2>4 DEF ResultTypeOK, MatchStates
<1>5. SubmissionsFitState'
  <2>1. \A j \in SubmissionIds : submissions'[j] = IF j = i THEN sub ELSE submissions[j]
    BY <1>0, <1>2 DEF ResultTypeOK
  <2>2. Submitted' = {i} /\ Pending' = {i}
    BY <2>1, <1>3 DEF Submitted, Pending
  <2>3. QED
    BY <1>2, <1>3, <2>2 DEF SubmissionsFitState
<1>6. AppliedOnce'
  BY <1>0, EmitOnce DEF SubmitFirst
<1>7. TwoPartyRule'
  BY <1>2, <1>3 DEF TwoPartyRule
<1>8. QED
  BY <1>0, <1>2, <1>4, <1>5, <1>6, <1>7, SameResultsChain DEF IInv, ResultsSound

(* ... and one of the other side that says something else disputes it.     *)
LEMMA SubmitConflictingKeeps ==
  ASSUME IInv, NEW c \in CommandIds, NEW i \in SubmissionIds, NEW a \in Actors,
         NEW r \in Proposals, SubmitConflicting(c, i, a, r)
  PROVE  IInv'
<1> DEFINE sub == [by |-> a, result |-> r, state |-> "disputed"]
           sent == [type |-> "submitted", result |-> r, command |-> c]
           clash == [type |-> "disputed", result |-> r, command |-> c]
<1>0. ResultTypeOK /\ SubmissionsFitState /\ ChainOfVersions /\ AppliedOnce /\ TwoPartyRule
  BY DEF IInv, ResultsSound
<1>1. r \in LegalResults
  BY ValidIsResult DEF SubmitConflicting
<1>2. /\ state = "awaiting_confirmation" /\ state' = "disputed"
      /\ submissions[i].state = "none"
      /\ confirmations' = confirmations /\ verified' = verified
      /\ c \notin commands /\ commands' = commands \cup {c}
      /\ events' = events \o <<sent, clash>>
  BY DEF SubmitConflicting, Command
<1>3. PICK p \in Pending :
        submissions' = [submissions EXCEPT ![p].state = "disputed", ![i] = sub]
  BY DEF SubmitConflicting
<1>4. p \in SubmissionIds /\ submissions[p].state = "pending" /\ p # i
  BY <1>2 DEF Pending
<1>5. /\ verified = <<>>
      /\ \A j \in SubmissionIds : j # p => submissions[j].state = "none"
      /\ submissions[p] \in Submission
  BY <1>0, <1>2, <1>4, OnlyOneAwaits, SubmissionMade
<1>6. \A j \in SubmissionIds :
        submissions'[j] = IF j = i THEN sub
                          ELSE IF j = p THEN [submissions[p] EXCEPT !.state = "disputed"]
                          ELSE submissions[j]
  BY <1>0, <1>3, <1>4 DEF ResultTypeOK
<1>7. /\ events' \in Seq(DomainEvent) /\ Len(events) \in Nat
      /\ Len(events') = Len(events) + 2
      /\ \A n \in 1 .. Len(events) : events'[n] = events[n]
      /\ events'[Len(events) + 1] = sent /\ events'[Len(events) + 2] = clash
  <2>1. sent \in DomainEvent /\ clash \in DomainEvent /\ events \in Seq(DomainEvent)
    BY <1>0, <1>1 DEF DomainEvent, ResultTypeOK
  <2>2. QED
    BY <2>1, <1>2, AppendTwo
<1>8. ResultTypeOK'
  <2>1. sub \in Submission
    BY <1>1 DEF Submission, SubmissionStates
  <2>2. [submissions[p] EXCEPT !.state = "disputed"] \in Submission
    BY <1>5 DEF Submission, SubmissionStates
  <2>3. submissions' \in [SubmissionIds -> Submission \cup {NoSubmission}]
    BY <1>0, <1>3, <1>4, <2>1, <2>2 DEF ResultTypeOK
  <2>4. QED
    BY <1>0, <1>2, <1>7, <2>3 DEF ResultTypeOK, MatchStates
<1>9. SubmissionsFitState'
  <2>1. Pending' = {}
    BY <1>4, <1>5, <1>6 DEF Pending, Submission
  <2>2. QED
    BY <1>2, <1>5, <2>1 DEF SubmissionsFitState
<1>10. AppliedOnce'
  <2>1. \A n \in 1 .. Len(events) : events[n].command \in commands
    BY <1>0 DEF AppliedOnce
  <2>2. QED
    BY <1>0, <1>2, <1>7, <2>1 DEF AppliedOnce
<1>11. TwoPartyRule'
  BY <1>2, <1>5 DEF TwoPartyRule
<1>12. QED
  BY <1>0, <1>2, <1>8, <1>9, <1>10, <1>11, SameResultsChain DEF IInv, ResultsSound

-----------------------------------------------------------------------------
(* ConfirmResult and DisputeResult *)

(* The other side agrees: the submission becomes the first version.        *)
LEMMA ConfirmResultKeeps ==
  ASSUME IInv, NEW c \in CommandIds, NEW k \in ConfirmationIds, NEW v \in VerificationIds,
         NEW i \in SubmissionIds, NEW a \in Actors, ConfirmResult(c, k, v, i, a)
  PROVE  IInv'
<1> DEFINE result == submissions[i].result
           answer == [submission |-> i, by |-> a, decision |-> "confirmed"]
           first == [id |-> v, version |-> 1, result |-> result, method |-> "opponent",
                     by |-> a, submission |-> i, supersedes |-> NoId]
           told == [type |-> "verified", result |-> result, command |-> c]
<1>0. ResultTypeOK /\ SubmissionsFitState /\ ChainOfVersions /\ AppliedOnce /\ TwoPartyRule
  BY DEF IInv, ResultsSound
<1>1. /\ state = "awaiting_confirmation" /\ state' = "verified"
      /\ submissions[i].state # "none" /\ Opposes(a, submissions[i].by)
      /\ confirmations' = [confirmations EXCEPT ![k] = answer]
      /\ submissions' = [submissions EXCEPT ![i].state = "confirmed"]
      /\ verified' = Append(verified, first)
      /\ commands' = commands \cup {c}
      /\ events' = Append(events, told)
  BY DEF ConfirmResult, Command, Emit
<1>2. /\ verified = <<>> /\ submissions[i] \in Submission
      /\ \A j \in SubmissionIds : j # i => submissions[j].state = "none"
  BY <1>0, <1>1, OnlyOneAwaits, SubmissionMade
<1>3. verified' = <<first>>
  BY <1>1, <1>2
<1>4. \A j \in SubmissionIds :
        submissions'[j] = IF j = i THEN [submissions[i] EXCEPT !.state = "confirmed"]
                          ELSE submissions[j]
  BY <1>0, <1>1 DEF ResultTypeOK
<1>5. ResultTypeOK'
  <2>1. [submissions[i] EXCEPT !.state = "confirmed"] \in Submission /\ result \in LegalResults
    BY <1>2 DEF Submission, SubmissionStates
  <2>2. submissions' \in [SubmissionIds -> Submission \cup {NoSubmission}]
    BY <1>0, <1>1, <2>1 DEF ResultTypeOK
  <2>3. answer \in Confirmation
    BY DEF Confirmation
  <2>4. confirmations' \in [ConfirmationIds -> Confirmation \cup {NoConfirmation}]
    BY <1>0, <1>1, <2>3 DEF ResultTypeOK
  <2>5. first \in VerifiedResult
    BY <2>1 DEF VerifiedResult
  <2>6. verified' \in Seq(VerifiedResult)
    BY <1>3, <2>5
  <2>7. told \in DomainEvent
    BY <2>1 DEF DomainEvent
  <2>8. events' \in Seq(DomainEvent)
    BY <1>0, <1>1, <2>7, AppendType DEF ResultTypeOK
  <2>9. QED
    BY <1>0, <1>1, <2>2, <2>4, <2>6, <2>8 DEF ResultTypeOK, MatchStates
<1>6. SubmissionsFitState'
  <2>1. Pending' = {}
    BY <1>2, <1>4 DEF Pending, Submission
  <2>2. QED
    BY <1>1, <1>3, <2>1 DEF SubmissionsFitState
<1>7. ChainOfVersions'
  BY <1>3 DEF ChainOfVersions
<1>8. AppliedOnce'
  BY <1>0, EmitOnce DEF ConfirmResult
<1>9. TwoPartyRule'
  <2>1. submissions[i].by \in Actors
    BY <1>2 DEF Submission
  <2>2. /\ submissions'[i].state = "confirmed"
        /\ submissions'[i].by = submissions[i].by
        /\ submissions'[i].result = result
    BY <1>2, <1>4 DEF Submission
  <2>3. /\ submissions[i].by # a
        /\ PlayerOf[submissions[i].by] # PlayerOf[a]
        /\ {ActingSide(submissions[i].by), ActingSide(a)} = Sides
    BY <1>1, <2>1, OpposesIsOther
  <2>4. \A n \in 1 .. Len(verified') :
          /\ verified'[n].submission = i /\ verified'[n].by = a
          /\ verified'[n].result = result
    BY <1>3
  <2>5. QED
    BY <2>2, <2>3, <2>4 DEF TwoPartyRule
<1>10. QED
  BY <1>5, <1>6, <1>7, <1>8, <1>9 DEF IInv, ResultsSound

(* The other side disagrees: nothing is verified.                          *)
LEMMA DisputeResultKeeps ==
  ASSUME IInv, NEW c \in CommandIds, NEW k \in ConfirmationIds,
         NEW i \in SubmissionIds, NEW a \in Actors, DisputeResult(c, k, i, a)
  PROVE  IInv'
<1> DEFINE answer == [submission |-> i, by |-> a, decision |-> "disputed"]
           told == [type |-> "disputed", result |-> submissions[i].result, command |-> c]
<1>0. ResultTypeOK /\ SubmissionsFitState /\ ChainOfVersions /\ AppliedOnce /\ TwoPartyRule
  BY DEF IInv, ResultsSound
<1>1. /\ state = "awaiting_confirmation" /\ state' = "disputed"
      /\ submissions[i].state # "none"
      /\ confirmations' = [confirmations EXCEPT ![k] = answer]
      /\ submissions' = [submissions EXCEPT ![i].state = "disputed"]
      /\ verified' = verified
      /\ commands' = commands \cup {c}
      /\ events' = Append(events, told)
  BY DEF DisputeResult, Command, Emit
<1>2. /\ verified = <<>> /\ submissions[i] \in Submission
      /\ \A j \in SubmissionIds : j # i => submissions[j].state = "none"
  BY <1>0, <1>1, OnlyOneAwaits, SubmissionMade
<1>3. ResultTypeOK'
  <2>1. /\ [submissions[i] EXCEPT !.state = "disputed"] \in Submission
        /\ submissions[i].result \in LegalResults
    BY <1>2 DEF Submission, SubmissionStates
  <2>2. submissions' \in [SubmissionIds -> Submission \cup {NoSubmission}]
    BY <1>0, <1>1, <2>1 DEF ResultTypeOK
  <2>3. answer \in Confirmation
    BY DEF Confirmation
  <2>4. confirmations' \in [ConfirmationIds -> Confirmation \cup {NoConfirmation}]
    BY <1>0, <1>1, <2>3 DEF ResultTypeOK
  <2>5. told \in DomainEvent
    BY <2>1 DEF DomainEvent
  <2>6. events' \in Seq(DomainEvent)
    BY <1>0, <1>1, <2>5, AppendType DEF ResultTypeOK
  <2>7. QED
    BY <1>0, <1>1, <2>2, <2>4, <2>6 DEF ResultTypeOK, MatchStates
<1>4. SubmissionsFitState'
  <2>1. \A j \in SubmissionIds :
          submissions'[j] = IF j = i THEN [submissions[i] EXCEPT !.state = "disputed"]
                            ELSE submissions[j]
    BY <1>0, <1>1 DEF ResultTypeOK
  <2>2. Pending' = {}
    BY <1>2, <2>1 DEF Pending, Submission
  <2>3. QED
    BY <1>1, <1>2, <2>2 DEF SubmissionsFitState
<1>5. AppliedOnce'
  BY <1>0, EmitOnce DEF DisputeResult
<1>6. TwoPartyRule'
  BY <1>1, <1>2 DEF TwoPartyRule
<1>7. QED
  BY <1>0, <1>1, <1>3, <1>4, <1>5, <1>6, SameResultsChain DEF IInv, ResultsSound

-----------------------------------------------------------------------------
(* AdminOverride and CorrectResult *)

(* A match that is not verified has no verified result.                    *)
LEMMA AdminOverrideKeeps ==
  ASSUME IInv, NEW c \in CommandIds, NEW v \in VerificationIds, NEW a \in Actors,
         NEW r \in Proposals, AdminOverride(c, v, a, r)
  PROVE  IInv'
<1> DEFINE first == [id |-> v, version |-> 1, result |-> r, method |-> "override",
                     by |-> a, submission |-> NoId, supersedes |-> NoId]
           told == [type |-> "verified", result |-> r, command |-> c]
<1>0. ResultTypeOK /\ SubmissionsFitState /\ ChainOfVersions /\ AppliedOnce /\ TwoPartyRule
  BY DEF IInv, ResultsSound
<1>1. /\ state # "verified" /\ state' = "verified"
      /\ submissions' = [i \in SubmissionIds |->
           IF i \in Pending THEN [submissions[i] EXCEPT !.state = "superseded"]
                            ELSE submissions[i]]
      /\ confirmations' = confirmations
      /\ verified' = Append(verified, first)
      /\ commands' = commands \cup {c}
      /\ events' = Append(events, told)
      /\ r \in LegalResults
  BY ValidIsResult DEF AdminOverride, Command, Emit
<1>2. verified = <<>>
  BY <1>0, <1>1 DEF SubmissionsFitState
<1>3. verified' = <<first>>
  BY <1>1, <1>2
<1>4. \A i \in Pending : i \in SubmissionIds /\ submissions[i] \in Submission
  BY <1>0, SubmissionMade DEF Pending
<1>5. ResultTypeOK'
  <2>1. \A i \in Pending : [submissions[i] EXCEPT !.state = "superseded"] \in Submission
    BY <1>4 DEF Submission, SubmissionStates
  <2>2. submissions' \in [SubmissionIds -> Submission \cup {NoSubmission}]
    BY <1>0, <1>1, <2>1 DEF ResultTypeOK
  <2>3. first \in VerifiedResult
    BY <1>1 DEF VerifiedResult
  <2>4. verified' \in Seq(VerifiedResult)
    BY <1>3, <2>3
  <2>5. told \in DomainEvent
    BY <1>1 DEF DomainEvent
  <2>6. events' \in Seq(DomainEvent)
    BY <1>0, <1>1, <2>5, AppendType DEF ResultTypeOK
  <2>7. QED
    BY <1>0, <1>1, <2>2, <2>4, <2>6 DEF ResultTypeOK, MatchStates
<1>6. SubmissionsFitState'
  <2>1. \A i \in SubmissionIds : submissions'[i].state # "pending"
    BY <1>1, <1>4 DEF Pending, Submission
  <2>2. QED
    BY <1>1, <1>3, <2>1 DEF SubmissionsFitState, Pending
<1>7. ChainOfVersions' /\ TwoPartyRule'
  BY <1>3 DEF ChainOfVersions, TwoPartyRule
<1>8. AppliedOnce'
  BY <1>0, EmitOnce DEF AdminOverride
<1>9. QED
  BY <1>5, <1>6, <1>7, <1>8 DEF IInv, ResultsSound

(* A correction supersedes the last version and no other.                  *)
LEMMA CorrectResultKeeps ==
  ASSUME IInv, NEW c \in CommandIds, NEW v \in VerificationIds, NEW a \in Actors,
         NEW r \in Proposals, CorrectResult(c, v, a, r)
  PROVE  IInv'
<1> DEFINE last == verified[Len(verified)]
           next == [id |-> v, version |-> last.version + 1, result |-> r,
                    method |-> "correction", by |-> a, submission |-> NoId,
                    supersedes |-> last.id]
           told == [type |-> "corrected", result |-> r, command |-> c]
<1>0. ResultTypeOK /\ SubmissionsFitState /\ ChainOfVersions /\ AppliedOnce /\ TwoPartyRule
  BY DEF IInv, ResultsSound
<1>1. /\ state = "verified" /\ state' = "verified"
      /\ submissions' = submissions /\ confirmations' = confirmations
      /\ verified' = Append(verified, next)
      /\ commands' = commands \cup {c}
      /\ events' = Append(events, told)
      /\ last.result # r /\ r \in LegalResults
  BY ValidIsResult DEF CorrectResult, Command, Emit
<1>2. /\ verified \in Seq(VerifiedResult) /\ verified # <<>>
      /\ Len(verified) \in Nat \ {0} /\ last \in VerifiedResult
  BY <1>0, <1>1 DEF ResultTypeOK, SubmissionsFitState
<1>3. last.version = Len(verified)
  BY <1>0, <1>2 DEF ChainOfVersions
<1>4. /\ Len(verified') = Len(verified) + 1
      /\ \A n \in 1 .. Len(verified) : verified'[n] = verified[n]
      /\ verified'[Len(verified) + 1] = next
  BY <1>1, <1>2, AppendIndex
<1>5. ResultTypeOK'
  <2>1. next \in VerifiedResult
    BY <1>1, <1>2, <1>3 DEF VerifiedResult
  <2>2. verified' \in Seq(VerifiedResult)
    BY <1>1, <1>2, <2>1, AppendType
  <2>3. told \in DomainEvent
    BY <1>1 DEF DomainEvent
  <2>4. events' \in Seq(DomainEvent)
    BY <1>0, <1>1, <2>3, AppendType DEF ResultTypeOK
  <2>5. QED
    BY <1>0, <1>1, <2>2, <2>4 DEF ResultTypeOK, MatchStates
<1>6. SubmissionsFitState'
  <2>1. verified' # <<>>
    BY <1>2, <1>4
  <2>2. Pending' = Pending
    BY <1>1 DEF Pending
  <2>3. QED
    BY <1>0, <1>1, <2>1, <2>2 DEF SubmissionsFitState
<1>7. ChainOfVersions'
  BY <1>0, <1>1, <1>2, <1>3, <1>4 DEF ChainOfVersions
<1>8. AppliedOnce'
  BY <1>0, EmitOnce DEF CorrectResult
<1>9. TwoPartyRule'
  <2> SUFFICES ASSUME NEW n \in 1 .. Len(verified'), verified'[n].method = "opponent"
               PROVE  \E i \in SubmissionIds :
                        LET s == submissions'[i] IN
                        /\ verified'[n].submission = i
                        /\ s.state = "confirmed"
                        /\ s.result = verified'[n].result
                        /\ s.by # verified'[n].by
                        /\ PlayerOf[s.by] # PlayerOf[verified'[n].by]
                        /\ {ActingSide(s.by), ActingSide(verified'[n].by)} = Sides
    BY DEF TwoPartyRule
  <2>1. n \in 1 .. Len(verified) /\ verified'[n] = verified[n]
    BY <1>2, <1>4
  <2>2. QED
    BY <1>0, <1>1, <2>1 DEF TwoPartyRule
<1>10. QED
  BY <1>5, <1>6, <1>7, <1>8, <1>9 DEF IInv, ResultsSound

-----------------------------------------------------------------------------
(* Every command keeps the invariant, and so does a refused one.           *)
LEMMA NextIInv == IInv /\ [ResultNext]_resultVars => IInv'
<1> SUFFICES ASSUME IInv, [ResultNext]_resultVars PROVE IInv'
  OBVIOUS
<1>1. CASE UNCHANGED resultVars
  BY <1>1 DEF resultVars, IInv, ResultsSound, ResultTypeOK, SubmissionsFitState, Submitted, Pending,
              ChainOfVersions, AppliedOnce, TwoPartyRule
<1>2. CASE ResultNext
  BY <1>2, SubmitFirstKeeps, SubmitConflictingKeeps, ConfirmResultKeeps,
     DisputeResultKeeps, AdminOverrideKeeps, CorrectResultKeeps DEF ResultNext
<1>3. QED
  BY <1>1, <1>2

(* The inductive invariant holds throughout every behaviour of a match.    *)
THEOREM ResultInvariance == ResultSpec => []IInv
<1>1. QED
  BY InitIInv, NextIInv, PTL DEF ResultSpec

(* Match: whatever order commands come in and however often, submissions   *)
(* fit the state, versions form one chain and no command counts twice.     *)
THEOREM ResultsCorrect == ResultSpec => []ResultsSound
<1>1. IInv => ResultsSound
  BY DEF IInv
<1>2. QED
  BY <1>1, ResultInvariance, PTL

(* ConfirmResult: no user, no player and no side makes its own result      *)
(* official, whichever accounts are linked to a player.                    *)
THEOREM TwoPartyCorrect == ResultSpec => []TwoPartyRule
<1>1. IInv => TwoPartyRule
  BY DEF IInv
<1>2. QED
  BY <1>1, ResultInvariance, PTL

-----------------------------------------------------------------------------
(* Decisions are only appended to.  What a step may do to the results.     *)
Appends ==
  /\ state = "verified" => state' = "verified"
  /\ verified' # verified =>
       /\ verified' = Append(verified, verified'[Len(verified')])
       /\ events' = Append(events, events'[Len(events')])
       /\ events'[Len(events')].result = verified'[Len(verified')].result
       /\ events'[Len(events')].type
            = IF Len(verified) = 0 THEN "verified" ELSE "corrected"

(* A step that appends a result and the event that tells of it.            *)
LEMMA AppendsOne ==
  ASSUME ResultTypeOK, NEW x, NEW e, state' = "verified",
         verified' = Append(verified, x), events' = Append(events, e),
         e.result = x.result,
         e.type = IF Len(verified) = 0 THEN "verified" ELSE "corrected"
  PROVE  Appends
<1>1. verified \in Seq(VerifiedResult) /\ events \in Seq(DomainEvent)
  BY DEF ResultTypeOK
<1>2. verified'[Len(verified')] = x /\ events'[Len(events')] = e
  BY <1>1, AppendIndex
<1>3. QED
  BY <1>2 DEF Appends

(* No command changes or drops what was decided or published.              *)
LEMMA NextAppends ==
  ASSUME IInv, ResultNext
  PROVE  Appends
<1>0. ResultTypeOK /\ SubmissionsFitState
  BY DEF IInv, ResultsSound
<1>1. ASSUME NEW c \in CommandIds, NEW a \in Actors, NEW i \in SubmissionIds,
             NEW r \in Proposals, SubmitFirst(c, i, a, r) \/ SubmitConflicting(c, i, a, r)
      PROVE  Appends
  BY <1>1 DEF SubmitFirst, SubmitConflicting, Appends
<1>2. ASSUME NEW c \in CommandIds, NEW a \in Actors, NEW k \in ConfirmationIds,
             NEW v \in VerificationIds, NEW i \in SubmissionIds,
             ConfirmResult(c, k, v, i, a)
      PROVE  Appends
  <2>1. verified = <<>> /\ Len(verified) = 0
    BY <1>0, <1>2 DEF ConfirmResult, SubmissionsFitState
  <2>2. QED
    BY <1>0, <1>2, <2>1, AppendsOne DEF ConfirmResult, Emit
<1>3. ASSUME NEW c \in CommandIds, NEW a \in Actors, NEW k \in ConfirmationIds,
             NEW i \in SubmissionIds, DisputeResult(c, k, i, a)
      PROVE  Appends
  BY <1>3 DEF DisputeResult, Appends
<1>4. ASSUME NEW c \in CommandIds, NEW a \in Actors, NEW v \in VerificationIds,
             NEW r \in Proposals, AdminOverride(c, v, a, r)
      PROVE  Appends
  <2>1. verified = <<>> /\ Len(verified) = 0
    BY <1>0, <1>4 DEF AdminOverride, SubmissionsFitState
  <2>2. QED
    BY <1>0, <1>4, <2>1, AppendsOne DEF AdminOverride, Emit
<1>5. ASSUME NEW c \in CommandIds, NEW a \in Actors, NEW v \in VerificationIds,
             NEW r \in Proposals, CorrectResult(c, v, a, r)
      PROVE  Appends
  <2>1. Len(verified) # 0
    BY <1>0, <1>5 DEF CorrectResult, SubmissionsFitState, ResultTypeOK
  <2>2. state' = "verified"
    BY <1>5 DEF CorrectResult
  <2>3. QED
    BY <1>0, <1>5, <2>1, <2>2, AppendsOne DEF CorrectResult, Emit
<1>6. QED
  BY <1>1, <1>2, <1>3, <1>4, <1>5 DEF ResultNext

(* AdminOverride, CorrectResult and ConfirmResult: a verified match stays  *)
(* verified, and its results are only appended to, each with the event     *)
(* that announces it.                                                      *)
THEOREM AppendOnlyCorrect == ResultSpec => ResultsAppendOnly
<1>1. IInv /\ [ResultNext]_resultVars => [Appends]_resultVars
  BY NextAppends
<1>2. QED
  BY <1>1, ResultInvariance, PTL DEF ResultSpec, ResultsAppendOnly, Appends

-----------------------------------------------------------------------------
(* The tables of an event *)

MatchRow ==
  [state : {"none", "open", "verified", "deleted"},
   sides : {<<>>} \cup [{1, 2} -> Side],
   result : Results \cup {"none"}]

Typed == TypeOK /\ match \in [Matches -> MatchRow]

(* What the transaction in flight saw can only have been added to: nobody  *)
(* else deletes, and a row that was there is as it was.                    *)
SnapshotHolds ==
  tx # NoTx =>
    /\ tx.event # "none" => event = tx.event
    /\ \A t \in Teams : tx.team[t] # "none" => team[t] = tx.team[t]
    /\ tx.created \subseteq created
    /\ \A m \in Matches : tx.match[m].state # "none" => match[m] = tx.match[m]

(* Only players that exist are on a roster.                                *)
Rostered == \A p \in Players : roster[p].team # NoTeam => p \in created

(* Nobody plays on both sides of a match.                                  *)
SidesApart ==
  \A m \in Matches : Live(match, m) =>
    \A p \in Players : ~ (p \in match[m].sides[1].players /\ p \in match[m].sides[2].players)

(* The inductive invariant.                                                *)
TInv ==
  /\ Typed /\ SnapshotHolds /\ Rostered /\ SidesApart
  /\ NothingDangles /\ StaffedTeamsLive /\ StandingsMatchResults

-----------------------------------------------------------------------------
(* What a step leaves alone *)

(* The snapshot stays true when rows are only inserted.                    *)
LEMMA InsertsKeepSnapshot ==
  ASSUME SnapshotHolds, tx' = tx,
         event # "none" => event' = event,
         \A t \in Teams : team[t] # "none" => team'[t] = team[t],
         created \subseteq created',
         \A m \in Matches : match[m].state # "none" => match'[m] = match[m]
  PROVE  SnapshotHolds'
BY DEF SnapshotHolds

(* Nothing remains to be true of a snapshot that is given up.              *)
LEMMA CommitEndsSnapshot ==
  ASSUME tx' = NoTx
  PROVE  SnapshotHolds'
BY DEF SnapshotHolds

(* Staffing depends on the rosters and on which teams are live.            *)
LEMMA RostersKeepTeams ==
  ASSUME StaffedTeamsLive, UNCHANGED roster,
         \A t \in Teams : MembersOf(t) # {} /\ team[t] = "live" => team'[t] = "live"
  PROVE  StaffedTeamsLive'
<1>1. \A t \in Teams : MembersOf(t)' = MembersOf(t)
  BY DEF MembersOf
<1>2. QED
  BY <1>1 DEF StaffedTeamsLive

(* The standings depend on the matches already counted only.               *)
LEMMA CountedMatchesKeepStandings ==
  ASSUME StandingsMatchResults, UNCHANGED <<applied, stats>>,
         \A m \in applied : match'[m] = match[m]
  PROVE  StandingsMatchResults'
<1>1. \A m \in applied, p \in Players : SideIn(m, p)' = SideIn(m, p)
  BY DEF SideIn
<1>2. \A p \in Players : Played(p)' = Played(p)
  BY <1>1 DEF Played
<1>3. \A p \in Players : \A m \in Played(p) : m \in applied
  BY DEF Played
<1>4. \A p \in Players : Won(p)' = Won(p) /\ Tied(p)' = Tied(p)
  BY <1>1, <1>2, <1>3 DEF Won, Tied
<1>5. QED
  BY <1>2, <1>4 DEF StandingsMatchResults

(* A fresh database is empty; an upgraded one has the teams, the players   *)
(* and the rosters of its matches, and no player is on two teams.          *)
LEMMA InitTInv == Init => TInv
<1> SUFFICES ASSUME Init PROVE TInv
  OBVIOUS
<1> PICK h \in Histories :
      /\ event = IF DOMAIN h = {} THEN "none" ELSE "active"
      /\ team = [t \in Teams |->
           IF \E m \in DOMAIN h, s \in {1, 2} : h[m][s].team = t THEN "live" ELSE "none"]
      /\ created = {p \in Players : \E t \in Teams : p \in Appeared(h, t)}
      /\ roster = [p \in Players |->
           IF \E t \in Teams : p \in Appeared(h, t)
           THEN [team |-> CHOOSE t \in Teams : p \in Appeared(h, t), captain |-> FALSE]
           ELSE OffRoster]
      /\ link = [p \in Players |-> NoUser]
      /\ match = [m \in Matches |->
           IF m \in DOMAIN h THEN [state |-> "open", sides |-> h[m], result |-> "none"]
           ELSE NoMatch]
      /\ market = [m \in Matches |-> "none"]
      /\ applied = {}
      /\ stats = [p \in Players |-> NoStats]
      /\ tx = NoTx
  BY DEF Init
<1>1. /\ DOMAIN h \subseteq Matches
      /\ \A m \in DOMAIN h : h[m] \in [{1, 2} -> Side] /\ h[m][1].team # h[m][2].team
      /\ \A t, u \in Teams : t # u => Appeared(h, t) \cap Appeared(h, u) = {}
  BY HistoryAssumption
<1>2. ASSUME NEW m \in Matches
      PROVE  /\ match[m] \in MatchRow
             /\ match[m].result = "none"
             /\ match[m].state = (IF m \in DOMAIN h THEN "open" ELSE "none")
             /\ m \in DOMAIN h => match[m].sides = h[m]
  <2>1. CASE m \in DOMAIN h
    <3>1. match[m] = [state |-> "open", sides |-> h[m], result |-> "none"]
      BY <2>1
    <3>2. h[m] \in [{1, 2} -> Side]
      BY <1>1, <2>1
    <3>3. QED
      BY <2>1, <3>1, <3>2 DEF MatchRow
  <2>2. CASE m \notin DOMAIN h
    BY <2>2 DEF MatchRow, NoMatch
  <2>3. QED
    BY <2>1, <2>2
<1>3. \A m \in Matches : Live(match, m) <=> m \in DOMAIN h
  BY <1>2 DEF Live
<1>4. ASSUME NEW p \in Players
      PROVE  /\ roster[p] \in [team : Teams \cup {NoTeam}, captain : BOOLEAN]
             /\ roster[p].team # NoTeam => roster[p].team \in Teams /\ p \in Appeared(h, roster[p].team)
  <2>1. CASE \E t \in Teams : p \in Appeared(h, t)
    <3> DEFINE mine == CHOOSE t \in Teams : p \in Appeared(h, t)
    <3>1. mine \in Teams /\ p \in Appeared(h, mine)
      BY <2>1
    <3>2. roster[p] = [team |-> mine, captain |-> FALSE]
      BY <2>1
    <3> HIDE DEF mine
    <3>3. QED
      BY <3>1, <3>2
  <2>2. CASE ~ \E t \in Teams : p \in Appeared(h, t)
    BY <2>2 DEF OffRoster
  <2>3. QED
    BY <2>1, <2>2
<1>5. ASSUME NEW m \in DOMAIN h, NEW s \in {1, 2}
      PROVE  /\ h[m][s].team \in Teams /\ team[h[m][s].team] = "live"
             /\ h[m][s].players \subseteq Players
             /\ h[m][s].players \subseteq Appeared(h, h[m][s].team)
  <2>1. h[m][s] \in Side
    BY <1>1
  <2>2. h[m][s].team \in Teams /\ h[m][s].players \subseteq Players
    BY <2>1 DEF Side
  <2>3. QED
    BY <2>2 DEF Appeared
<1>6. Typed
  <2>1. match \in [Matches -> MatchRow]
    BY <1>2
  <2>2. roster \in [Players -> [team : Teams \cup {NoTeam}, captain : BOOLEAN]]
    BY <1>4
  <2>3. NoStats \in Stats
    BY DEF NoStats, Stats
  <2>4. \A m \in Matches :
          /\ match[m].state \in {"none", "open", "verified", "deleted"}
          /\ Live(match, m) => match[m].sides \in [{1, 2} -> Side]
          /\ match[m].result \in Results <=> match[m].state = "verified"
    BY <1>1, <1>2, <1>3 DEF Results
  <2>5. QED
    BY <2>1, <2>2, <2>3, <2>4 DEF Typed, TypeOK
<1>7. SnapshotHolds
  BY DEF SnapshotHolds
<1>8. Rostered
  BY <1>4 DEF Rostered
<1>9. SidesApart
  <2> SUFFICES ASSUME NEW m \in Matches, Live(match, m), NEW p \in Players,
                      p \in match[m].sides[1].players, p \in match[m].sides[2].players
               PROVE  FALSE
    BY DEF SidesApart
  <2>1. m \in DOMAIN h /\ match[m].sides = h[m]
    BY <1>2, <1>3
  <2>2. /\ p \in Appeared(h, h[m][1].team) /\ p \in Appeared(h, h[m][2].team)
        /\ h[m][1].team \in Teams /\ h[m][2].team \in Teams
    BY <1>5, <2>1
  <2>3. QED
    BY <1>1, <2>1, <2>2
<1>10. NothingDangles
  <2>1. \A m \in Matches : Live(match, m) =>
          /\ event = "active"
          /\ match[m].sides[1].team # match[m].sides[2].team
          /\ \A s \in {1, 2} : /\ team[match[m].sides[s].team] = "live"
                               /\ match[m].sides[s].players \subseteq created
    BY <1>1, <1>2, <1>3, <1>5
  <2>2. ASSUME NEW t \in Teams, team[t] = "live"
        PROVE  event = "active"
    <3>1. \E m \in DOMAIN h : TRUE
      BY <2>2
    <3>2. QED
      BY <3>1
  <2>3. QED
    BY <2>1, <2>2 DEF NothingDangles
<1>11. StaffedTeamsLive
  <2> SUFFICES ASSUME NEW t \in Teams, NEW p \in Players, roster[p].team = t
               PROVE  team[t] = "live"
    BY DEF StaffedTeamsLive, MembersOf
  <2>1. p \in Appeared(h, t)
    BY <1>4, TournamentAssumption
  <2>2. QED
    BY <2>1 DEF Appeared
<1>12. StandingsMatchResults
  <2>1. \A p \in Players : Played(p) = {} /\ Won(p) = {} /\ Tied(p) = {}
    BY DEF Played, Won, Tied
  <2>2. \A p \in Players : stats[p] = NoStats
    OBVIOUS
  <2>3. Cardinality({}) = 0
    BY FS_EmptySet
  <2>4. ASSUME NEW p \in Players
        PROVE  /\ stats[p].played = Cardinality(Played(p)) /\ stats[p].wins = Cardinality(Won(p))
               /\ stats[p].ties = Cardinality(Tied(p))
               /\ stats[p].losses = stats[p].played - stats[p].wins - stats[p].ties
    <3>1. stats[p] = NoStats /\ Played(p) = {} /\ Won(p) = {} /\ Tied(p) = {}
      BY <2>1, <2>2
    <3>2. QED
      BY ONLY <3>1, <2>3 DEF NoStats
  <2>5. QED
    BY <2>4 DEF StandingsMatchResults
<1>13. QED
  BY <1>6, <1>7, <1>8, <1>9, <1>10, <1>11, <1>12 DEF TInv

-----------------------------------------------------------------------------
(* READ COMMITTED steps *)

(* The event's row, a team's row and a player's row are inserted; a player *)
(* is linked and unlinked.                                                 *)
LEMMA InsertTInv ==
  ASSUME TInv,
         \/ CreateEvent
         \/ \E t \in Teams : CreateTeam(t)
         \/ \E p \in Players, u \in Users \cup {NoUser} : CreatePlayer(p, u)
         \/ \E p \in Players, u \in Users : LinkPlayerToUser(p, u) \/ UnlinkPlayer(p, u)
  PROVE  TInv'
<1> USE DEF TInv
<1>1. UNCHANGED <<roster, match, market, applied, stats, tx>>
  BY DEF CreateEvent, CreateTeam, CreatePlayer, LinkPlayerToUser, UnlinkPlayer
<1>2. /\ event # "none" => event' = event
      /\ event' \in {"none", "active", "deleted"}
  BY DEF CreateEvent, CreateTeam, CreatePlayer, LinkPlayerToUser, UnlinkPlayer, Typed, TypeOK
<1>3. /\ \A t \in Teams : team[t] # "none" => team'[t] = team[t]
      /\ \A t \in Teams : team'[t] = "live" => team[t] = "live" \/ event' = "active"
      /\ team' \in [Teams -> {"none", "live", "deleted"}]
  BY DEF CreateEvent, CreateTeam, CreatePlayer, LinkPlayerToUser, UnlinkPlayer, Typed, TypeOK
<1>4. created \subseteq created' /\ created' \subseteq Players
  BY DEF CreateEvent, CreateTeam, CreatePlayer, LinkPlayerToUser, UnlinkPlayer, Typed, TypeOK
<1>5. link' \in [Players -> Users \cup {NoUser}]
  BY DEF CreateEvent, CreateTeam, CreatePlayer, LinkPlayerToUser, UnlinkPlayer, Typed, TypeOK
<1>6. Typed'
  BY <1>1, <1>2, <1>3, <1>4, <1>5 DEF Typed, TypeOK, Live
<1>7. SnapshotHolds'
  BY <1>1, <1>2, <1>3, <1>4, InsertsKeepSnapshot
<1>8. Rostered' /\ SidesApart'
  BY <1>1, <1>4 DEF Rostered, SidesApart, Live
<1>9. NothingDangles'
  <2>1. \A t \in Teams : team'[t] = "live" => event' = "active"
    BY <1>2, <1>3 DEF NothingDangles
  <2>2. ASSUME NEW m \in Matches
        PROVE  /\ Live(match', m) =>
                  /\ event' = "active"
                  /\ match'[m].sides[1].team # match'[m].sides[2].team
                  /\ \A s \in {1, 2} : /\ team'[match'[m].sides[s].team] = "live"
                                       /\ match'[m].sides[s].players \subseteq created'
               /\ market'[m] # "none" => Live(match', m)
               /\ m \in applied' => match'[m].state = "verified"
    <3>1. ASSUME Live(match, m)
          PROVE  \A s \in {1, 2} : match[m].sides[s].team \in Teams
      BY <3>1 DEF Typed, TypeOK, Side
    <3>2. QED
      BY <1>1, <1>2, <1>3, <1>4, <3>1 DEF NothingDangles
  <2>3. QED
    BY <2>1, <2>2 DEF NothingDangles
<1>10. StaffedTeamsLive'
  BY <1>1, <1>3, RostersKeepTeams
<1>11. StandingsMatchResults'
  BY <1>1, CountedMatchesKeepStandings
<1>12. QED
  BY <1>6, <1>7, <1>8, <1>9, <1>10, <1>11

(* A market of an open match is created, or a market is voided.            *)
LEMMA MarketTInv ==
  ASSUME TInv, NEW m \in Matches, CreateMarket(m) \/ VoidMarket(m)
  PROVE  TInv'
<1> USE DEF TInv
<1>1. UNCHANGED <<event, team, created, roster, link, match, applied, stats, tx>>
  BY DEF CreateMarket, VoidMarket
<1>2. /\ market' \in [Matches -> {"none", "live", "voided"}]
      /\ \A k \in Matches : market'[k] # "none" => market[k] # "none" \/ match[k].state = "open"
  BY DEF CreateMarket, VoidMarket, Typed, TypeOK
<1>3. Typed' /\ Rostered' /\ SidesApart'
  BY <1>1, <1>2 DEF Typed, TypeOK, Live, Rostered, SidesApart
<1>4. SnapshotHolds'
  BY <1>1, InsertsKeepSnapshot
<1>5. NothingDangles'
  BY <1>1, <1>2 DEF NothingDangles, Live
<1>6. StaffedTeamsLive'
  BY <1>1, RostersKeepTeams
<1>7. StandingsMatchResults'
  BY <1>1, CountedMatchesKeepStandings
<1>8. QED
  BY <1>3, <1>4, <1>5, <1>6, <1>7

(* A snapshot is taken or given up.                                        *)
LEMMA SnapshotTInv ==
  ASSUME TInv, Begin \/ Rollback \/ UNCHANGED vars
  PROVE  TInv'
<1> USE DEF TInv
<1>1. UNCHANGED <<event, team, created, roster, link, match, market, applied, stats>>
  BY DEF Begin, Rollback, vars
<1>2. Typed' /\ Rostered' /\ SidesApart'
  BY <1>1 DEF Typed, TypeOK, Live, Rostered, SidesApart
<1>3. SnapshotHolds'
  <2>1. CASE Begin
    BY <1>1, <2>1 DEF Begin, SnapshotHolds
  <2>2. CASE Rollback
    BY <2>2, CommitEndsSnapshot DEF Rollback
  <2>3. CASE UNCHANGED vars
    BY <1>1, <2>3, InsertsKeepSnapshot DEF vars
  <2>4. QED
    BY <2>1, <2>2, <2>3
<1>4. NothingDangles'
  BY <1>1 DEF NothingDangles, Live
<1>5. StaffedTeamsLive'
  BY <1>1, RostersKeepTeams
<1>6. StandingsMatchResults'
  BY <1>1, CountedMatchesKeepStandings
<1>7. QED
  BY <1>2, <1>3, <1>4, <1>5, <1>6

(* A match of two staffed teams is created.                                *)
LEMMA CreateMatchTInv ==
  ASSUME TInv, NEW m \in Matches, NEW t1 \in Teams, NEW t2 \in Teams,
         NEW a \in SUBSET Players, NEW b \in SUBSET Players, CreateMatch(m, t1, t2, <<a, b>>)
  PROVE  TInv'
<1> USE DEF TInv
<1> DEFINE sides == << [team |-> t1, players |-> a], [team |-> t2, players |-> b] >>
           row == [state |-> "open", result |-> "none", sides |-> sides]
<1>1. /\ UNCHANGED <<event, team, created, roster, link, market, applied, stats, tx>>
      /\ event = "active" /\ match[m].state = "none"
      /\ t1 # t2 /\ team[t1] = "live" /\ team[t2] = "live"
      /\ match' = [match EXCEPT ![m] = row]
  BY DEF CreateMatch
<1>2. /\ a \subseteq MembersOf(t1) /\ b \subseteq MembersOf(t2) /\ a \cap b = {}
  BY DEF CreateMatch, LegalSides
<1>3. /\ sides \in [{1, 2} -> Side]
      /\ sides[1].team = t1 /\ sides[2].team = t2
      /\ sides[1].players = a /\ sides[2].players = b
  <2>1. [team |-> t1, players |-> a] \in Side /\ [team |-> t2, players |-> b] \in Side
    BY DEF Side
  <2>2. QED
    BY <2>1
<1> HIDE DEF sides
<1>4. row \in MatchRow /\ row.state = "open" /\ row.result = "none" /\ row.sides = sides
  BY <1>3 DEF MatchRow
<1> HIDE DEF row
<1>5. /\ match'[m] = row /\ \A k \in Matches : k # m => match'[k] = match[k]
      /\ match' \in [Matches -> MatchRow]
  BY <1>1, <1>4 DEF Typed
<1>6. a \subseteq created /\ b \subseteq created
  BY <1>2, TournamentAssumption DEF MembersOf, Rostered
<1>7. Typed'
  <2>1. ASSUME NEW k \in Matches
        PROVE  /\ match'[k].state \in {"none", "open", "verified", "deleted"}
               /\ Live(match', k) => match'[k].sides \in [{1, 2} -> Side]
               /\ match'[k].result \in Results <=> match'[k].state = "verified"
    <3>1. CASE k = m
      BY <1>3, <1>4, <1>5, <3>1 DEF Results
    <3>2. CASE k # m
      BY <1>5, <3>2 DEF Typed, TypeOK, Live
    <3>3. QED
      BY <3>1, <3>2
  <2>2. QED
    BY <1>1, <1>5, <2>1 DEF Typed, TypeOK
<1>8. SnapshotHolds'
  BY <1>1, <1>5, InsertsKeepSnapshot
<1>9. Rostered'
  BY <1>1 DEF Rostered
<1>10. SidesApart'
  <2>1. ASSUME NEW k \in Matches, Live(match', k), NEW p \in Players
        PROVE  ~ (p \in match'[k].sides[1].players /\ p \in match'[k].sides[2].players)
    <3>1. CASE k = m
      BY <1>2, <1>3, <1>4, <1>5, <3>1
    <3>2. CASE k # m
      BY <1>5, <2>1, <3>2 DEF SidesApart, Live
    <3>3. QED
      BY <3>1, <3>2
  <2>2. QED
    BY <2>1 DEF SidesApart
<1>11. NothingDangles'
  <2>1. ASSUME NEW k \in Matches
        PROVE  /\ Live(match', k) =>
                  /\ event' = "active"
                  /\ match'[k].sides[1].team # match'[k].sides[2].team
                  /\ \A s \in {1, 2} : /\ team'[match'[k].sides[s].team] = "live"
                                       /\ match'[k].sides[s].players \subseteq created'
               /\ market'[k] # "none" => Live(match', k)
               /\ k \in applied' => match'[k].state = "verified"
    <3>1. CASE k = m
      <4>1. market[m] = "none" /\ m \notin applied
        BY <1>1 DEF NothingDangles, Live
      <4>2. match'[m].sides = sides
        BY <1>4, <1>5
      <4>3. QED
        BY <1>1, <1>3, <1>6, <3>1, <4>1, <4>2
    <3>2. CASE k # m
      BY <1>1, <1>5, <3>2 DEF NothingDangles, Live
    <3>3. QED
      BY <3>1, <3>2
  <2>2. QED
    BY <1>1, <2>1 DEF NothingDangles
<1>12. StaffedTeamsLive'
  BY <1>1, RostersKeepTeams
<1>13. StandingsMatchResults'
  <2>1. m \notin applied /\ applied \subseteq Matches
    BY <1>1 DEF NothingDangles, Typed, TypeOK
  <2>2. QED
    BY <1>1, <1>5, <2>1, CountedMatchesKeepStandings
<1>14. QED
  BY <1>7, <1>8, <1>9, <1>10, <1>11, <1>12, <1>13

-----------------------------------------------------------------------------
(* SERIALIZABLE steps *)

(* A golfer joins a team, or becomes or stops being captain of it.         *)
LEMMA SetMemberTInv ==
  ASSUME TInv, NEW t \in Teams, NEW p \in Players, NEW asked \in BOOLEAN,
         SetTeamMember(t, p, asked)
  PROVE  TInv'
<1> USE DEF TInv
<1> DEFINE captain == asked \/ CaptainsOf(t) = {}
<1>1. /\ UNCHANGED <<event, team, created, link, match, market, applied, stats>>
      /\ tx # NoTx /\ tx' = NoTx
      /\ tx.team[t] = "live" /\ p \in tx.created
      /\ roster[p].team \in {NoTeam, t}
      /\ ~ (~ captain /\ CaptainsOf(t) = {p})
      /\ roster' = [roster EXCEPT ![p] = [team |-> t, captain |-> captain]]
  BY DEF SetTeamMember, Commit
<1>2. team[t] = "live" /\ p \in created
  BY <1>1 DEF SnapshotHolds
<1>3. captain \in BOOLEAN
  OBVIOUS
<1>4. captain \/ \E q \in CaptainsOf(t) : q # p
  BY <1>1
<1> HIDE DEF captain
<1>5. /\ roster'[p].team = t /\ roster'[p].captain = captain
      /\ \A q \in Players : q # p => roster'[q] = roster[q]
      /\ roster' \in [Players -> [team : Teams \cup {NoTeam}, captain : BOOLEAN]]
  BY <1>1, <1>3 DEF Typed, TypeOK
<1>6. Typed' /\ SidesApart'
  BY <1>1, <1>5 DEF Typed, TypeOK, Live, SidesApart
<1>7. SnapshotHolds'
  BY <1>1, CommitEndsSnapshot
<1>8. Rostered'
  BY <1>1, <1>2, <1>5 DEF Rostered
<1>9. NothingDangles'
  BY <1>1 DEF NothingDangles, Live
<1>10. StaffedTeamsLive'
  <2> SUFFICES ASSUME NEW u \in Teams, NEW q \in Players, roster'[q].team = u
               PROVE  team[u] = "live"
    BY <1>1 DEF StaffedTeamsLive, MembersOf
  <2>1. CASE q = p
    BY <1>2, <1>5, <2>1
  <2>2. CASE q # p
    BY <1>5, <2>2 DEF StaffedTeamsLive, MembersOf
  <2>3. QED
    BY <2>1, <2>2
<1>11. StandingsMatchResults'
  BY <1>1, CountedMatchesKeepStandings
<1>12. QED
  BY <1>6, <1>7, <1>8, <1>9, <1>10, <1>11

(* A golfer leaves a team.                                                 *)
LEMMA RemoveMemberTInv ==
  ASSUME TInv, NEW t \in Teams, NEW p \in Players, RemoveTeamMember(t, p)
  PROVE  TInv'
<1> USE DEF TInv
<1>1. /\ UNCHANGED <<event, team, created, link, match, market, applied, stats>>
      /\ tx' = NoTx
      /\ roster[p].team = t
      /\ ~ (CaptainsOf(t) = {p} /\ MembersOf(t) # {p})
      /\ roster' = [roster EXCEPT ![p] = OffRoster]
  BY DEF RemoveTeamMember, Commit
<1>2. /\ roster'[p].team = NoTeam
      /\ \A q \in Players : q # p => roster'[q] = roster[q]
      /\ roster' \in [Players -> [team : Teams \cup {NoTeam}, captain : BOOLEAN]]
  BY <1>1 DEF Typed, TypeOK, OffRoster
<1>3. Typed' /\ SidesApart'
  BY <1>1, <1>2 DEF Typed, TypeOK, Live, SidesApart
<1>4. SnapshotHolds'
  BY <1>1, CommitEndsSnapshot
<1>5. Rostered'
  BY <1>1, <1>2 DEF Rostered
<1>6. NothingDangles'
  BY <1>1 DEF NothingDangles, Live
<1>7. StaffedTeamsLive'
  <2> SUFFICES ASSUME NEW u \in Teams, NEW q \in Players, roster'[q].team = u
               PROVE  team[u] = "live"
    BY <1>1 DEF StaffedTeamsLive, MembersOf
  <2>1. q # p
    BY <1>2, TournamentAssumption
  <2>2. QED
    BY <1>2, <2>1 DEF StaffedTeamsLive, MembersOf
<1>8. StandingsMatchResults'
  BY <1>1, CountedMatchesKeepStandings
<1>9. QED
  BY <1>3, <1>4, <1>5, <1>6, <1>7, <1>8

(* A team without members and matches is deleted.                          *)
LEMMA DeleteTeamTInv ==
  ASSUME TInv, NEW t \in Teams, DeleteTeam(t)
  PROVE  TInv'
<1> USE DEF TInv
<1>1. /\ UNCHANGED <<event, created, roster, link, match, market, applied, stats>>
      /\ tx' = NoTx
      /\ ~ PlaysFor(match, t) /\ MembersOf(t) = {}
      /\ team' = [team EXCEPT ![t] = "deleted"]
  BY DEF DeleteTeam, Commit, TeamReferenced
<1>2. Typed' /\ Rostered' /\ SidesApart'
  BY <1>1 DEF Typed, TypeOK, Live, Rostered, SidesApart
<1>3. SnapshotHolds'
  BY <1>1, CommitEndsSnapshot
<1>4. /\ team'[t] = "deleted" /\ \A u \in Teams : u # t => team'[u] = team[u]
  BY <1>1 DEF Typed, TypeOK
<1>5. NothingDangles'
  <2>1. ASSUME NEW m \in Matches, Live(match, m), NEW s \in {1, 2}
        PROVE  team'[match[m].sides[s].team] = "live"
    <3>1. match[m].sides[s].team \in Teams
      BY <2>1 DEF Typed, TypeOK, Side
    <3>2. match[m].sides[s].team # t
      BY <1>1, <2>1 DEF PlaysFor
    <3>3. QED
      BY <1>4, <2>1, <3>1, <3>2 DEF NothingDangles
  <2>2. QED
    BY <1>1, <1>4, <2>1 DEF NothingDangles, Live
<1>6. StaffedTeamsLive'
  BY <1>1, <1>4, RostersKeepTeams
<1>7. StandingsMatchResults'
  BY <1>1, CountedMatchesKeepStandings
<1>8. QED
  BY <1>2, <1>3, <1>5, <1>6, <1>7

(* The event is deleted once it has no teams.                              *)
LEMMA DeleteEventTInv ==
  ASSUME TInv, DeleteEvent
  PROVE  TInv'
<1> USE DEF TInv
<1>1. /\ UNCHANGED <<team, created, roster, link, match, market, applied, stats>>
      /\ tx' = NoTx /\ event' = "deleted"
      /\ \A t \in Teams : tx.team[t] # "live"
      /\ ~ EventReferenced
  BY DEF DeleteEvent, Commit
<1>2. \A t \in Teams : team[t] # "live"
  BY <1>1 DEF EventReferenced
<1>3. \A m \in Matches : ~ Live(match, m)
  <2> SUFFICES ASSUME NEW m \in Matches, Live(match, m) PROVE FALSE
    OBVIOUS
  <2>1. match[m].sides[1].team \in Teams
    BY DEF Typed, TypeOK, Side
  <2>2. QED
    BY <1>2, <2>1 DEF NothingDangles
<1>4. Typed' /\ Rostered' /\ SidesApart'
  BY <1>1 DEF Typed, TypeOK, Live, Rostered, SidesApart
<1>5. SnapshotHolds'
  BY <1>1, CommitEndsSnapshot
<1>6. NothingDangles'
  BY <1>1, <1>2, <1>3 DEF NothingDangles, Live
<1>7. StaffedTeamsLive'
  BY <1>1, RostersKeepTeams
<1>8. StandingsMatchResults'
  BY <1>1, CountedMatchesKeepStandings
<1>9. QED
  BY <1>4, <1>5, <1>6, <1>7, <1>8

(* The snapshot's state of a match is its state.                           *)
LEMMA SnapshotMatch ==
  ASSUME TInv, tx # NoTx, NEW m \in Matches, tx.match[m].state # "none"
  PROVE  match[m] = tx.match[m]
BY DEF TInv, SnapshotHolds

(* An open match is decided.                                               *)
LEMMA RecordTInv ==
  ASSUME TInv, NEW m \in Matches, NEW r \in Results, RecordAdminResult(m, r)
  PROVE  TInv'
<1> USE DEF TInv
<1>1. /\ UNCHANGED <<event, team, created, roster, link, market, applied, stats>>
      /\ tx # NoTx /\ tx' = NoTx
      /\ tx.match[m].state = "open"
      /\ match' = [match EXCEPT ![m].state = "verified", ![m].result = r]
  BY DEF RecordAdminResult, Commit
<1>2. match[m].state = "open"
  BY <1>1, SnapshotMatch
<1>3. /\ match'[m].state = "verified" /\ match'[m].result = r
      /\ match'[m].sides = match[m].sides
      /\ \A k \in Matches : k # m => match'[k] = match[k]
      /\ match' \in [Matches -> MatchRow]
  BY <1>1 DEF Typed, MatchRow
<1>4. \A k \in Matches : /\ Live(match', k) <=> Live(match, k)
                         /\ match'[k].sides = match[k].sides
  BY <1>2, <1>3 DEF Live
<1>5. Typed'
  <2>1. ASSUME NEW k \in Matches
        PROVE  /\ match'[k].state \in {"none", "open", "verified", "deleted"}
               /\ Live(match', k) => match'[k].sides \in [{1, 2} -> Side]
               /\ match'[k].result \in Results <=> match'[k].state = "verified"
    BY <1>3, <1>4 DEF Typed, TypeOK
  <2>2. QED
    BY <1>1, <1>3, <2>1 DEF Typed, TypeOK
<1>6. Rostered' /\ SidesApart'
  BY <1>1, <1>4 DEF Rostered, SidesApart
<1>7. SnapshotHolds'
  BY <1>1, CommitEndsSnapshot
<1>8. NothingDangles'
  <2>1. ASSUME NEW k \in Matches
        PROVE  /\ market[k] # "none" => Live(match', k)
               /\ k \in applied => match'[k].state = "verified"
    BY <1>3, <1>4 DEF NothingDangles
  <2>2. ASSUME NEW k \in Matches, Live(match', k)
        PROVE  /\ event = "active"
               /\ match'[k].sides[1].team # match'[k].sides[2].team
               /\ \A s \in {1, 2} : /\ team[match'[k].sides[s].team] = "live"
                                    /\ match'[k].sides[s].players \subseteq created
    BY <1>4, <2>2 DEF NothingDangles
  <2>3. \A t \in Teams : team[t] = "live" => event = "active"
    BY DEF NothingDangles
  <2>4. QED
    BY <1>1, <2>1, <2>2, <2>3 DEF NothingDangles, Live
<1>9. StaffedTeamsLive'
  BY <1>1, RostersKeepTeams
<1>10. StandingsMatchResults'
  <2>1. m \notin applied /\ applied \subseteq Matches
    BY <1>2 DEF NothingDangles, Typed, TypeOK
  <2>2. QED
    BY <1>1, <1>3, <2>1, CountedMatchesKeepStandings
<1>11. QED
  BY <1>5, <1>6, <1>7, <1>8, <1>9, <1>10

(* An open match without markets and statistics is deleted.                *)
LEMMA DeleteMatchTInv ==
  ASSUME TInv, NEW m \in Matches, DeleteMatch(m)
  PROVE  TInv'
<1> USE DEF TInv
<1> DEFINE row == [NoMatch EXCEPT !.state = "deleted"]
<1>1. /\ UNCHANGED <<event, team, created, roster, link, market, applied, stats>>
      /\ tx' = NoTx
      /\ market[m] = "none" /\ m \notin applied
      /\ match' = [match EXCEPT ![m] = row]
  BY DEF DeleteMatch, Commit, MatchReferenced
<1>2. row \in MatchRow /\ row.state = "deleted" /\ row.result = "none"
  BY DEF NoMatch, MatchRow
<1> HIDE DEF row
<1>3. /\ match'[m] = row /\ \A k \in Matches : k # m => match'[k] = match[k]
      /\ match' \in [Matches -> MatchRow]
  BY <1>1, <1>2 DEF Typed
<1>4. \A k \in Matches : Live(match', k) => k # m
  BY <1>2, <1>3 DEF Live
<1>5. Typed'
  <2>1. ASSUME NEW k \in Matches
        PROVE  /\ match'[k].state \in {"none", "open", "verified", "deleted"}
               /\ Live(match', k) => match'[k].sides \in [{1, 2} -> Side]
               /\ match'[k].result \in Results <=> match'[k].state = "verified"
    <3>1. CASE k = m
      BY <1>2, <1>3, <1>4, <3>1 DEF Results
    <3>2. CASE k # m
      BY <1>3, <3>2 DEF Typed, TypeOK, Live
    <3>3. QED
      BY <3>1, <3>2
  <2>2. QED
    BY <1>1, <1>3, <2>1 DEF Typed, TypeOK
<1>6. Rostered' /\ SidesApart'
  BY <1>1, <1>3, <1>4 DEF Rostered, SidesApart, Live
<1>7. SnapshotHolds'
  BY <1>1, CommitEndsSnapshot
<1>8. NothingDangles'
  BY <1>1, <1>3, <1>4 DEF NothingDangles, Live
<1>9. StaffedTeamsLive'
  BY <1>1, RostersKeepTeams
<1>10. StandingsMatchResults'
  <2>1. applied \subseteq Matches
    BY DEF Typed, TypeOK
  <2>2. QED
    BY <1>1, <1>3, <2>1, CountedMatchesKeepStandings
<1>11. QED
  BY <1>5, <1>6, <1>7, <1>8, <1>9, <1>10

(* Counting a match that was not counted adds one to what it belongs to.   *)
LEMMA CountOneMore ==
  ASSUME NEW S, IsFiniteSet(S), NEW x, x \notin S
  PROVE  Cardinality(S \cup {x}) = Cardinality(S) + 1 /\ Cardinality(S) \in Nat
BY FS_AddElement, FS_CardinalityType

(* A verified result is counted.                                           *)
LEMMA ProjectTInv ==
  ASSUME TInv, NEW m \in Matches, ProjectStats(m)
  PROVE  TInv'
<1> USE DEF TInv
<1>1. /\ UNCHANGED <<event, team, created, roster, link, match, market>>
      /\ tx # NoTx /\ tx' = NoTx
      /\ tx.match[m].state = "verified" /\ m \notin applied
      /\ applied' = applied \cup {m} /\ stats' = Projected(m)
  BY DEF ProjectStats, Commit
<1>2. match[m].state = "verified" /\ match[m].result \in Results
  <2>1. match[m].state = "verified"
    BY <1>1, SnapshotMatch
  <2>2. QED
    BY <2>1 DEF Typed, TypeOK
<1>3. \A p \in Players : stats[p] \in Stats
  BY DEF Typed, TypeOK
<1>4. ASSUME NEW p \in Players
      PROVE  /\ IsFiniteSet(Played(p)) /\ IsFiniteSet(Won(p)) /\ IsFiniteSet(Tied(p))
             /\ m \notin Played(p) /\ m \notin Won(p) /\ m \notin Tied(p)
  <2>1. Played(p) \subseteq Matches /\ Won(p) \subseteq Played(p) /\ Tied(p) \subseteq Played(p)
    BY DEF Played, Won, Tied, Typed, TypeOK
  <2>2. IsFiniteSet(Played(p))
    BY <2>1, FS_Subset, TournamentAssumption
  <2>3. IsFiniteSet(Won(p)) /\ IsFiniteSet(Tied(p))
    BY <2>1, <2>2, FS_Subset
  <2>4. m \notin Played(p)
    BY <1>1 DEF Played
  <2>5. QED
    BY <2>1, <2>2, <2>3, <2>4
<1>5. \A k \in Matches, p \in Players : SideIn(k, p)' = SideIn(k, p)
  BY <1>1 DEF SideIn
<1>6. applied \subseteq Matches
  BY DEF Typed, TypeOK
<1>7. ASSUME NEW p \in Players
      PROVE  /\ stats'[p] \in Stats
             /\ stats'[p].played = Cardinality(Played(p)')
             /\ stats'[p].wins = Cardinality(Won(p)')
             /\ stats'[p].ties = Cardinality(Tied(p)')
             /\ stats'[p].losses = stats'[p].played - stats'[p].wins - stats'[p].ties
  <2>1. CASE SideIn(m, p) = {}
    <3>1. stats'[p] = stats[p]
      BY <1>1, <2>1 DEF Projected
    <3>2. Played(p)' = Played(p)
      BY <1>1, <1>5, <1>6, <2>1 DEF Played
    <3>3. \A k \in Played(p) : k \in Matches
      BY <1>6 DEF Played
    <3>4. Won(p)' = Won(p) /\ Tied(p)' = Tied(p)
      BY <1>1, <1>5, <3>2, <3>3 DEF Won, Tied
    <3>5. QED
      BY <1>3, <3>1, <3>2, <3>4 DEF StandingsMatchResults
  <2>2. CASE SideIn(m, p) # {}
    <3> DEFINE s == CHOOSE x \in SideIn(m, p) : TRUE
               r == match[m].result
               tally == Tally(r, s)
    <3>1. s \in SideIn(m, p)
      BY <2>2
    <3>2. s \in {1, 2}
      BY <3>1 DEF SideIn
    <3>3. \A x \in SideIn(m, p) : x = s
      BY <1>2, <3>1 DEF SideIn, SidesApart, Live
    <3>4. stats'[p] = Add(stats[p], tally)
      BY <1>1, <2>2 DEF Projected
    <3>5. Played(p)' = Played(p) \cup {m}
      BY <1>1, <1>5, <1>6, <2>2 DEF Played
    <3>6. \A k \in Played(p) : k \in Matches
      BY <1>6 DEF Played
    <3> HIDE DEF s
    <3> DEFINE wins == r = (IF s = 1 THEN "side_1" ELSE "side_2")
    <3>7. Won(p)' = IF wins THEN Won(p) \cup {m} ELSE Won(p)
      <4>1. \A k \in Played(p)' : k \in Matches /\ SideIn(k, p)' = SideIn(k, p) /\ match'[k] = match[k]
        BY <1>1, <1>5, <3>5, <3>6
      <4>2. wins <=> \E x \in SideIn(m, p) : match[m].result = (IF x = 1 THEN "side_1" ELSE "side_2")
        BY <3>1, <3>3
      <4>3. Won(p)' = {k \in Played(p)' : \E x \in SideIn(k, p) :
                         match[k].result = (IF x = 1 THEN "side_1" ELSE "side_2")}
        BY <4>1 DEF Won
      <4> HIDE DEF wins
      <4>4. QED
        BY <3>5, <4>2, <4>3 DEF Won
    <3>8. Tied(p)' = IF r = "tie" THEN Tied(p) \cup {m} ELSE Tied(p)
      BY <1>1, <3>5 DEF Tied
    <3>9. /\ Cardinality(Played(p)') = stats[p].played + 1
          /\ Cardinality(Won(p)') = stats[p].wins + (IF wins THEN 1 ELSE 0)
          /\ Cardinality(Tied(p)') = stats[p].ties + (IF r = "tie" THEN 1 ELSE 0)
      <4>1. /\ Cardinality(Played(p) \cup {m}) = Cardinality(Played(p)) + 1
            /\ Cardinality(Won(p) \cup {m}) = Cardinality(Won(p)) + 1
            /\ Cardinality(Tied(p) \cup {m}) = Cardinality(Tied(p)) + 1
        BY <1>4, CountOneMore
      <4>2. /\ stats[p].played = Cardinality(Played(p)) /\ stats[p].wins = Cardinality(Won(p))
            /\ stats[p].ties = Cardinality(Tied(p))
        BY DEF StandingsMatchResults
      <4>3. stats[p].wins \in Nat /\ stats[p].ties \in Nat
        BY <1>3 DEF Stats
      <4> HIDE DEF wins
      <4>4. QED
        BY <3>5, <3>7, <3>8, <4>1, <4>2, <4>3
    <3>10. /\ tally.played = 1 /\ tally.wins = (IF wins THEN 1 ELSE 0)
           /\ tally.ties = (IF r = "tie" THEN 1 ELSE 0)
           /\ tally.losses = 1 - tally.wins - tally.ties
           /\ tally.losses \in Nat
      BY <1>2, <3>2 DEF Tally, Results
    <3> HIDE DEF wins, tally, r
    <3>11. /\ stats[p].played \in Nat /\ stats[p].wins \in Nat
           /\ stats[p].losses \in Nat /\ stats[p].ties \in Nat
           /\ stats[p].losses = stats[p].played - stats[p].wins - stats[p].ties
      BY <1>3 DEF Stats, StandingsMatchResults
    <3>12. /\ stats'[p].played = stats[p].played + tally.played
           /\ stats'[p].wins = stats[p].wins + tally.wins
           /\ stats'[p].losses = stats[p].losses + tally.losses
           /\ stats'[p].ties = stats[p].ties + tally.ties
           /\ stats'[p] \in Stats
      <4>1. tally.played \in Nat /\ tally.wins \in Nat /\ tally.losses \in Nat /\ tally.ties \in Nat
        BY <3>10
      <4>2. QED
        BY <3>4, <3>11, <4>1 DEF Add, Stats
    <3>13. tally.wins \in Nat /\ tally.ties \in Nat
      BY <3>10
    <3>14. /\ stats'[p].played = Cardinality(Played(p)')
           /\ stats'[p].wins = Cardinality(Won(p)')
           /\ stats'[p].ties = Cardinality(Tied(p)')
      BY <3>9, <3>10, <3>12
    <3>15. stats'[p].losses = stats'[p].played - stats'[p].wins - stats'[p].ties
      <4>1. ASSUME NEW a \in Nat, NEW b \in Nat, NEW c \in Nat, NEW x \in Nat, NEW y \in Nat
            PROVE  (a - b - c) + (1 - x - y) = (a + 1) - (b + x) - (c + y)
        OBVIOUS
      <4>2. QED
        BY <3>10, <3>11, <3>12, <3>13, <4>1
    <3>16. QED
      BY <3>12, <3>14, <3>15
  <2>3. QED
    BY <2>1, <2>2
<1>8. StandingsMatchResults'
  BY <1>7 DEF StandingsMatchResults
<1>9. Typed'
  <2>1. stats' \in [Players -> Stats]
    <3>1. stats' = [p \in Players |-> stats'[p]]
      BY <1>1 DEF Projected
    <3>2. QED
      BY <1>7, <3>1
  <2>2. QED
    BY <1>1, <1>6, <2>1 DEF Typed, TypeOK, Live
<1>10. Rostered' /\ SidesApart'
  BY <1>1 DEF Rostered, SidesApart, Live
<1>11. SnapshotHolds'
  BY <1>1, CommitEndsSnapshot
<1>12. NothingDangles'
  BY <1>1, <1>2 DEF NothingDangles, Live
<1>13. StaffedTeamsLive'
  BY <1>1, RostersKeepTeams
<1>14. QED
  BY <1>8, <1>9, <1>10, <1>11, <1>12, <1>13

-----------------------------------------------------------------------------
(* Every step keeps the invariant.                                         *)
LEMMA NextTInv == TInv /\ [Next]_vars => TInv'
<1> SUFFICES ASSUME TInv, [Next]_vars PROVE TInv'
  OBVIOUS
<1>1. CASE ReadCommitted
  BY <1>1, InsertTInv, MarketTInv, CreateMatchTInv DEF ReadCommitted
<1>2. CASE Serializable
  BY <1>2, SnapshotTInv, SetMemberTInv, RemoveMemberTInv, RecordTInv, DeleteMatchTInv,
     ProjectTInv, DeleteTeamTInv, DeleteEventTInv DEF Serializable
<1>3. CASE UNCHANGED vars
  BY <1>3, SnapshotTInv
<1>4. QED
  BY <1>1, <1>2, <1>3 DEF Next

(* Snapshots, rosters, references and standings hold in every reachable    *)
(* state.                                                                  *)
THEOREM Invariance == Spec => []TInv
BY InitTInv, NextTInv, PTL DEF Spec

(* No deletion leaves a row behind that refers to a deleted one, although  *)
(* it looks for history in a snapshot: the foreign keys catch what was     *)
(* inserted since.                                                         *)
THEOREM ReferencesCorrect == Spec => []ReferencesHold
<1>1. TInv => ReferencesHold
  BY DEF TInv, Typed, ReferencesHold
<1>2. QED
  BY <1>1, Invariance, PTL

-----------------------------------------------------------------------------
(* Captains *)

(* A step that leaves the rosters alone keeps every captain.               *)
LEMMA SameRosterKeepsCaptains ==
  ASSUME UNCHANGED roster
  PROVE  KeepsCaptains
<1>1. \A t \in Teams : MembersOf(t)' = MembersOf(t)
  BY DEF MembersOf
<1>2. \A t \in Teams : CaptainsOf(t)' = CaptainsOf(t)
  BY <1>1 DEF CaptainsOf
<1>3. QED
  BY <1>1, <1>2 DEF KeepsCaptains

(* A golfer joins a team, or becomes or stops being captain of it.         *)
LEMMA SetMemberKeepsCaptains ==
  ASSUME Typed, NEW t \in Teams, NEW p \in Players, NEW asked \in BOOLEAN,
         SetTeamMember(t, p, asked)
  PROVE  KeepsCaptains
<1> DEFINE captain == asked \/ CaptainsOf(t) = {}
<1>1. /\ roster[p].team \in {NoTeam, t}
      /\ ~ (~ captain /\ CaptainsOf(t) = {p})
      /\ roster' = [roster EXCEPT ![p] = [team |-> t, captain |-> captain]]
  BY DEF SetTeamMember
<1>2. captain \in BOOLEAN /\ (captain \/ \E q \in CaptainsOf(t) : q # p)
  BY <1>1
<1> HIDE DEF captain
<1>3. /\ roster'[p].team = t /\ roster'[p].captain = captain
      /\ \A q \in Players : q # p => roster'[q] = roster[q]
  BY <1>1, <1>2 DEF Typed, TypeOK
<1>4. CaptainsOf(t)' # {}
  <2>1. CASE captain
    <3>1. roster'[p].captain
      BY <1>3, <2>1, Zenon
    <3>2. QED
      BY <1>3, <3>1 DEF CaptainsOf, MembersOf
  <2>2. CASE ~ captain
    <3>1. PICK q \in CaptainsOf(t) : q # p
      BY <1>2, <2>2
    <3>2. q \in Players /\ roster[q].team = t /\ roster[q].captain
      BY DEF CaptainsOf, MembersOf
    <3>3. QED
      BY <1>3, <3>1, <3>2 DEF CaptainsOf, MembersOf
  <2>3. QED
    BY <2>1, <2>2
<1>5. ASSUME NEW u \in Teams, u # t
      PROVE  MembersOf(u)' = MembersOf(u) /\ CaptainsOf(u)' = CaptainsOf(u)
  <2>1. roster[p].team # u
    BY <1>1, <1>5, TournamentAssumption
  <2>2. MembersOf(u)' = MembersOf(u)
    BY <1>3, <1>5, <2>1 DEF MembersOf
  <2>3. \A q \in MembersOf(u) : q \in Players /\ q # p
    BY <2>1 DEF MembersOf
  <2>4. QED
    BY <1>3, <2>2, <2>3 DEF CaptainsOf
<1>6. QED
  BY <1>4, <1>5 DEF KeepsCaptains

(* A golfer leaves a team.                                                 *)
LEMMA RemoveMemberKeepsCaptains ==
  ASSUME Typed, NEW t \in Teams, NEW p \in Players, RemoveTeamMember(t, p)
  PROVE  KeepsCaptains
<1>1. /\ roster[p].team = t
      /\ ~ (CaptainsOf(t) = {p} /\ MembersOf(t) # {p})
      /\ roster' = [roster EXCEPT ![p] = OffRoster]
  BY DEF RemoveTeamMember
<1>2. /\ roster'[p].team = NoTeam
      /\ \A q \in Players : q # p => roster'[q] = roster[q]
  BY <1>1 DEF Typed, TypeOK, OffRoster
<1> SUFFICES ASSUME NEW u \in Teams
             PROVE  /\ CaptainsOf(u) # {} /\ MembersOf(u)' # {} => CaptainsOf(u)' # {}
                    /\ MembersOf(u)' \ MembersOf(u) = {}
  BY DEF KeepsCaptains
<1>3. MembersOf(u)' \ MembersOf(u) = {}
  BY <1>2, TournamentAssumption DEF MembersOf
<1>4. ASSUME CaptainsOf(u) # {}, MembersOf(u)' # {}
      PROVE  CaptainsOf(u)' # {}
  <2>1. PICK q \in Players : q # p /\ roster[q].team = u
    BY <1>2, <1>4, TournamentAssumption DEF MembersOf
  <2>2. CaptainsOf(u) # {p}
    <3>1. u # t => p \notin CaptainsOf(u)
      BY <1>1 DEF CaptainsOf, MembersOf
    <3>2. MembersOf(u) # {p}
      BY <2>1 DEF MembersOf
    <3>3. QED
      BY <1>1, <3>1, <3>2
  <2>3. PICK c \in CaptainsOf(u) : c # p
    BY <1>4, <2>2
  <2>4. c \in CaptainsOf(u)'
    BY <1>2, <2>3 DEF CaptainsOf, MembersOf
  <2>5. QED
    BY <2>4
<1>5. QED
  BY <1>3, <1>4

(* From a fresh or an upgraded database, SetTeamMember and                 *)
(* RemoveTeamMember take the last captain of no team that stays staffed,   *)
(* and the first golfer to join a team without one leads it.               *)
THEOREM CaptainsCorrect == Spec => CaptainsKept
<1>1. TInv /\ [Next]_vars => [KeepsCaptains]_vars
  <2> SUFFICES ASSUME TInv, Next PROVE KeepsCaptains
    OBVIOUS
  <2>1. CASE ReadCommitted
    BY <2>1, SameRosterKeepsCaptains
       DEF ReadCommitted, CreateEvent, CreateTeam, CreatePlayer, CreateMatch, CreateMarket,
           VoidMarket, LinkPlayerToUser, UnlinkPlayer
  <2>2. CASE Serializable
    <3>1. Typed
      BY DEF TInv
    <3>2. QED
      BY <2>2, <3>1, SetMemberKeepsCaptains, RemoveMemberKeepsCaptains, SameRosterKeepsCaptains
         DEF Serializable, Begin, Rollback, RecordAdminResult, DeleteMatch, ProjectStats,
             DeleteTeam, DeleteEvent
  <2>3. QED
    BY <2>1, <2>2 DEF Next
<1>2. QED
  BY <1>1, Invariance, PTL DEF Spec, CaptainsKept

(* StatsProjectionConsumer counts each verified result once, for each      *)
(* player of either side.                                                  *)
THEOREM StandingsCorrect == Spec => []StandingsMatchResults
<1>1. TInv => StandingsMatchResults
  BY DEF TInv
<1>2. QED
  BY <1>1, Invariance, PTL
=============================================================================
