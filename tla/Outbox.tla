------------------------------- MODULE Outbox -------------------------------
(***************************************************************************)
(* The transactional outbox: rows of outbox_events and event_receipts      *)
(* (internal/eventspg) and the dispatcher that polls them and drives the   *)
(* registered consumers (internal/events).                                 *)
(*                                                                         *)
(* A worker is one dispatcher.  Production runs one process, so one        *)
(* worker; a deployment that starts the next process before the last one   *)
(* is gone has two.  A worker may stop anywhere between two statements and *)
(* start again with nothing in memory.                                     *)
(*                                                                         *)
(* Time is abstracted to whether a row's clock is still running: the lease *)
(* of a processing row, the backoff of a pending one.                      *)
(***************************************************************************)
EXTENDS Integers, FiniteSets, Sequences

CONSTANTS
  Events,
  Consumers,     \* registered consumers, in the order they are called
  Handles,       \* Handles[e]: the consumers that handle events of e's type
  Workers,
  MaxAttempts,   \* max_attempts every event is published with
  BatchSize,     \* rows a worker claims at once
  MaxFaults      \* bound: crashes, row updates that fail, leases overrun

ASSUME OutboxAssumption ==
  /\ IsFiniteSet(Events) /\ IsFiniteSet(Workers)
  /\ Consumers \in Seq(STRING)
  /\ \A i, j \in DOMAIN Consumers : Consumers[i] = Consumers[j] => i = j
  /\ Handles \in [Events -> SUBSET (DOMAIN Consumers)]
  /\ MaxAttempts \in 1 .. 100 /\ BatchSize \in Nat \ {0} /\ MaxFaults \in Nat

VARIABLES
  row,       \* state of the outbox row, "none" before it is published
  attempts,  \* attempt_count
  clock,     \* rows whose lease or backoff is still running
  receipts,  \* <<consumer, event>> rows of event_receipts
  effects,   \* <<consumer, event>>: the consumer's own work has committed
  worker,    \* what each dispatcher is doing
  faults,    \* faults so far
  overrun    \* history: events some worker's lease of which ran out under it

rowVars == <<row, attempts, clock, overrun>>
vars == <<rowVars, receipts, effects, worker, faults>>

RowStates == {"none", "pending", "processing", "completed", "failed"}

(* batch: claimed events not yet processed.  event, next: the one being    *)
(* processed and the consumer it is at.  claim[e]: the attempt count this  *)
(* worker's claim of e returned.                                           *)
Stopped == [at |-> "tick", batch |-> {}, event |-> "none", next |-> 0,
            claim |-> [e \in Events |-> 0]]

WorkerStates == {"tick", "claim", "batch", "receipt", "handle", "record", "done", "fail"}

(* Worker p further on: at another statement, event or consumer.           *)
Moved(p, at, event, next) ==
  [at |-> at, batch |-> worker[p].batch \ {event}, event |-> event, next |-> next,
   claim |-> worker[p].claim]

Move(p, at) == worker' = [worker EXCEPT ![p] = Moved(p, at, worker[p].event, worker[p].next)]

Finish(p) == worker' = [worker EXCEPT ![p] = Moved(p, "batch", "none", 0)]

Init ==
  /\ row = [e \in Events |-> "none"]
  /\ attempts = [e \in Events |-> 0]
  /\ clock = {}
  /\ receipts = {} /\ effects = {}
  /\ worker = [p \in Workers |-> Stopped]
  /\ faults = 0
  /\ overrun = {}

-----------------------------------------------------------------------------
(* The rows *)

(* Publish, in the transaction of the change the event is about; a repeat  *)
(* is a no-op.                                                             *)
Publish(e) ==
  /\ row[e] = "none"
  /\ row' = [row EXCEPT ![e] = "pending"]
  /\ UNCHANGED <<attempts, clock, receipts, effects, worker, faults, overrun>>

Busy(e) == \E p \in Workers : e \in worker[p].batch \cup {worker[p].event}

(* A backoff ends, or the lease of a row no worker is busy with runs out.  *)
Elapse(e) ==
  /\ e \in clock /\ ~ Busy(e)
  /\ clock' = clock \ {e}
  /\ UNCHANGED <<row, attempts, receipts, effects, worker, faults, overrun>>

(* A lease runs out while a worker is still at the event, or a backoff     *)
(* ends while a worker whose claim was taken from it is.                   *)
Overrun(e) ==
  /\ faults < MaxFaults
  /\ e \in clock /\ Busy(e)
  /\ clock' = clock \ {e}
  /\ faults' = faults + 1
  /\ overrun' = overrun \cup {e}
  /\ UNCHANGED <<row, attempts, receipts, effects, worker>>

MarkUnguarded(e, to) == row' = [row EXCEPT ![e] = to]

(* MarkCompleted, MarkRetry and MarkFailed change a row only while it is   *)
(* processing, whoever has it; otherwise the call is an error that is only *)
(* logged.                                                                 *)
Mark(e, to) == row' = IF row[e] = "processing" THEN [row EXCEPT ![e] = to] ELSE row

-----------------------------------------------------------------------------
(* Dispatcher.tick *)

ReleaseNothing(p) ==
  /\ worker[p].at = "tick"
  /\ Move(p, "claim")
  /\ UNCHANGED <<rowVars, receipts, effects, faults>>

(* Processing rows whose lease has run out go back to pending.             *)
ReleaseStale(p) ==
  /\ worker[p].at = "tick"
  /\ row' = [e \in Events |->
               IF row[e] = "processing" /\ e \notin clock THEN "pending" ELSE row[e]]
  /\ Move(p, "claim")
  /\ UNCHANGED <<attempts, clock, receipts, effects, faults, overrun>>

(* Releasing fails: it is logged and the tick goes on to claim.            *)
ReleaseFails(p) ==
  /\ faults < MaxFaults
  /\ worker[p].at = "tick"
  /\ Move(p, "claim")
  /\ faults' = faults + 1
  /\ UNCHANGED <<rowVars, receipts, effects>>

(* Up to BatchSize due rows, which come back in no particular order.       *)
ClaimBatch(p) ==
  /\ worker[p].at = "claim"
  /\ LET due == {e \in Events : row[e] = "pending" /\ e \notin clock}
     IN  \E batch \in SUBSET due :
           /\ Cardinality(batch) = IF Cardinality(due) < BatchSize
                                   THEN Cardinality(due) ELSE BatchSize
           /\ row' = [e \in Events |-> IF e \in batch THEN "processing" ELSE row[e]]
           /\ attempts' = [e \in Events |->
                             IF e \in batch THEN attempts[e] + 1 ELSE attempts[e]]
           /\ clock' = clock \cup batch
           /\ worker' = [worker EXCEPT ![p] =
                [Stopped EXCEPT !.at = "batch", !.batch = batch,
                   !.claim = [e \in Events |-> IF e \in batch THEN attempts'[e] ELSE 0]]]
  /\ UNCHANGED <<receipts, effects, faults, overrun>>

NextEvent(p) ==
  /\ worker[p].at = "batch"
  /\ IF worker[p].batch = {}
     THEN worker' = [worker EXCEPT ![p] = Stopped]   \* wait for the ticker
     ELSE \E e \in worker[p].batch : worker' = [worker EXCEPT ![p] = Moved(p, "receipt", e, 1)]
  /\ UNCHANGED <<rowVars, receipts, effects, faults>>

-----------------------------------------------------------------------------
(* Dispatcher.processEvent: the loop over consumers *)

(* The consumer the worker is at, and the event it is called with.         *)
Current(p) == <<worker[p].next, worker[p].event>>

NextConsumer(p) ==
  worker' = [worker EXCEPT ![p] = Moved(p, "receipt", worker[p].event, worker[p].next + 1)]

ReceiptIgnored(p) ==
  /\ worker[p].at = "receipt"
  /\ \/ worker[p].next > Len(Consumers) /\ Move(p, "done")
     \/ /\ worker[p].next \in DOMAIN Consumers
        /\ worker[p].next \notin Handles[worker[p].event]
        /\ NextConsumer(p)
     \/ worker[p].next \in Handles[worker[p].event] /\ Move(p, "handle")
  /\ UNCHANGED <<rowVars, receipts, effects, faults>>

(* A consumer is skipped when it does not handle the type or has a receipt *)
(* for the event.  Looking for the receipt can fail.                       *)
HasReceipt(p) ==
  /\ worker[p].at = "receipt"
  /\ \/ worker[p].next > Len(Consumers) /\ Move(p, "done")
     \/ /\ worker[p].next \in DOMAIN Consumers
        /\ worker[p].next \notin Handles[worker[p].event] \/ Current(p) \in receipts
        /\ NextConsumer(p)
     \/ /\ worker[p].next \in Handles[worker[p].event]
        /\ Current(p) \notin receipts
        /\ Move(p, "handle")
     \/ worker[p].next \in Handles[worker[p].event] /\ Move(p, "fail")
  /\ UNCHANGED <<rowVars, receipts, effects, faults>>

HandleErrorContinues(p) ==
  /\ worker[p].at = "handle"
  /\ \/ Move(p, "record") /\ effects' = effects \cup {Current(p)}
     \/ NextConsumer(p) /\ effects' \in {effects, effects \cup {Current(p)}}
  /\ UNCHANGED <<rowVars, receipts, faults>>

(* The consumer does its work; an error may hide work that committed.      *)
Handle(p) ==
  /\ worker[p].at = "handle"
  /\ \/ Move(p, "record") /\ effects' = effects \cup {Current(p)}
     \/ Move(p, "fail") /\ effects' \in {effects, effects \cup {Current(p)}}
  /\ UNCHANGED <<rowVars, receipts, faults>>

RecordReceiptEvenOnError(p) ==
  /\ worker[p].at \in {"record", "fail"}
  /\ receipts' = receipts \cup {Current(p)}
  /\ NextConsumer(p)
  /\ UNCHANGED <<rowVars, effects, faults>>

RecordReceipt(p) ==
  /\ worker[p].at = "record"
  /\ \/ NextConsumer(p) /\ receipts' = receipts \cup {Current(p)}
     \/ Move(p, "fail") /\ UNCHANGED receipts
  /\ UNCHANGED <<rowVars, effects, faults>>

MarkCompleted(p) ==
  /\ worker[p].at = "done"
  /\ Mark(worker[p].event, "completed")
  /\ Finish(p)
  /\ UNCHANGED <<attempts, clock, receipts, effects, faults, overrun>>

FailEarly(p) ==
  LET e == worker[p].event IN
  /\ worker[p].at = "fail"
  /\ IF worker[p].claim[e] + 1 >= MaxAttempts
     THEN Mark(e, "failed") /\ UNCHANGED clock
     ELSE /\ Mark(e, "pending")
          /\ clock' = IF row[e] = "processing" THEN clock \cup {e} ELSE clock
  /\ Finish(p)
  /\ UNCHANGED <<attempts, receipts, effects, faults, overrun>>

RetryHasOwnState(p) ==
  LET e == worker[p].event IN
  /\ worker[p].at = "fail"
  /\ Mark(e, IF worker[p].claim[e] >= MaxAttempts THEN "failed" ELSE "retry")
  /\ Finish(p)
  /\ UNCHANGED <<attempts, clock, receipts, effects, faults, overrun>>

(* The attempt count of this worker's claim decides between a retry after  *)
(* a backoff and the terminal state.                                       *)
HandleFailure(p) ==
  LET e == worker[p].event IN
  /\ worker[p].at = "fail"
  /\ IF worker[p].claim[e] >= MaxAttempts
     THEN Mark(e, "failed") /\ UNCHANGED clock
     ELSE /\ Mark(e, "pending")
          /\ clock' = IF row[e] = "processing" THEN clock \cup {e} ELSE clock
  /\ Finish(p)
  /\ UNCHANGED <<attempts, receipts, effects, faults, overrun>>

(* The final update of a row fails: it is logged and the row stays.        *)
MarkFails(p) ==
  /\ faults < MaxFaults
  /\ worker[p].at \in {"done", "fail"}
  /\ Finish(p)
  /\ faults' = faults + 1
  /\ UNCHANGED <<rowVars, receipts, effects>>

(* The process dies or is stopped, and starts again; or ClaimBatch fails.  *)
Crash(p) ==
  /\ faults < MaxFaults
  /\ worker[p] # Stopped
  /\ worker' = [worker EXCEPT ![p] = Stopped]
  /\ faults' = faults + 1
  /\ UNCHANGED <<rowVars, receipts, effects>>

-----------------------------------------------------------------------------
Run(p) ==
  \/ ReleaseStale(p) \/ ClaimBatch(p) \/ NextEvent(p) \/ HasReceipt(p)
  \/ Handle(p) \/ RecordReceipt(p) \/ MarkCompleted(p) \/ HandleFailure(p)

Next ==
  \/ \E e \in Events : Publish(e) \/ Elapse(e) \/ Overrun(e)
  \/ \E p \in Workers : Run(p) \/ ReleaseFails(p) \/ MarkFails(p) \/ Crash(p)

(* A dispatcher that is up keeps polling, and clocks run.                  *)
Fairness ==
  /\ \A p \in Workers : WF_vars(Run(p))
  /\ \A e \in Events : WF_vars(Elapse(e))

Spec == Init /\ [][Next]_vars /\ Fairness

-----------------------------------------------------------------------------
(* Properties *)

WorkerType ==
  [at : WorkerStates, batch : SUBSET Events, event : Events \cup {"none"},
   next : 0 .. Len(Consumers) + 1, claim : [Events -> Nat]]

(* Rows, receipts and dispatchers have their types.                        *)
TypeOK ==
  /\ row \in [Events -> RowStates]
  /\ attempts \in [Events -> Nat]
  /\ clock \subseteq Events
  /\ receipts \subseteq (DOMAIN Consumers) \X Events
  /\ effects \subseteq (DOMAIN Consumers) \X Events
  /\ worker \in [Workers -> WorkerType]
  /\ faults \in 0 .. MaxFaults
  /\ overrun \subseteq Events

(* A completed event was handled by every consumer of its type: each one's *)
(* work has committed and its receipt is recorded, whatever crashed, was   *)
(* claimed twice or was marked by a worker that had lost its claim.        *)
CompletedMeansHandled ==
  \A e \in Events : row[e] = "completed" =>
    \A c \in Handles[e] : <<c, e>> \in receipts /\ <<c, e>> \in effects

(* A receipt is never recorded for work that has not committed; skipping a *)
(* consumer because of its receipt never loses an event.                   *)
ReceiptMeansHandled == receipts \subseteq effects

(* An event is given up on only after all the attempts it is entitled to.  *)
FailedAfterMaxAttempts ==
  \A e \in Events : row[e] = "failed" => attempts[e] >= MaxAttempts

(* A worker that lost its claim cannot bring back an event that another    *)
(* one has completed or failed, nor turn one of these into the other.      *)
OutcomeFinal ==
  [][\A e \in Events : row[e] \in {"completed", "failed"} => row'[e] = row[e]]_vars

(* Whatever crashes and errors happen, an event that was published is      *)
(* eventually completed or failed: no lease, backoff or lost update leaves *)
(* it behind.                                                              *)
EventuallyDecided ==
  \A e \in Events : row[e] = "pending" ~> row[e] \in {"completed", "failed"}

(* A consumer is called with an event that already has its receipt only    *)
(* if a worker's lease of the event ran out under it: as long as leases    *)
(* outlast the work, a receipt keeps an event that a crash, an error or    *)
(* another dispatcher delivers again from being handled again.             *)
ReceiptStopsRedelivery ==
  [][\A p \in Workers :
       /\ worker[p].at = "handle" /\ worker'[p].at = "record"
       /\ worker[p].event \notin overrun
       => Current(p) \notin receipts]_vars

(* "A returned error is retried with backoff until the claimed event's     *)
(* attempt count reaches its max attempts, after which the event is marked *)
(* terminally failed": no consumer is called beyond the last attempt.      *)
AttemptsWithinMax ==
  \A p \in Workers : worker[p].at = "handle" => worker[p].claim[worker[p].event] <= MaxAttempts

(* An event's row tells the truth about its delivery: completed means that *)
(* every consumer did its work and has a receipt for it, failed that all   *)
(* attempts were used.                                                     *)
DeliverySound ==
  /\ TypeOK
  /\ CompletedMeansHandled
  /\ ReceiptMeansHandled
  /\ FailedAfterMaxAttempts
=============================================================================
