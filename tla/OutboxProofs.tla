---------------------------- MODULE OutboxProofs ----------------------------
(***************************************************************************)
(* Safety of the outbox for any number of events, consumers, dispatchers,  *)
(* attempts and faults.                                                    *)
(***************************************************************************)
EXTENDS Outbox, TLAPS

(* Consumer c has a receipt for every event it handled before the loop got *)
(* to index n.                                                             *)
ReceiptsBelow(e, n) == \A c \in Handles[e] : c < n => <<c, e>> \in receipts

(* What a worker's place in the code says about the tables.                *)
WorkerInv(p) ==
  LET w == worker[p] IN
  /\ w.at \in {"receipt", "handle", "record", "done", "fail"} => w.event \in Events
  /\ w.at \in {"handle", "record"} => w.next \in Handles[w.event]
  /\ w.at \in {"receipt", "handle", "record"} => w.next >= 1 /\ ReceiptsBelow(w.event, w.next)
  /\ w.at = "record" => <<w.next, w.event>> \in effects
  /\ w.at = "done" => \A c \in Handles[w.event] : <<c, w.event>> \in receipts
  /\ \A e \in Events : w.claim[e] <= attempts[e]

IInv ==
  /\ TypeOK
  /\ ReceiptMeansHandled
  /\ CompletedMeansHandled
  /\ FailedAfterMaxAttempts
  /\ \A p \in Workers : WorkerInv(p)

-----------------------------------------------------------------------------
(* No row, receipt or worker exists yet.                                   *)
LEMMA InitIInv == Init => IInv
<1> SUFFICES ASSUME Init PROVE IInv
  OBVIOUS
<1>1. TypeOK
  BY OutboxAssumption DEF Init, TypeOK, WorkerType, Stopped, RowStates, WorkerStates
<1>2. ReceiptMeansHandled /\ CompletedMeansHandled /\ FailedAfterMaxAttempts
  BY DEF Init, ReceiptMeansHandled, CompletedMeansHandled, FailedAfterMaxAttempts
<1>3. \A p \in Workers : WorkerInv(p)
  BY DEF Init, WorkerInv, Stopped
<1>4. QED
  BY <1>1, <1>2, <1>3 DEF IInv

(* A worker that does not move keeps its invariant while receipts, effects *)
(* and attempt counts only grow.                                           *)
LEMMA SameWorker ==
  ASSUME NEW p \in Workers, WorkerInv(p), TypeOK, worker'[p] = worker[p],
         receipts \subseteq receipts', effects \subseteq effects',
         \A e \in Events : attempts'[e] \in Nat /\ attempts[e] <= attempts'[e]
  PROVE  WorkerInv(p)'
<1>1. \A e \in Events : worker[p].claim[e] \in Nat /\ attempts[e] \in Nat
  BY DEF TypeOK, WorkerType
<1>2. \A e, n : ReceiptsBelow(e, n) => ReceiptsBelow(e, n)'
  BY DEF ReceiptsBelow
<1>3. QED
  BY <1>1, <1>2 DEF WorkerInv

(* What a step of worker p may do to the tables without disturbing the     *)
(* invariant: the tables keep their types, receipts, effects and counts    *)
(* grow, a new receipt is for work that has committed, and a row that      *)
(* becomes completed or failed has earned it.                              *)
LEMMA StepOf ==
  ASSUME IInv, TypeOK', NEW p \in Workers,
         \A q \in Workers \ {p} : worker'[q] = worker[q],
         WorkerInv(p)',
         receipts \subseteq receipts', effects \subseteq effects', receipts' \subseteq effects',
         \A e \in Events : attempts[e] <= attempts'[e],
         \A e \in Events : row'[e] = "completed" /\ row[e] # "completed" =>
           \A c \in Handles[e] : <<c, e>> \in receipts',
         \A e \in Events : row'[e] = "failed" /\ row[e] # "failed" =>
           attempts'[e] >= MaxAttempts
  PROVE  IInv'
<1>1. \A q \in Workers : WorkerInv(q)'
  <2> TAKE q \in Workers
  <2>1. CASE q = p
    BY <2>1
  <2>2. CASE q # p
    <3>1. \A e \in Events : attempts'[e] \in Nat /\ attempts[e] <= attempts'[e]
      BY DEF TypeOK
    <3>2. WorkerInv(q) /\ TypeOK /\ worker'[q] = worker[q]
      BY <2>2 DEF IInv
    <3>3. QED
      BY <3>1, <3>2, SameWorker
  <2>3. QED
    BY <2>1, <2>2
<1>2. ReceiptMeansHandled'
  BY DEF ReceiptMeansHandled
<1>3. CompletedMeansHandled'
  BY DEF IInv, CompletedMeansHandled
<1>4. FailedAfterMaxAttempts'
  <2> SUFFICES ASSUME NEW e \in Events, row'[e] = "failed"
               PROVE  attempts'[e] >= MaxAttempts
    BY DEF FailedAfterMaxAttempts
  <2>1. attempts[e] \in Nat /\ attempts'[e] \in Nat /\ MaxAttempts \in Nat
    BY OutboxAssumption DEF IInv, TypeOK
  <2>2. row[e] = "failed" => attempts[e] >= MaxAttempts
    BY DEF IInv, FailedAfterMaxAttempts
  <2>3. QED
    BY <2>1, <2>2
<1>5. QED
  BY <1>1, <1>2, <1>3, <1>4 DEF IInv

(* A step in which no worker moves and rows only change between pending    *)
(* and processing, or clocks run out.                                      *)
LEMMA RowStep ==
  ASSUME IInv, TypeOK', UNCHANGED <<worker, receipts, effects, attempts>>,
         \A e \in Events : row'[e] \in {"completed", "failed"} => row'[e] = row[e]
  PROVE  IInv'
<1>1. \A q \in Workers : WorkerInv(q)'
  <2> TAKE q \in Workers
  <2>1. \A e \in Events : attempts'[e] \in Nat /\ attempts[e] <= attempts'[e]
    BY DEF TypeOK
  <2>2. WorkerInv(q) /\ TypeOK
    BY DEF IInv
  <2>3. QED
    BY <2>1, <2>2, SameWorker
<1>2. QED
  BY <1>1 DEF IInv, ReceiptMeansHandled, CompletedMeansHandled, FailedAfterMaxAttempts

(* Publishing, and clocks running out.                                     *)
LEMMA EventStep ==
  ASSUME IInv, NEW e \in Events, Publish(e) \/ Elapse(e) \/ Overrun(e)
  PROVE  IInv'
<1>1. TypeOK'
  <2>1. CASE Publish(e)
    BY <2>1 DEF IInv, TypeOK, Publish, RowStates
  <2>2. CASE Elapse(e)
    BY <2>2 DEF IInv, TypeOK, Elapse
  <2>3. CASE Overrun(e)
    <3>1. faults' \in 0 .. MaxFaults
      BY <2>3, OutboxAssumption DEF IInv, TypeOK, Overrun
    <3>2. QED
      BY <2>3, <3>1 DEF IInv, TypeOK, Overrun
  <2>4. QED
    BY <2>1, <2>2, <2>3
<1>2. UNCHANGED <<worker, receipts, effects, attempts>>
  BY DEF Publish, Elapse, Overrun
<1>3. \A f \in Events : row'[f] \in {"completed", "failed"} => row'[f] = row[f]
  BY DEF IInv, TypeOK, Publish, Elapse, Overrun
<1>4. QED
  BY <1>1, <1>2, <1>3, RowStep

(* A worker at rest, or between events, satisfies its invariant as long as *)
(* its claims do.                                                          *)
LEMMA Resting ==
  ASSUME NEW p \in Workers, worker'[p].at \in {"tick", "claim", "batch"},
         \A e \in Events : worker'[p].claim[e] <= attempts'[e]
  PROVE  WorkerInv(p)'
BY DEF WorkerInv

(* What a worker that moves on looks like: it has a worker's record, is    *)
(* where it moved to, keeps its claims, and leaves the others alone.       *)
LEMMA MovedWorker ==
  ASSUME IInv, NEW p \in Workers, NEW at \in WorkerStates, NEW event \in Events \cup {"none"},
         NEW next \in 0 .. Len(Consumers) + 1,
         worker' = [worker EXCEPT ![p] = Moved(p, at, event, next)],
         attempts' = attempts
  PROVE  /\ Moved(p, at, event, next) \in WorkerType
         /\ worker' \in [Workers -> WorkerType]
         /\ worker'[p].at = at /\ worker'[p].event = event /\ worker'[p].next = next
         /\ \A e \in Events : worker'[p].claim[e] <= attempts'[e]
         /\ \A q \in Workers \ {p} : worker'[q] = worker[q]
<1>1. worker \in [Workers -> WorkerType] /\ worker[p] \in WorkerType
  BY DEF IInv, TypeOK
<1>2. Moved(p, at, event, next) \in WorkerType
  BY <1>1 DEF Moved, WorkerType
<1>3. worker'[p] = Moved(p, at, event, next)
  BY <1>1
<1>4. worker'[p].at = at /\ worker'[p].event = event /\ worker'[p].next = next
      /\ worker'[p].claim = worker[p].claim
  BY <1>3 DEF Moved
<1>5. \A e \in Events : worker'[p].claim[e] <= attempts'[e]
  BY <1>4 DEF IInv, WorkerInv
<1>6. worker' \in [Workers -> WorkerType]
  BY <1>1, <1>2
<1>7. \A q \in Workers \ {p} : worker'[q] = worker[q]
  BY <1>1
<1>8. QED
  BY <1>2, <1>4, <1>5, <1>6, <1>7

(* The constants and the worker's record, typed.                           *)
LEMMA Typed ==
  ASSUME IInv, NEW p \in Workers
  PROVE  /\ Len(Consumers) \in Nat /\ DOMAIN Consumers = 1 .. Len(Consumers)
         /\ Handles \in [Events -> SUBSET (1 .. Len(Consumers))]
         /\ MaxAttempts \in Nat
         /\ worker[p].next \in 0 .. Len(Consumers) + 1
         /\ worker[p].event \in Events \cup {"none"}
         /\ worker[p].batch \subseteq Events
         /\ worker[p].claim \in [Events -> Nat]
         /\ attempts \in [Events -> Nat] /\ row \in [Events -> RowStates]
<1>1. worker[p] \in WorkerType
  BY DEF IInv, TypeOK
<1>2. QED
  BY <1>1, OutboxAssumption DEF WorkerType, IInv, TypeOK

(* tick: releasing stale rows.                                             *)
LEMMA ReleaseStep ==
  ASSUME IInv, NEW p \in Workers, ReleaseStale(p)
  PROVE  IInv'
<1>0. attempts' = attempts /\ "claim" \in WorkerStates
      /\ worker' = [worker EXCEPT ![p] = Moved(p, "claim", worker[p].event, worker[p].next)]
  BY DEF ReleaseStale, Move, WorkerStates
<1>m. /\ worker' \in [Workers -> WorkerType]
      /\ worker'[p].at = "claim"
      /\ \A e \in Events : worker'[p].claim[e] <= attempts'[e]
      /\ \A q \in Workers \ {p} : worker'[q] = worker[q]
  BY <1>0, Typed, MovedWorker, ZenonT(60)
<1>1. TypeOK'
  BY <1>m DEF IInv, TypeOK, ReleaseStale, RowStates
<1>3. WorkerInv(p)'
  BY <1>m, Resting
<1>5. \A e \in Events : attempts[e] <= attempts'[e]
  BY <1>0, Typed
<1>6. \A e \in Events : row'[e] \in {"completed", "failed"} => row'[e] = row[e]
  BY DEF IInv, TypeOK, ReleaseStale
<1>7. UNCHANGED <<receipts, effects>> /\ receipts' \subseteq effects'
  BY DEF IInv, ReceiptMeansHandled, ReleaseStale
<1>8. QED
  BY <1>1, <1>3, <1>m, <1>5, <1>6, <1>7, StepOf

(* ClaimBatch: every claim carries the attempt count it was given.         *)
LEMMA ClaimStep ==
  ASSUME IInv, NEW p \in Workers, ClaimBatch(p)
  PROVE  IInv'
<1>1. PICK batch \in SUBSET Events :
        /\ row' = [e \in Events |-> IF e \in batch THEN "processing" ELSE row[e]]
        /\ attempts' = [e \in Events |-> IF e \in batch THEN attempts[e] + 1 ELSE attempts[e]]
        /\ clock' = clock \cup batch
        /\ worker' = [worker EXCEPT ![p] =
             [Stopped EXCEPT !.at = "batch", !.batch = batch,
                !.claim = [e \in Events |-> IF e \in batch THEN attempts'[e] ELSE 0]]]
  BY DEF ClaimBatch
<1>u. UNCHANGED <<receipts, effects, faults, overrun>>
  BY DEF ClaimBatch
<1>w. worker'[p] = [at |-> "batch", batch |-> batch, event |-> "none", next |-> 0,
                    claim |-> [e \in Events |-> IF e \in batch THEN attempts'[e] ELSE 0]]
  BY <1>1 DEF IInv, TypeOK, Stopped
<1>t. attempts \in [Events -> Nat] /\ attempts' \in [Events -> Nat]
  BY <1>1 DEF IInv, TypeOK
<1>2. worker'[p] \in WorkerType
  BY <1>w, <1>t, OutboxAssumption DEF WorkerType, WorkerStates
<1>3. TypeOK'
  BY <1>1, <1>u, <1>2, <1>t DEF IInv, TypeOK, RowStates
<1>4. WorkerInv(p)'
  BY <1>w, <1>t, Resting
<1>5. \A q \in Workers \ {p} : worker'[q] = worker[q]
  BY <1>1 DEF IInv, TypeOK
<1>6. \A e \in Events : attempts[e] <= attempts'[e]
  BY <1>1, <1>t
<1>7. \A e \in Events : row'[e] \in {"completed", "failed"} => row'[e] = row[e]
  BY <1>1
<1>8. receipts' \subseteq effects'
  BY <1>u DEF IInv, ReceiptMeansHandled
<1>9. QED
  BY <1>u, <1>3, <1>4, <1>5, <1>6, <1>7, <1>8, StepOf

(* A step of worker p that touches no table.                               *)
LEMMA LocalStep ==
  ASSUME IInv, NEW p \in Workers, NEW w \in WorkerType,
         worker' = [worker EXCEPT ![p] = w], WorkerInv(p)',
         UNCHANGED <<rowVars, receipts, effects>>, faults' \in 0 .. MaxFaults
  PROVE  IInv'
<1>1. TypeOK'
  BY DEF IInv, TypeOK, rowVars
<1>2. \A q \in Workers \ {p} : worker'[q] = worker[q]
  BY DEF IInv, TypeOK
<1>3. \A e \in Events : attempts[e] <= attempts'[e]
  BY DEF IInv, TypeOK, rowVars
<1>4. receipts' \subseteq effects'
  BY DEF IInv, ReceiptMeansHandled
<1>5. UNCHANGED row
  BY DEF rowVars
<1>6. QED
  BY <1>1, <1>2, <1>3, <1>4, <1>5, StepOf

(* The next event of the batch, or the end of the tick.                    *)
LEMMA NextEventStep ==
  ASSUME IInv, NEW p \in Workers, NextEvent(p)
  PROVE  IInv'
<1>u. UNCHANGED <<rowVars, receipts, effects>> /\ faults' \in 0 .. MaxFaults
  BY DEF IInv, TypeOK, NextEvent
<1>a. attempts \in [Events -> Nat] /\ attempts' = attempts
  BY <1>u DEF IInv, TypeOK, rowVars
<1>t. worker \in [Workers -> WorkerType]
  BY DEF IInv, TypeOK
<1>1. CASE worker[p].batch = {}
  <2>1. worker' = [worker EXCEPT ![p] = Stopped] /\ Stopped \in WorkerType
    BY <1>1, Typed DEF NextEvent, Stopped, WorkerType, WorkerStates
  <2>2. worker'[p] = Stopped
    BY <2>1, <1>t
  <2>3. WorkerInv(p)'
    BY <2>2, <1>a, Resting DEF Stopped
  <2>4. QED
    BY <2>1, <2>3, <1>u, LocalStep
<1>2. CASE worker[p].batch # {}
  <2>1. PICK e \in worker[p].batch : worker' = [worker EXCEPT ![p] = Moved(p, "receipt", e, 1)]
    BY <1>2 DEF NextEvent
  <2>n. "receipt" \in WorkerStates /\ e \in Events
    BY Typed DEF WorkerStates
  <2>m. PICK m \in 0 .. Len(Consumers) + 1 : m = 1
    BY Typed
  <2>2. worker' = [worker EXCEPT ![p] = Moved(p, "receipt", e, m)]
    BY <2>1, <2>m
  <2>3. /\ Moved(p, "receipt", e, m) \in WorkerType
        /\ worker'[p].at = "receipt" /\ worker'[p].event = e /\ worker'[p].next = m
        /\ \A f \in Events : worker'[p].claim[f] <= attempts'[f]
    BY <2>2, <2>n, <1>a, MovedWorker, ZenonT(60)
  <2>4. Handles[e] \subseteq 1 .. Len(Consumers)
    BY <2>n, Typed
  <2>5. ReceiptsBelow(e, 1)'
    BY <2>4 DEF ReceiptsBelow
  <2>6. WorkerInv(p)'
    BY <2>m, <2>3, <2>5, <2>n DEF WorkerInv
  <2>7. QED
    BY <2>2, <2>3, <2>6, <1>u, LocalStep
<1>3. QED
  BY <1>1, <1>2

(* HasReceipt: before the loop moves past a consumer that handles the      *)
(* event, that consumer has a receipt.                                     *)
LEMMA HasReceiptStep ==
  ASSUME IInv, NEW p \in Workers, HasReceipt(p)
  PROVE  IInv'
<1>0. PICK e \in Events \cup {"none"}, n \in 0 .. Len(Consumers) + 1 :
        e = worker[p].event /\ n = worker[p].next
  BY Typed
<1>u. UNCHANGED <<rowVars, receipts, effects>> /\ faults' \in 0 .. MaxFaults
  BY DEF IInv, TypeOK, HasReceipt
<1>a. attempts' = attempts
  BY <1>u DEF rowVars
<1>e. e \in Events /\ n >= 1 /\ ReceiptsBelow(e, n)
  BY <1>0 DEF IInv, WorkerInv, HasReceipt
<1>h. Handles[e] \subseteq 1 .. Len(Consumers) /\ n \in Nat /\ Len(Consumers) \in Nat
      /\ n \in 0 .. Len(Consumers) + 1
  BY <1>0, <1>e, Typed
<1>b. \A k : ReceiptsBelow(e, k)' = ReceiptsBelow(e, k)
  BY <1>u DEF ReceiptsBelow
<1>1. CASE n > Len(Consumers) /\ Move(p, "done")
  <2>1. worker' = [worker EXCEPT ![p] = Moved(p, "done", e, n)] /\ "done" \in WorkerStates
    BY <1>0, <1>1 DEF Move, WorkerStates
  <2>2. /\ Moved(p, "done", e, n) \in WorkerType
        /\ worker'[p].at = "done" /\ worker'[p].event = e
        /\ \A f \in Events : worker'[p].claim[f] <= attempts'[f]
    BY <2>1, <1>a, MovedWorker, ZenonT(60)
  <2>3. \A c \in Handles[e] : <<c, e>> \in receipts'
    BY <1>1, <1>e, <1>h, <1>u DEF ReceiptsBelow
  <2>4. WorkerInv(p)'
    BY <2>2, <2>3, <1>e DEF WorkerInv
  <2>5. QED
    BY <2>1, <2>2, <2>4, <1>u, LocalStep
<1>2. CASE /\ n \in DOMAIN Consumers
           /\ n \notin Handles[e] \/ <<n, e>> \in receipts
           /\ NextConsumer(p)
  <2>0. PICK m \in 0 .. Len(Consumers) + 1 : m = n + 1
    BY <1>2, <1>h, Typed
  <2>1. worker' = [worker EXCEPT ![p] = Moved(p, "receipt", e, m)] /\ "receipt" \in WorkerStates
    BY <2>0, <1>0, <1>2 DEF NextConsumer, WorkerStates
  <2>2. /\ Moved(p, "receipt", e, m) \in WorkerType
        /\ worker' \in [Workers -> WorkerType]
        /\ worker'[p].at = "receipt" /\ worker'[p].event = e /\ worker'[p].next = m
        /\ \A f \in Events : worker'[p].claim[f] <= attempts'[f]
        /\ \A q \in Workers \ {p} : worker'[q] = worker[q]
    BY <2>1, <1>a, MovedWorker, ZenonT(60)
  <2>3. ReceiptsBelow(e, m)'
    BY <2>0, <1>2, <1>e, <1>h, <1>u DEF ReceiptsBelow
  <2>4. WorkerInv(p)'
    BY <2>0, <2>2, <2>3, <1>e, <1>h DEF WorkerInv
  <2>5. QED
    BY <2>1, <2>2, <2>4, <1>u, LocalStep
<1>3. CASE n \in Handles[e] /\ Move(p, "handle")
  <2>1. worker' = [worker EXCEPT ![p] = Moved(p, "handle", e, n)] /\ "handle" \in WorkerStates
    BY <1>0, <1>3 DEF Move, WorkerStates
  <2>2. /\ Moved(p, "handle", e, n) \in WorkerType
        /\ worker' \in [Workers -> WorkerType]
        /\ worker'[p].at = "handle" /\ worker'[p].event = e /\ worker'[p].next = n
        /\ \A f \in Events : worker'[p].claim[f] <= attempts'[f]
        /\ \A q \in Workers \ {p} : worker'[q] = worker[q]
    BY <2>1, <1>a, MovedWorker, ZenonT(60)
  <2>3. ReceiptsBelow(e, n)'
    BY <1>e, <1>b
  <2>4. WorkerInv(p)'
    BY <2>2, <2>3, <1>3, <1>e DEF WorkerInv
  <2>5. QED
    BY <2>1, <2>2, <2>4, <1>u, LocalStep
<1>4. CASE Move(p, "fail")
  <2>1. worker' = [worker EXCEPT ![p] = Moved(p, "fail", e, n)] /\ "fail" \in WorkerStates
    BY <1>0, <1>4 DEF Move, WorkerStates
  <2>2. /\ Moved(p, "fail", e, n) \in WorkerType
        /\ worker'[p].at = "fail" /\ worker'[p].event = e
        /\ \A f \in Events : worker'[p].claim[f] <= attempts'[f]
    BY <2>1, <1>a, MovedWorker, ZenonT(60)
  <2>3. WorkerInv(p)'
    BY <2>2, <1>e DEF WorkerInv
  <2>4. QED
    BY <2>1, <2>2, <2>3, <1>u, LocalStep
<1>5. QED
  BY <1>0, <1>1, <1>2, <1>3, <1>4 DEF HasReceipt, Current

(* A consumer's work commits and it moves to record its receipt, or it     *)
(* reports an error after having committed or not.                         *)
LEMMA HandleStep ==
  ASSUME IInv, NEW p \in Workers, Handle(p)
  PROVE  IInv'
<1>0. PICK e \in Events \cup {"none"}, n \in 0 .. Len(Consumers) + 1 :
        e = worker[p].event /\ n = worker[p].next
  BY Typed
<1>u. UNCHANGED <<rowVars, receipts, faults>> /\ UNCHANGED <<row, attempts, clock, overrun>>
  BY DEF Handle, rowVars
<1>e. e \in Events /\ n >= 1 /\ n \in Handles[e] /\ ReceiptsBelow(e, n)
  BY <1>0 DEF IInv, WorkerInv, Handle
<1>h. n \in DOMAIN Consumers /\ n \in 0 .. Len(Consumers) + 1
  BY <1>0, <1>e, Typed
<1>b. ReceiptsBelow(e, n)'
  BY <1>u, <1>e DEF ReceiptsBelow
<1>f. effects' \in {effects, effects \cup {<<n, e>>}}
  BY <1>0 DEF Handle, Current
<1>g. /\ effects \subseteq effects' /\ receipts' \subseteq effects'
      /\ effects' \subseteq (DOMAIN Consumers) \X Events
  BY <1>f, <1>u, <1>e, <1>h DEF IInv, TypeOK, ReceiptMeansHandled
<1>a. attempts' = attempts
  BY <1>u
<1>1. \/ Move(p, "record") /\ <<n, e>> \in effects'
      \/ Move(p, "fail")
  BY <1>0 DEF Handle, Current
<1>2. PICK at \in {"record", "fail"} :
        worker' = [worker EXCEPT ![p] = Moved(p, at, e, n)] /\ (at = "record" => <<n, e>> \in effects')
  BY <1>0, <1>1 DEF Move
<1>3. at \in WorkerStates
  BY DEF WorkerStates
<1>4. /\ worker' \in [Workers -> WorkerType]
      /\ worker'[p].at = at /\ worker'[p].event = e /\ worker'[p].next = n
      /\ \A f \in Events : worker'[p].claim[f] <= attempts'[f]
      /\ \A q \in Workers \ {p} : worker'[q] = worker[q]
  BY <1>2, <1>3, <1>a, MovedWorker, ZenonT(60)
<1>5. TypeOK'
  BY <1>4, <1>u, <1>g DEF IInv, TypeOK
<1>6. WorkerInv(p)'
  BY <1>2, <1>4, <1>e, <1>b DEF WorkerInv
<1>7. \A f \in Events : attempts[f] <= attempts'[f]
  BY <1>u, Typed
<1>8. QED
  BY <1>4, <1>5, <1>6, <1>7, <1>u, <1>g, StepOf

(* A receipt is recorded for the consumer whose work has just committed.   *)
LEMMA RecordStep ==
  ASSUME IInv, NEW p \in Workers, RecordReceipt(p)
  PROVE  IInv'
<1>0. PICK e \in Events \cup {"none"}, n \in 0 .. Len(Consumers) + 1 :
        e = worker[p].event /\ n = worker[p].next
  BY Typed
<1>u. UNCHANGED <<row, attempts, clock, effects, faults, overrun>>
  BY DEF RecordReceipt, rowVars
<1>e. e \in Events /\ n >= 1 /\ n \in Handles[e] /\ ReceiptsBelow(e, n) /\ <<n, e>> \in effects
  BY <1>0 DEF IInv, WorkerInv, RecordReceipt
<1>h. n \in 1 .. Len(Consumers) /\ DOMAIN Consumers = 1 .. Len(Consumers)
      /\ Handles[e] \subseteq 1 .. Len(Consumers) /\ Len(Consumers) \in Nat
  BY <1>0, <1>e, Typed
<1>a. attempts' = attempts
  BY <1>u
<1>7. \A f \in Events : attempts[f] <= attempts'[f]
  BY <1>u, Typed
<1>1. CASE NextConsumer(p) /\ receipts' = receipts \cup {<<n, e>>}
  <2>0. PICK m \in 0 .. Len(Consumers) + 1 : m = n + 1
    BY <1>h
  <2>1. worker' = [worker EXCEPT ![p] = Moved(p, "receipt", e, m)] /\ "receipt" \in WorkerStates
    BY <2>0, <1>0, <1>1 DEF NextConsumer, WorkerStates
  <2>2. /\ Moved(p, "receipt", e, m) \in WorkerType
        /\ worker' \in [Workers -> WorkerType]
        /\ worker'[p].at = "receipt" /\ worker'[p].event = e /\ worker'[p].next = m
        /\ \A f \in Events : worker'[p].claim[f] <= attempts'[f]
        /\ \A q \in Workers \ {p} : worker'[q] = worker[q]
    BY <2>1, <1>a, MovedWorker, ZenonT(60)
  <2>3. ReceiptsBelow(e, m)'
    BY <2>0, <1>1, <1>e, <1>h DEF ReceiptsBelow
  <2>4. WorkerInv(p)'
    BY <2>0, <2>2, <2>3, <1>e, <1>h DEF WorkerInv
  <2>5. receipts' \subseteq effects' /\ receipts' \subseteq (DOMAIN Consumers) \X Events
    BY <1>1, <1>e, <1>h, <1>u DEF IInv, TypeOK, ReceiptMeansHandled
  <2>6. TypeOK'
    BY <2>2, <2>5, <1>u DEF IInv, TypeOK
  <2>7. QED
    BY <2>2, <2>4, <2>5, <2>6, <1>1, <1>7, <1>u, StepOf
<1>2. CASE Move(p, "fail") /\ UNCHANGED receipts
  <2>1. worker' = [worker EXCEPT ![p] = Moved(p, "fail", e, n)] /\ "fail" \in WorkerStates
    BY <1>0, <1>2 DEF Move, WorkerStates
  <2>2. /\ Moved(p, "fail", e, n) \in WorkerType
        /\ worker'[p].at = "fail" /\ worker'[p].event = e
        /\ \A f \in Events : worker'[p].claim[f] <= attempts'[f]
    BY <2>1, <1>a, MovedWorker, ZenonT(60)
  <2>3. WorkerInv(p)'
    BY <2>2, <1>e DEF WorkerInv
  <2>4. faults' \in 0 .. MaxFaults /\ UNCHANGED <<rowVars, receipts, effects>>
    BY <1>2, <1>u DEF IInv, TypeOK, rowVars
  <2>5. QED
    BY <2>1, <2>2, <2>3, <2>4, LocalStep
<1>3. QED
  BY <1>0, <1>1, <1>2 DEF RecordReceipt, Current

(* A worker that leaves its event: the claim is what is left of it.        *)
LEMMA Finished ==
  ASSUME IInv, NEW p \in Workers, Finish(p), attempts' = attempts
  PROVE  /\ Moved(p, "batch", "none", 0) \in WorkerType
         /\ worker' \in [Workers -> WorkerType]
         /\ WorkerInv(p)'
         /\ \A q \in Workers \ {p} : worker'[q] = worker[q]
<1>1. PICK m \in 0 .. Len(Consumers) + 1 : m = 0
  BY Typed
<1>2. PICK none \in Events \cup {"none"} : none = "none"
  OBVIOUS
<1>3. worker' = [worker EXCEPT ![p] = Moved(p, "batch", none, m)] /\ "batch" \in WorkerStates
  BY <1>1, <1>2 DEF Finish, WorkerStates
<1>4. /\ Moved(p, "batch", none, m) \in WorkerType
      /\ worker' \in [Workers -> WorkerType]
      /\ worker'[p].at = "batch"
      /\ \A e \in Events : worker'[p].claim[e] <= attempts'[e]
      /\ \A q \in Workers \ {p} : worker'[q] = worker[q]
  BY <1>3, MovedWorker, ZenonT(60)
<1>5. WorkerInv(p)'
  BY <1>4, Resting
<1>6. QED
  BY <1>1, <1>2, <1>4, <1>5

(* MarkCompleted: the loop has been through every consumer.                *)
LEMMA CompleteStep ==
  ASSUME IInv, NEW p \in Workers, MarkCompleted(p)
  PROVE  IInv'
<1>0. PICK e : e = worker[p].event
  OBVIOUS
<1>u. UNCHANGED <<attempts, clock, receipts, effects, faults, overrun>> /\ Finish(p)
  BY DEF MarkCompleted
<1>e. e \in Events /\ \A c \in Handles[e] : <<c, e>> \in receipts
  BY <1>0 DEF IInv, WorkerInv, MarkCompleted
<1>r. row' = IF row[e] = "processing" THEN [row EXCEPT ![e] = "completed"] ELSE row
  BY <1>0 DEF MarkCompleted, Mark
<1>1. /\ worker' \in [Workers -> WorkerType] /\ WorkerInv(p)'
      /\ \A q \in Workers \ {p} : worker'[q] = worker[q]
  BY <1>u, Finished
<1>2. row' \in [Events -> RowStates] /\ \A f \in Events : row'[f] # row[f] => f = e /\ row'[f] = "completed"
  BY <1>r, <1>e, Typed DEF RowStates
<1>3. TypeOK'
  BY <1>1, <1>2, <1>u DEF IInv, TypeOK
<1>4. /\ \A f \in Events : attempts[f] <= attempts'[f]
      /\ receipts' \subseteq effects'
  BY <1>u, Typed DEF IInv, ReceiptMeansHandled
<1>5. /\ \A f \in Events : row'[f] = "completed" /\ row[f] # "completed" =>
           \A c \in Handles[f] : <<c, f>> \in receipts'
      /\ \A f \in Events : row'[f] = "failed" /\ row[f] # "failed" => attempts'[f] >= MaxAttempts
  BY <1>2, <1>e, <1>u
<1>6. QED
  BY <1>1, <1>3, <1>4, <1>5, <1>u, StepOf

(* HandleFailure: the worker's claim never runs ahead of the row's count.  *)
LEMMA FailureStep ==
  ASSUME IInv, NEW p \in Workers, HandleFailure(p)
  PROVE  IInv'
<1>0. PICK e : e = worker[p].event
  OBVIOUS
<1>u. UNCHANGED <<attempts, receipts, effects, faults, overrun>> /\ Finish(p)
  BY DEF HandleFailure
<1>e. e \in Events /\ worker[p].claim[e] <= attempts[e]
  BY <1>0 DEF IInv, WorkerInv, HandleFailure
<1>r. PICK to \in {"failed", "pending"} :
        /\ row' = IF row[e] = "processing" THEN [row EXCEPT ![e] = to] ELSE row
        /\ to = "failed" => worker[p].claim[e] >= MaxAttempts
  BY <1>0 DEF HandleFailure, Mark
<1>c. clock' \subseteq Events
  BY <1>0, <1>e DEF HandleFailure, IInv, TypeOK
<1>1. /\ worker' \in [Workers -> WorkerType] /\ WorkerInv(p)'
      /\ \A q \in Workers \ {p} : worker'[q] = worker[q]
  BY <1>u, Finished
<1>2. row' \in [Events -> RowStates] /\ \A f \in Events : row'[f] # row[f] => f = e /\ row'[f] = to
  BY <1>r, <1>e, Typed DEF RowStates
<1>3. TypeOK'
  BY <1>1, <1>2, <1>c, <1>u DEF IInv, TypeOK
<1>4. /\ \A f \in Events : attempts[f] <= attempts'[f]
      /\ receipts' \subseteq effects'
  BY <1>u, Typed DEF IInv, ReceiptMeansHandled
<1>5. worker[p].claim[e] \in Nat /\ attempts[e] \in Nat /\ MaxAttempts \in Nat
  BY <1>e, Typed
<1>6. /\ \A f \in Events : row'[f] = "completed" => row[f] = "completed"
      /\ \A f \in Events : row'[f] = "failed" /\ row[f] # "failed" => attempts'[f] >= MaxAttempts
  BY <1>2, <1>e, <1>r, <1>5, <1>u
<1>7. QED
  BY <1>1, <1>3, <1>4, <1>6, <1>u, StepOf

(* A lost row update and a crash: the worker moves, the tables stay.       *)
LEMMA FaultStep ==
  ASSUME IInv, NEW p \in Workers, ReleaseFails(p) \/ MarkFails(p) \/ Crash(p)
  PROVE  IInv'
<1>u. UNCHANGED <<rowVars, receipts, effects>> /\ attempts' = attempts
  BY DEF ReleaseFails, MarkFails, Crash, rowVars
<1>f. faults' \in 0 .. MaxFaults
  BY OutboxAssumption DEF IInv, TypeOK, ReleaseFails, MarkFails, Crash
<1>1. CASE MarkFails(p)
  <2>1. Finish(p) /\ worker' = [worker EXCEPT ![p] = Moved(p, "batch", "none", 0)]
    BY <1>1 DEF MarkFails, Finish
  <2>2. Moved(p, "batch", "none", 0) \in WorkerType /\ WorkerInv(p)'
    BY <2>1, <1>u, Finished
  <2>3. QED
    BY <2>1, <2>2, <1>u, <1>f, LocalStep
<1>2. CASE Crash(p)
  <2>1. worker' = [worker EXCEPT ![p] = Stopped] /\ Stopped \in WorkerType
    BY <1>2, Typed DEF Crash, Stopped, WorkerType, WorkerStates
  <2>2. worker'[p] = Stopped
    BY <2>1 DEF IInv, TypeOK
  <2>3. WorkerInv(p)'
    BY <2>2, <1>u, Typed, Resting DEF Stopped
  <2>4. QED
    BY <2>1, <2>3, <1>u, <1>f, LocalStep
<1>3. CASE ReleaseFails(p)
  <2>1. worker' = [worker EXCEPT ![p] = Moved(p, "claim", worker[p].event, worker[p].next)]
        /\ "claim" \in WorkerStates
    BY <1>3 DEF ReleaseFails, Move, WorkerStates
  <2>2. /\ Moved(p, "claim", worker[p].event, worker[p].next) \in WorkerType
        /\ worker'[p].at = "claim"
        /\ \A e \in Events : worker'[p].claim[e] <= attempts'[e]
    BY <2>1, <1>u, Typed, MovedWorker, ZenonT(60)
  <2>3. WorkerInv(p)'
    BY <2>2, Resting
  <2>4. QED
    BY <2>1, <2>2, <2>3, <1>u, <1>f, LocalStep
<1>4. QED
  BY <1>1, <1>2, <1>3

(* Every step preserves the invariant.                                     *)
LEMMA NextIInv == IInv /\ [Next]_vars => IInv'
<1> SUFFICES ASSUME IInv, [Next]_vars PROVE IInv'
  OBVIOUS
<1>1. CASE \E e \in Events : Publish(e) \/ Elapse(e) \/ Overrun(e)
  BY <1>1, EventStep
<1>2. CASE \E p \in Workers : Run(p) \/ ReleaseFails(p) \/ MarkFails(p) \/ Crash(p)
  BY <1>2, ReleaseStep, ClaimStep, NextEventStep, HasReceiptStep, HandleStep, RecordStep,
     CompleteStep, FailureStep, FaultStep DEF Run
<1>3. CASE UNCHANGED vars
  <2>1. UNCHANGED <<row, attempts, clock, receipts, effects, worker, faults, overrun>>
    BY <1>3 DEF vars, rowVars
  <2>2. TypeOK'
    BY <2>1 DEF IInv, TypeOK
  <2>3. QED
    BY <2>1, <2>2, RowStep
<1>4. QED
  BY <1>1, <1>2, <1>3 DEF Next

-----------------------------------------------------------------------------
(* The rows, receipts and dispatchers keep their types, for any number of  *)
(* each (eventspg.Store, events.Dispatcher).                               *)
THEOREM TypeCorrect == Spec => []TypeOK
<1>1. IInv => TypeOK
  BY DEF IInv
<1>2. QED
  BY <1>1, InitIInv, NextIInv, PTL DEF Spec

(* processEvent: an event is completed only after every consumer of its    *)
(* type has done its work and has a receipt, in spite of crashes and       *)
(* claims that overlap.                                                    *)
THEOREM CompletionCorrect == Spec => []CompletedMeansHandled
<1>1. IInv => CompletedMeansHandled
  BY DEF IInv
<1>2. QED
  BY <1>1, InitIInv, NextIInv, PTL DEF Spec

(* RecordReceipt: no receipt without the work it stands for.               *)
THEOREM ReceiptsCorrect == Spec => []ReceiptMeansHandled
<1>1. IInv => ReceiptMeansHandled
  BY DEF IInv
<1>2. QED
  BY <1>1, InitIInv, NextIInv, PTL DEF Spec

(* handleFailure: an event is given up on only after MaxAttempts attempts. *)
THEOREM FailureCorrect == Spec => []FailedAfterMaxAttempts
<1>1. IInv => FailedAfterMaxAttempts
  BY DEF IInv
<1>2. QED
  BY <1>1, InitIInv, NextIInv, PTL DEF Spec

(* Nothing but a claim or a release changes a row that is not processing,  *)
(* and these leave decided rows alone.                                     *)
LEMMA DecidedStays ==
  ASSUME TypeOK, [Next]_vars, NEW e \in Events, row[e] \in {"completed", "failed"}
  PROVE  row'[e] = row[e]
<1>t. row \in [Events -> RowStates]
  BY DEF TypeOK
<1>1. CASE \E f \in Events : Publish(f) \/ Elapse(f) \/ Overrun(f)
  BY <1>1, <1>t DEF Publish, Elapse, Overrun
<1>2. ASSUME NEW p \in Workers, Run(p) \/ ReleaseFails(p) \/ MarkFails(p) \/ Crash(p)
      PROVE  row'[e] = row[e]
  <2>1. CASE ReleaseStale(p)
    BY <2>1, <1>t DEF ReleaseStale
  <2>2. CASE ClaimBatch(p)
    <3>1. PICK batch \in SUBSET {f \in Events : row[f] = "pending" /\ f \notin clock} :
            row' = [f \in Events |-> IF f \in batch THEN "processing" ELSE row[f]]
      BY <2>2 DEF ClaimBatch
    <3>2. e \notin batch
      OBVIOUS
    <3>3. QED
      BY <3>1, <3>2
  <2>3. CASE NextEvent(p) \/ HasReceipt(p) \/ Handle(p) \/ RecordReceipt(p)
    BY <2>3 DEF NextEvent, HasReceipt, Handle, RecordReceipt, rowVars
  <2>4. CASE MarkCompleted(p) \/ HandleFailure(p)
    BY <2>4, <1>t DEF MarkCompleted, HandleFailure, Mark
  <2>5. CASE ReleaseFails(p) \/ MarkFails(p) \/ Crash(p)
    BY <2>5 DEF ReleaseFails, MarkFails, Crash, rowVars
  <2>6. QED
    BY <1>2, <2>1, <2>2, <2>3, <2>4, <2>5 DEF Run
<1>3. CASE UNCHANGED vars
  BY <1>3 DEF vars, rowVars
<1>4. QED
  BY <1>1, <1>2, <1>3 DEF Next

(* The guard of MarkCompleted, MarkRetry and MarkFailed on the processing  *)
(* state: no dispatcher undoes another one's decision.                     *)
THEOREM DecisionsFinal == Spec => OutcomeFinal
<1>1. TypeOK /\ [Next]_vars =>
        [\A e \in Events : row[e] \in {"completed", "failed"} => row'[e] = row[e]]_vars
  BY DecidedStays
<1>2. QED
  BY <1>1, TypeCorrect, PTL DEF Spec, OutcomeFinal

(* processEvent and handleFailure: for any number of events, consumers,    *)
(* dispatchers, crashes and overlapping claims, a completed or failed row  *)
(* tells the truth about what was delivered.                               *)
THEOREM DeliveryCorrect == Spec => []DeliverySound
<1>1. TypeOK /\ CompletedMeansHandled /\ ReceiptMeansHandled /\ FailedAfterMaxAttempts
        => DeliverySound
  BY DEF DeliverySound
<1>2. QED
  BY <1>1, TypeCorrect, CompletionCorrect, ReceiptsCorrect, FailureCorrect, PTL

-----------------------------------------------------------------------------
(* Redelivery.  While no lease of an event runs out under a worker, one    *)
(* worker at most has the event in hand.                                   *)

Active == {"receipt", "handle", "record", "done", "fail"}

(* The events worker p has claimed and not finished with.                  *)
Held(p) == worker[p].batch \cup (IF worker[p].at \in Active THEN {worker[p].event} ELSE {})

(* A held event's row is processing and its lease is running.              *)
Leased ==
  \A p \in Workers : \A e \in Held(p) \ overrun : row[e] = "processing" /\ e \in clock

(* No two workers hold the same event.                                     *)
Exclusive ==
  \A p, q \in Workers : \A e \in (Held(p) \cap Held(q)) \ overrun : p = q

(* The event being processed is no longer in the batch.                    *)
OutOfBatch == \A p \in Workers : worker[p].at \in Active => worker[p].event \notin worker[p].batch

(* The answer that there is no receipt is still true when it is acted on.  *)
StillUnhandled ==
  \A p \in Workers : worker[p].at = "handle" /\ worker[p].event \notin overrun
                     => Current(p) \notin receipts

LeaseInv == Leased /\ Exclusive /\ OutOfBatch /\ StillUnhandled

(* A step of worker p that takes no new event: it keeps the invariant if   *)
(* the rows still held are left alone and no receipt appears for an event  *)
(* that another worker holds.                                              *)
LEMMA HoldStep ==
  ASSUME LeaseInv, NEW p \in Workers,
         \A q \in Workers \ {p} : worker'[q] = worker[q],
         Held(p)' \subseteq Held(p), overrun \subseteq overrun',
         \A q \in Workers : \A e \in Held(q)' \ overrun' :
           row'[e] = row[e] /\ (e \in clock => e \in clock'),
         worker'[p].at \in Active => worker'[p].event \notin worker'[p].batch,
         worker'[p].at = "handle" /\ worker'[p].event \notin overrun' => Current(p)' \notin receipts',
         \A q \in Workers \ {p} : \A c : \A e \in Held(q) \ overrun' :
           <<c, e>> \in receipts' => <<c, e>> \in receipts
  PROVE  LeaseInv'
<1>1. \A q \in Workers \ {p} : Held(q)' = Held(q)
  BY DEF Held
<1>2. \A q \in Workers : Held(q)' \subseteq Held(q)
  BY <1>1
<1>3. Leased'
  BY <1>2 DEF LeaseInv, Leased
<1>4. Exclusive'
  BY <1>2 DEF LeaseInv, Exclusive
<1>5. OutOfBatch'
  BY DEF LeaseInv, OutOfBatch
<1>6. StillUnhandled'
  <2> SUFFICES ASSUME NEW q \in Workers, worker'[q].at = "handle", worker'[q].event \notin overrun'
               PROVE  Current(q)' \notin receipts'
    BY DEF StillUnhandled
  <2>1. CASE q # p
    <3>1. worker'[q] = worker[q] /\ worker[q].event \in Held(q) \ overrun'
      BY <2>1 DEF Held, Active
    <3>2. Current(q) \notin receipts
      BY <3>1 DEF LeaseInv, StillUnhandled
    <3>3. QED
      BY <2>1, <3>1, <3>2 DEF Current
  <2>2. QED
    BY <2>1
<1>7. QED
  BY <1>3, <1>4, <1>5, <1>6 DEF LeaseInv

(* A worker that moves on with an event it holds, or with none.            *)
LEMMA MovedHolds ==
  ASSUME IInv, LeaseInv, NEW p \in Workers, NEW at, NEW event, NEW next,
         worker' = [worker EXCEPT ![p] = Moved(p, at, event, next)],
         at \in Active => event \in Held(p)
  PROVE  /\ worker'[p].at = at /\ worker'[p].event = event /\ worker'[p].next = next
         /\ worker'[p].batch = worker[p].batch \ {event}
         /\ Held(p)' \subseteq Held(p)
         /\ worker'[p].at \in Active => worker'[p].event \notin worker'[p].batch
         /\ \A q \in Workers \ {p} : worker'[q] = worker[q]
<1>1. worker'[p] = Moved(p, at, event, next) /\ \A q \in Workers \ {p} : worker'[q] = worker[q]
  BY DEF IInv, TypeOK
<1>2. /\ worker'[p].at = at /\ worker'[p].event = event /\ worker'[p].next = next
      /\ worker'[p].batch = worker[p].batch \ {event}
  BY <1>1 DEF Moved
<1>3. Held(p)' \subseteq Held(p)
  BY <1>2 DEF Held
<1>4. QED
  BY <1>1, <1>2, <1>3

(* A worker that moves on and leaves the tables alone.                     *)
LEMMA MovesOn ==
  ASSUME IInv, LeaseInv, NEW p \in Workers, NEW at, NEW event, NEW next,
         worker' = [worker EXCEPT ![p] = Moved(p, at, event, next)],
         at \in Active => event \in Held(p),
         at = "handle" => <<next, event>> \notin receipts,
         UNCHANGED <<rowVars, receipts>>
  PROVE  LeaseInv'
<1>1. /\ worker'[p].at = at /\ worker'[p].event = event /\ worker'[p].next = next
      /\ Held(p)' \subseteq Held(p)
      /\ worker'[p].at \in Active => worker'[p].event \notin worker'[p].batch
      /\ \A q \in Workers \ {p} : worker'[q] = worker[q]
  BY MovedHolds, ZenonT(60)
<1>2. UNCHANGED <<row, clock, overrun, receipts>>
  BY DEF rowVars
<1>3. worker'[p].at = "handle" => Current(p)' \notin receipts'
  BY <1>1, <1>2 DEF Current
<1>4. QED
  BY <1>1, <1>2, <1>3, HoldStep

(* A worker that starts again holds nothing.                               *)
LEMMA Restarts ==
  ASSUME IInv, LeaseInv, NEW p \in Workers, worker' = [worker EXCEPT ![p] = Stopped],
         UNCHANGED <<rowVars, receipts>>
  PROVE  LeaseInv'
<1>1. worker'[p] = Stopped /\ \A q \in Workers \ {p} : worker'[q] = worker[q]
  BY DEF IInv, TypeOK
<1>2. worker'[p].at = "tick" /\ worker'[p].batch = {}
  BY <1>1 DEF Stopped
<1>3. Held(p)' = {} /\ worker'[p].at \notin Active
  BY <1>2 DEF Held, Active
<1>4. UNCHANGED <<row, clock, overrun, receipts>>
  BY DEF rowVars
<1>5. QED
  BY <1>1, <1>2, <1>3, <1>4, HoldStep

(* Publishing and clocks: the lease of a held event is not among those     *)
(* that elapse, and one that is overrun is set aside.                      *)
LEMMA EventLease ==
  ASSUME IInv, LeaseInv, NEW e \in Events, Publish(e) \/ Elapse(e) \/ Overrun(e)
  PROVE  LeaseInv'
<1>1. worker' = worker /\ receipts' = receipts /\ overrun \subseteq overrun'
  BY DEF Publish, Elapse, Overrun
<1>2. \A q \in Workers : Held(q)' = Held(q) /\ Current(q)' = Current(q)
  BY <1>1 DEF Held, Current
<1>3. ASSUME NEW q \in Workers, NEW f \in Held(q) \ overrun'
      PROVE  row'[f] = row[f] /\ (f \in clock => f \in clock')
  <2>1. row[f] = "processing"
    BY <1>1, <1>3 DEF LeaseInv, Leased
  <2>2. CASE Publish(e)
    BY <2>1, <2>2 DEF Publish, IInv, TypeOK
  <2>3. CASE Elapse(e)
    <3>1. Held(q) \subseteq worker[q].batch \cup {worker[q].event}
      BY DEF Held
    <3>2. f # e
      BY <2>3, <3>1 DEF Elapse, Busy
    <3>3. QED
      BY <2>3, <3>2 DEF Elapse
  <2>4. CASE Overrun(e)
    BY <2>4, <1>3 DEF Overrun
  <2>5. QED
    BY <2>2, <2>3, <2>4
<1>4. Leased'
  BY <1>1, <1>2, <1>3 DEF LeaseInv, Leased
<1>5. Exclusive' /\ OutOfBatch' /\ StillUnhandled'
  BY <1>1, <1>2 DEF LeaseInv, Exclusive, OutOfBatch, StillUnhandled
<1>6. QED
  BY <1>4, <1>5 DEF LeaseInv

(* Releasing takes only rows whose lease has run out.                      *)
LEMMA ReleaseLease ==
  ASSUME IInv, LeaseInv, NEW p \in Workers, ReleaseStale(p)
  PROVE  LeaseInv'
<1>1. worker' = [worker EXCEPT ![p] = Moved(p, "claim", worker[p].event, worker[p].next)]
      /\ "claim" \notin Active
  BY DEF ReleaseStale, Move, Active
<1>2. /\ worker'[p].at = "claim" /\ Held(p)' \subseteq Held(p)
      /\ worker'[p].at \in Active => worker'[p].event \notin worker'[p].batch
      /\ \A q \in Workers \ {p} : worker'[q] = worker[q]
  BY <1>1, MovedHolds, Zenon
<1>3. UNCHANGED <<clock, receipts, overrun>>
  BY DEF ReleaseStale
<1>4. \A q \in Workers : Held(q)' \subseteq Held(q) /\ Held(q) \subseteq Events \cup {"none"}
  BY <1>2, Typed DEF Held
<1>5. ASSUME NEW q \in Workers, NEW f \in Held(q)' \ overrun'
      PROVE  row'[f] = row[f] /\ (f \in clock => f \in clock')
  <2>1. f \in Held(q) \ overrun /\ row[f] = "processing" /\ f \in clock
    BY <1>3, <1>4, <1>5 DEF LeaseInv, Leased
  <2>2. f \in Events
    BY <2>1, Typed DEF Held, IInv, TypeOK
  <2>3. QED
    BY <2>1, <2>2, <1>3 DEF ReleaseStale
<1>6. QED
  BY <1>2, <1>3, <1>5, HoldStep

(* A claimed row was pending, so no worker had it.                         *)
LEMMA ClaimLease ==
  ASSUME IInv, LeaseInv, NEW p \in Workers, ClaimBatch(p)
  PROVE  LeaseInv'
<1>1. PICK batch \in SUBSET {e \in Events : row[e] = "pending" /\ e \notin clock} :
        /\ row' = [e \in Events |-> IF e \in batch THEN "processing" ELSE row[e]]
        /\ clock' = clock \cup batch
        /\ worker' = [worker EXCEPT ![p] =
             [Stopped EXCEPT !.at = "batch", !.batch = batch,
                !.claim = [e \in Events |-> IF e \in batch THEN attempts'[e] ELSE 0]]]
  BY DEF ClaimBatch
<1>2. UNCHANGED <<receipts, overrun>>
  BY DEF ClaimBatch
<1>3. worker'[p].at = "batch" /\ worker'[p].batch = batch
      /\ \A q \in Workers \ {p} : worker'[q] = worker[q]
  BY <1>1 DEF IInv, TypeOK, Stopped
<1>4. Held(p)' = batch /\ \A q \in Workers \ {p} : Held(q)' = Held(q)
  BY <1>3 DEF Held, Active
<1>5. \A q \in Workers : \A e \in Held(q) \ overrun :
        row[e] = "processing" /\ e \in clock /\ e \notin batch /\ e \in Events
  BY DEF LeaseInv, Leased, IInv, TypeOK
<1>6. Leased'
  <2> SUFFICES ASSUME NEW q \in Workers, NEW e \in Held(q)' \ overrun'
               PROVE  row'[e] = "processing" /\ e \in clock'
    BY DEF Leased
  <2>1. CASE q = p
    BY <2>1, <1>1, <1>4
  <2>2. CASE q # p
    BY <2>2, <1>1, <1>2, <1>4, <1>5
  <2>3. QED
    BY <2>1, <2>2
<1>7. Exclusive'
  BY <1>2, <1>4, <1>5 DEF LeaseInv, Exclusive
<1>8. OutOfBatch' /\ StillUnhandled'
  BY <1>2, <1>3 DEF LeaseInv, OutOfBatch, StillUnhandled, Active, Current
<1>9. QED
  BY <1>6, <1>7, <1>8 DEF LeaseInv

(* The steps of processEvent up to the receipt.                            *)
LEMMA ProcessLease ==
  ASSUME IInv, LeaseInv, NEW p \in Workers,
         NextEvent(p) \/ HasReceipt(p) \/ Handle(p)
  PROVE  LeaseInv'
<1>1. worker[p].at \in Active => worker[p].event \in Held(p)
  BY DEF Held
<1>u. UNCHANGED <<rowVars, receipts>>
  BY DEF NextEvent, HasReceipt, Handle
<1>2. CASE NextEvent(p)
  <2>1. CASE worker[p].batch = {}
    BY <1>2, <2>1, <1>u, Restarts DEF NextEvent
  <2>2. CASE worker[p].batch # {}
    <3>1. PICK e \in worker[p].batch : worker' = [worker EXCEPT ![p] = Moved(p, "receipt", e, 1)]
      BY <1>2, <2>2 DEF NextEvent
    <3>2. e \in Held(p)
      BY DEF Held
    <3>3. QED
      BY <3>1, <3>2, <1>u, MovesOn
  <2>3. QED
    BY <2>1, <2>2
<1>3. CASE HasReceipt(p)
  <2>1. worker[p].event \in Held(p)
    BY <1>1, <1>3 DEF HasReceipt, Active
  <2>2. \E at, n :
          /\ at \in Active
          /\ worker' = [worker EXCEPT ![p] = Moved(p, at, worker[p].event, n)]
          /\ at = "handle" => <<n, worker[p].event>> \notin receipts
    BY <1>3 DEF HasReceipt, Move, NextConsumer, Current, Active
  <2>3. QED
    BY <2>1, <2>2, <1>u, MovesOn
<1>4. CASE Handle(p)
  <2>1. worker[p].event \in Held(p)
    BY <1>1, <1>4 DEF Handle, Active
  <2>2. \E at, n :
          /\ at \in Active
          /\ worker' = [worker EXCEPT ![p] = Moved(p, at, worker[p].event, n)]
          /\ at # "handle"
    BY <1>4 DEF Handle, Move, Active
  <2>3. QED
    BY <2>1, <2>2, <1>u, MovesOn
<1>5. QED
  BY <1>2, <1>3, <1>4

(* A receipt is recorded by the one worker that holds the event.           *)
LEMMA RecordLease ==
  ASSUME IInv, LeaseInv, NEW p \in Workers, RecordReceipt(p)
  PROVE  LeaseInv'
<1>1. worker[p].event \in Held(p)
  BY DEF RecordReceipt, Held, Active
<1>u. UNCHANGED <<rowVars, effects, faults>> /\ UNCHANGED <<row, clock, overrun>>
  BY DEF RecordReceipt, rowVars
<1>2. CASE Move(p, "fail") /\ UNCHANGED receipts
  BY <1>1, <1>2, <1>u, MovesOn DEF Move
<1>3. CASE NextConsumer(p) /\ receipts' = receipts \cup {Current(p)}
  <2>1. PICK n : worker' = [worker EXCEPT ![p] = Moved(p, "receipt", worker[p].event, n)]
    BY <1>3 DEF NextConsumer
  <2>2. /\ worker'[p].at = "receipt" /\ Held(p)' \subseteq Held(p)
        /\ worker'[p].at \in Active => worker'[p].event \notin worker'[p].batch
        /\ \A q \in Workers \ {p} : worker'[q] = worker[q]
    BY <2>1, <1>1, MovedHolds, ZenonT(60)
  <2>3. \A q \in Workers \ {p} : worker[p].event \notin Held(q) \ overrun'
    BY <1>1, <1>u DEF LeaseInv, Exclusive
  <2>4. \A q \in Workers \ {p} : \A c : \A e \in Held(q) \ overrun' :
          <<c, e>> \in receipts' => <<c, e>> \in receipts
    BY <2>3, <1>3 DEF Current
  <2>5. QED
    BY <2>2, <2>4, <1>u, HoldStep
<1>4. QED
  BY <1>2, <1>3 DEF RecordReceipt

(* A decision is about an event the worker no longer holds, and which no   *)
(* other holds.                                                            *)
LEMMA FinishLease ==
  ASSUME IInv, LeaseInv, NEW p \in Workers, MarkCompleted(p) \/ HandleFailure(p)
  PROVE  LeaseInv'
<1>1. worker[p].at \in Active /\ worker[p].event \in Held(p)
      /\ worker[p].event \notin worker[p].batch
  BY DEF MarkCompleted, HandleFailure, Held, Active, LeaseInv, OutOfBatch
<1>2. worker' = [worker EXCEPT ![p] = Moved(p, "batch", "none", 0)] /\ "batch" \notin Active
  BY DEF MarkCompleted, HandleFailure, Finish, Active
<1>3. /\ worker'[p].at = "batch" /\ Held(p)' \subseteq Held(p)
      /\ worker'[p].batch = worker[p].batch \ {"none"}
      /\ worker'[p].at \in Active => worker'[p].event \notin worker'[p].batch
      /\ \A q \in Workers \ {p} : worker'[q] = worker[q]
  BY <1>2, MovedHolds, Zenon
<1>4. UNCHANGED <<receipts, overrun>> /\ clock \subseteq clock'
      /\ \A f \in Events : f # worker[p].event => row'[f] = row[f]
  BY Typed DEF MarkCompleted, HandleFailure, Mark
<1>5. \A q \in Workers : worker[p].event \notin Held(q)' \ overrun'
  <2> TAKE q \in Workers
  <2>1. CASE q = p
    BY <2>1, <1>1, <1>2, <1>3 DEF Held
  <2>2. CASE q # p
    <3>1. Held(q)' = Held(q)
      BY <2>2, <1>3 DEF Held
    <3>2. QED
      BY <2>2, <3>1, <1>1, <1>4 DEF LeaseInv, Exclusive
  <2>3. QED
    BY <2>1, <2>2
<1>6. \A q \in Workers : Held(q)' \subseteq Held(q)
  BY <1>3 DEF Held
<1>7. \A q \in Workers : \A f \in Held(q)' \ overrun' :
        row'[f] = row[f] /\ (f \in clock => f \in clock')
  BY <1>4, <1>5, <1>6 DEF LeaseInv, Leased, IInv, TypeOK
<1>8. QED
  BY <1>3, <1>4, <1>7, HoldStep

(* A failed release, a lost row update, a crash.                           *)
LEMMA FaultLease ==
  ASSUME IInv, LeaseInv, NEW p \in Workers, ReleaseFails(p) \/ MarkFails(p) \/ Crash(p)
  PROVE  LeaseInv'
<1>u. UNCHANGED <<rowVars, receipts>>
  BY DEF ReleaseFails, MarkFails, Crash
<1>1. CASE Crash(p)
  BY <1>1, <1>u, Restarts DEF Crash
<1>2. CASE ReleaseFails(p) \/ MarkFails(p)
  <2>1. \E at, e, n : /\ worker' = [worker EXCEPT ![p] = Moved(p, at, e, n)]
                      /\ at \notin Active /\ at # "handle"
    BY <1>2 DEF ReleaseFails, MarkFails, Move, Finish, Active
  <2>2. QED
    BY <2>1, <1>u, MovesOn
<1>3. QED
  BY <1>1, <1>2

(* Nobody holds anything at the start, and every step keeps the leases.    *)
LEMMA LeaseInvariance == Spec => [](IInv /\ LeaseInv)
<1>1. Init => LeaseInv
  BY DEF Init, Stopped, LeaseInv, Leased, Exclusive, OutOfBatch, StillUnhandled, Held, Active
<1>2. IInv /\ LeaseInv /\ [Next]_vars => LeaseInv'
  <2> SUFFICES ASSUME IInv, LeaseInv, [Next]_vars PROVE LeaseInv'
    OBVIOUS
  <2>1. CASE \E e \in Events : Publish(e) \/ Elapse(e) \/ Overrun(e)
    BY <2>1, EventLease
  <2>2. CASE \E p \in Workers : Run(p) \/ ReleaseFails(p) \/ MarkFails(p) \/ Crash(p)
    BY <2>2, ReleaseLease, ClaimLease, ProcessLease, RecordLease, FinishLease, FaultLease DEF Run
  <2>3. CASE UNCHANGED vars
    BY <2>3 DEF vars, rowVars, LeaseInv, Leased, Exclusive, OutOfBatch, StillUnhandled, Held, Current
  <2>4. QED
    BY <2>1, <2>2, <2>3 DEF Next
<1>3. QED
  BY <1>1, <1>2, InitIInv, NextIInv, PTL DEF Spec

(* processEvent: whatever crashes, fails or is claimed by another          *)
(* dispatcher, a consumer that has a receipt for an event is not called    *)
(* with it again unless a lease of the event ran out under a worker.       *)
THEOREM RedeliveryCorrect == Spec => ReceiptStopsRedelivery
<1>1. LeaseInv => [\A p \in Workers :
                     /\ worker[p].at = "handle" /\ worker'[p].at = "record"
                     /\ worker[p].event \notin overrun
                     => Current(p) \notin receipts]_vars
  BY DEF LeaseInv, StillUnhandled
<1>2. QED
  BY <1>1, LeaseInvariance, PTL DEF ReceiptStopsRedelivery
=============================================================================
