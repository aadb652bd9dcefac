------------------------ MODULE DeliveryQueueProofs ------------------------
(***************************************************************************)
(* Theorems about DeliveryQueue, for every set of destinations, copies,    *)
(* threads and tokens and every value of the settings.                     *)
(***************************************************************************)
EXTENDS DeliveryQueue, TLAPS

----------------------------------------------------------------------------
(***************************************************************************)
(* Type correctness.                                                       *)
(***************************************************************************)
\* The smaller of two naturals is a natural.
LEMMA SmallerType ==
  ASSUME NEW m \in Nat, NEW n \in Nat
  PROVE  Smaller(m, n) \in Nat
BY DEF Smaller

\* A thread without a claim has a well-typed record.
LEMMA NoClaimType == NoClaim \in Claim
BY DEF NoClaim, Claim

\* The initial state has the right types.
LEMMA InitType == Init => TypeOK
BY NoClaimType DEF Init, TypeOK, Status, ReconcileState, Instant

\* Going idle keeps the types of the thread's variables.
LEMMA GoIdleType ==
  ASSUME TypeOK, NEW w \in Workers, GoIdle(w)
  PROVE  /\ pc' \in [Workers -> {"idle", "claiming", "sending", "responded", "recording"}]
         /\ claim' \in [Workers -> Claim]
         /\ lost' \in [Workers -> BOOLEAN]
         /\ result' \in [Workers -> {"none", "success", "failure"}]
         /\ late' \in [Workers -> BOOLEAN]
         /\ stale' \in [Workers -> BOOLEAN]
         /\ UNCHANGED <<view, overlap>>
BY NoClaimType DEF GoIdle, TypeOK

\* The housekeeping keeps the types of the rows.
LEMMA TidyType ==
  ASSUME TypeOK, NEW Expired \in SUBSET Copies, TidyRows(Expired)
  PROVE  /\ status' \in [Copies -> Status]
         /\ claim_token' \in [Copies -> Tokens \cup {Null}]
         /\ lease' \in [Copies -> Instant]
         /\ due' \in [Copies -> BOOLEAN]
         /\ UNCHANGED <<destination_seq, copy_generation, attempts,
                        consecutive_failures, deliver_by, delivered_at,
                        reconcile_state, requeue_count>>
<1>1. status' \in [Copies -> Status]
  BY DEF TidyRows, TypeOK, Status
<1>2. lease' \in [Copies -> Instant]
  BY DEF TidyRows, TypeOK, Instant
<1>3. claim_token' \in [Copies -> Tokens \cup {Null}]
  BY DEF TidyRows, TypeOK
<1>4. due' \in [Copies -> BOOLEAN]
  BY DEF TidyRows, TypeOK
<1> QED
  BY <1>1, <1>2, <1>3, <1>4 DEF TidyRows

\* So does the snapshot, which is a set of copies.
LEMMA SnapshotType ==
  ASSUME TypeOK, NEW w \in Workers, NEW Expired \in SUBSET Copies,
         TakeSnapshot(w, Expired)
  PROVE  TypeOK'
<1>1. \A d \in Dests : Line(Expired, d) \in SUBSET Copies
  BY DEF Line, InLine, Waiting, Queued, Reaped, InFlight
<1>2. /\ pc' \in [Workers -> {"idle", "claiming", "sending", "responded", "recording"}]
      /\ view' \in [Workers -> SUBSET Copies]
  <2>1. CASE UNCHANGED <<pc, view>>
    BY <2>1 DEF TypeOK
  <2>2. CASE ~UNCHANGED <<pc, view>>
    <3>1. PICK d \in Dests : /\ pc' = [pc EXCEPT ![w] = "claiming"]
                             /\ view' = [view EXCEPT ![w] = Line(Expired, d)]
      BY <2>2 DEF TakeSnapshot
    <3> QED
      BY <1>1, <3>1 DEF TypeOK
  <2> QED
    BY <2>1, <2>2
<1>3. passed_over' \in SUBSET Copies
  BY DEF TakeSnapshot, TypeOK, Overdue, Queued, Reaped
<1>4. TidyRows(Expired)
  BY DEF TakeSnapshot
<1>5. /\ UNCHANGED <<dest_status, failure_count, recoverable_at, confirmed,
                     generation, paused, next_event_seq>>
      /\ UNCHANGED <<claim, overlap, lost, result, late, stale>>
      /\ UNCHANGED <<found, exhausted, operator_calls, faults>>
  BY DEF TakeSnapshot, destVars, resultVars, sweepVars, boundVars
<1> QED
  BY <1>2, <1>3, <1>4, <1>5, TidyType DEF TypeOK

\* The pick keeps the types.
LEMMA ClaimType ==
  ASSUME TypeOK, NEW w \in Workers, ClaimNextEvent(w)
  PROVE  TypeOK'
<1>1. ASSUME NEW c \in Copies, NEW t \in Tokens, ClaimCopy(w, c, t)
      PROVE  TypeOK'
  <2>1. /\ status' \in [Copies -> Status]
        /\ lease' \in [Copies -> Instant]
        /\ claim_token' \in [Copies -> Tokens \cup {Null}]
    BY <1>1 DEF ClaimCopy, TypeOK, Status, Instant
  <2>2. attempts' \in [Copies -> Nat]
    <3>1. attempts[c] + 1 \in Nat /\ FailureThreshold + 1 \in Nat
      BY QueueAssumption DEF TypeOK
    <3>2. Smaller(attempts[c] + 1, FailureThreshold + 1) \in Nat
      BY <3>1, SmallerType
    <3> QED
      BY <1>1, <3>2 DEF ClaimCopy, TypeOK
  <2>3. /\ dest_status' \in [Dests -> {"active", "isolated"}]
        /\ failure_count' \in [Dests -> Nat]
        /\ recoverable_at' \in [Dests -> Instant]
    BY <1>1, QueueAssumption DEF ClaimCopy, TypeOK, Instant
  <2>4. pc' \in [Workers -> {"idle", "claiming", "sending", "responded", "recording"}]
    BY <1>1 DEF ClaimCopy, TypeOK
  <2>5. claim' \in [Workers -> Claim]
    BY <1>1, <2>2, QueueAssumption DEF ClaimCopy, TypeOK, Claim
  <2>6. /\ view' \in [Workers -> SUBSET Copies]
        /\ overlap' \in [Workers -> SUBSET Copies]
        /\ passed_over' \in SUBSET Copies
    BY <1>1 DEF ClaimCopy, TypeOK, Passed
  <2>7. /\ UNCHANGED <<destination_seq, copy_generation, consecutive_failures,
                       due, deliver_by, delivered_at, reconcile_state,
                       requeue_count>>
        /\ UNCHANGED <<confirmed, generation, paused, next_event_seq>>
        /\ UNCHANGED <<lost, result, late, stale, found, exhausted,
                       operator_calls, faults>>
    BY <1>1 DEF ClaimCopy, resultVars, sweepVars, boundVars
  <2> QED
    BY <2>1, <2>2, <2>3, <2>4, <2>5, <2>6, <2>7 DEF TypeOK
<1>2. CASE ClaimNothing(w)
  BY <1>2 DEF ClaimNothing, TypeOK, destVars, copyVars, resultVars, sweepVars, boundVars
<1> QED
  BY <1>1, <1>2 DEF ClaimNextEvent

\* Closing a claim keeps the types, whatever row it is.
LEMMA CloseClaimType ==
  ASSUME TypeOK, NEW c, NEW s \in Status, CloseClaim(c, s)
  PROVE  /\ status' \in [Copies -> Status]
         /\ claim_token' \in [Copies -> Tokens \cup {Null}]
         /\ lease' \in [Copies -> Instant]
         /\ UNCHANGED <<destination_seq, copy_generation, attempts,
                        deliver_by, requeue_count>>
BY DEF CloseClaim, TypeOK, Instant

\* Each write of record_result keeps the types.
LEMMA RecordWriteType ==
  ASSUME TypeOK, NEW w \in Workers, RecordWrite(w)
  PROVE  TypeOK'
<1>0. GoIdle(w) /\ UNCHANGED <<found, exhausted, passed_over, operator_calls, faults>>
  BY DEF RecordWrite, sweepVars, boundVars
<1> DEFINE c == claim[w].copy
<1>1. CASE WriteSuccess(w)
  <2>1. CloseClaim(c, "delivered") /\ "delivered" \in Status
    BY <1>1 DEF WriteSuccess, Status
  <2> QED
    BY <1>0, <1>1, <2>1, GoIdleType, CloseClaimType
    DEF WriteSuccess, TypeOK, ReconcileState
<1>2. CASE WriteCutoff(w)
  <2>1. CloseClaim(c, "deadline_expired") /\ "deadline_expired" \in Status
    BY <1>2 DEF WriteCutoff, Status
  <2> QED
    BY <1>0, <1>2, <2>1, GoIdleType, CloseClaimType DEF WriteCutoff, TypeOK, destVars
<1>3. CASE WriteUncharged(w)
  <2>1. PICK s \in Status : CloseClaim(c, s)
    BY <1>3 DEF WriteUncharged, Status
  <2> QED
    BY <1>0, <1>3, <2>1, GoIdleType, CloseClaimType DEF WriteUncharged, TypeOK, destVars
<1>4. CASE WriteFailure(w)
  <2>1. PICK s \in Status : CloseClaim(c, s)
    BY <1>4 DEF WriteFailure, Status
  <2>2. RecoverableAt(w) \in Instant
    BY DEF RecoverableAt, Instant
  <2>3. consecutive_failures' \in [Copies -> Nat]
    <3>1. consecutive_failures' = [x \in Copies |->
                                     IF x = c THEN consecutive_failures[x] + 1
                                     ELSE consecutive_failures[x]]
      BY <1>4 DEF WriteFailure, TypeOK
    <3> QED
      BY <3>1 DEF TypeOK
  <2>7. due' \in [Copies -> BOOLEAN]
    BY <1>4 DEF WriteFailure, TypeOK
  <2>4. failure_count' \in [Dests -> Nat]
    <3>1. failure_count' = [d \in Dests |->
                              IF d = DestOf[c]
                              THEN IF ShouldDeadLetter(w) THEN 0
                                   ELSE failure_count[d] + 1
                              ELSE failure_count[d]]
      BY <1>4 DEF WriteFailure, TypeOK
    <3> QED
      BY <3>1 DEF TypeOK
  <2>5. dest_status' \in [Dests -> {"active", "isolated"}]
    <3>1. dest_status' = [d \in Dests |->
                            IF d = DestOf[c]
                            THEN IF ShouldDeadLetter(w) THEN "active"
                                 ELSE IF ReachesThreshold(DestOf[c])
                                 THEN "isolated" ELSE dest_status[d]
                            ELSE dest_status[d]]
      BY <1>4 DEF WriteFailure, TypeOK
    <3> QED
      BY <3>1 DEF TypeOK
  <2>6. recoverable_at' \in [Dests -> Instant]
    <3>1. Null \in Instant
      BY DEF Instant
    <3> QED
      BY <1>4, <2>2, <3>1 DEF WriteFailure, TypeOK
  <2> QED
    BY <1>0, <1>4, <2>1, <2>3, <2>4, <2>5, <2>6, <2>7, GoIdleType, CloseClaimType
    DEF WriteFailure, TypeOK
<1>5. CASE WriteRefused(w)
  BY <1>0, <1>5, GoIdleType DEF WriteRefused, TypeOK, destVars, copyVars
<1> QED
  BY <1>1, <1>2, <1>3, <1>4, <1>5 DEF RecordWrite

\* Every step of a thread keeps the types.
LEMMA WorkerType ==
  ASSUME TypeOK, NEW w \in Workers, WorkerStep(w)
  PROVE  TypeOK'
<1>1. CASE Heartbeat(w)
  <2>1. lease' \in [Copies -> Instant]
    BY <1>1 DEF Heartbeat, TypeOK, Instant
  <2>2. lost' \in [Workers -> BOOLEAN]
    BY <1>1 DEF Heartbeat, TypeOK
  <2> QED
    BY <1>1, <2>1, <2>2 DEF Heartbeat, TypeOK, destVars, claimVars, sweepVars, boundVars
<1>2. CASE \E r \in {"success", "failure"} : Deliver(w, r)
  BY <1>2 DEF Deliver, TypeOK, destVars, copyVars, claimVars, sweepVars, boundVars
<1>3. CASE RecordCheck(w)
  <2>1. CASE GoIdle(w)
    BY <1>3, <2>1, GoIdleType
    DEF RecordCheck, TypeOK, destVars, copyVars, claimVars, sweepVars, boundVars
  <2>2. CASE ~GoIdle(w)
    <3>1. pc' \in [Workers -> {"idle", "claiming", "sending", "responded", "recording"}]
      <4>1. pc' = [pc EXCEPT ![w] = "recording"]
        BY <1>3, <2>2 DEF RecordCheck
      <4> QED
        BY <4>1 DEF TypeOK
    <3>2. stale' \in [Workers -> BOOLEAN]
      <4>1. PICK b \in BOOLEAN : stale' = [stale EXCEPT ![w] = b]
        BY <1>3, <2>2 DEF RecordCheck
      <4> QED
        BY <4>1 DEF TypeOK
    <3> QED
      BY <1>3, <2>2, <3>1, <3>2
      DEF RecordCheck, TypeOK, destVars, copyVars, claimVars, sweepVars, boundVars
  <2> QED
    BY <2>1, <2>2
<1>4. CASE WorkerDies(w)
  BY <1>4, GoIdleType DEF WorkerDies, TypeOK, destVars, copyVars, sweepVars
<1> QED
  BY <1>1, <1>2, <1>3, <1>4, SnapshotType, ClaimType, RecordWriteType DEF WorkerStep

\* A copy put back into the queue keeps the types.
LEMMA BackToQueueType ==
  ASSUME TypeOK, NEW S, BackToQueue(S)
  PROVE  /\ status' \in [Copies -> Status]
         /\ reconcile_state' \in [Copies -> ReconcileState]
         /\ due' \in [Copies -> BOOLEAN]
         /\ claim_token' \in [Copies -> Tokens \cup {Null}]
         /\ lease' \in [Copies -> Instant]
         /\ UNCHANGED <<destination_seq, copy_generation, attempts,
                        deliver_by, delivered_at>>
         /\ UNCHANGED <<dest_status, failure_count, recoverable_at, confirmed,
                        generation, paused, next_event_seq>>
         /\ UNCHANGED <<pc, view, claim, overlap, lost, result, late, stale,
                        found, exhausted, passed_over>>
<1>1. status' \in [Copies -> Status]
  BY DEF BackToQueue, TypeOK, Status
<1>2. reconcile_state' \in [Copies -> ReconcileState]
  BY DEF BackToQueue, TypeOK, ReconcileState
<1>3. due' \in [Copies -> BOOLEAN]
  BY DEF BackToQueue, TypeOK
<1>4. claim_token' \in [Copies -> Tokens \cup {Null}]
  BY DEF BackToQueue, ReleaseClaims, TypeOK
<1>5. lease' \in [Copies -> Instant]
  BY DEF BackToQueue, ReleaseClaims, TypeOK, Instant
<1> QED
  BY <1>1, <1>2, <1>3, <1>4, <1>5 DEF BackToQueue, destVars, processVars,
       workerVars, claimVars, resultVars, sweepVars

\* Counting an operator call keeps the bounds naturals.
LEMMA OperatorCallType ==
  ASSUME TypeOK, OperatorCall
  PROVE  operator_calls' \in Nat /\ faults' \in Nat
BY DEF OperatorCall, TypeOK

\* Requeueing keeps the types.
LEMMA RequeueType ==
  ASSUME TypeOK, NEW S, Requeue(S)
  PROVE  TypeOK'
<1>1. BackToQueue(S) /\ OperatorCall /\ UNCHANGED consecutive_failures
  BY DEF Requeue
<1>2. \A x \in Copies : Smaller(requeue_count[x] + 1, MaxRequeueCycles) \in Nat
  BY QueueAssumption DEF TypeOK, Smaller
<1>3. requeue_count' \in [Copies -> Nat]
  BY <1>2 DEF Requeue, TypeOK
<1> QED
  BY <1>1, <1>3, BackToQueueType, OperatorCallType DEF TypeOK

\* Reconciling a copy keeps the types.
LEMMA ConcludeType ==
  ASSUME TypeOK, NEW c, NEW outcome \in ReconcileState, NEW parked,
         Conclude(c, outcome, parked)
  PROVE  TypeOK'
BY
DEF Conclude, TypeOK, Status, destVars, processVars, workerVars, claimVars, resultVars,
    sweepVars, boundVars

\* Every step on one copy keeps the types.
LEMMA CopyType ==
  ASSUME TypeOK, NEW c \in Copies, CopyStep(c)
  PROVE  TypeOK'
<1>1. CASE StoreEvent(c)
  <2>1. DestOf[c] \in Dests
    BY QueueAssumption
  <2>2. next_event_seq[DestOf[c]] + 1 \in Nat /\ generation[DestOf[c]] \in Nat
    BY <2>1 DEF TypeOK
  <2>3. /\ next_event_seq' = [next_event_seq EXCEPT
                                ![DestOf[c]] = next_event_seq[DestOf[c]] + 1]
        /\ destination_seq' = [destination_seq EXCEPT
                                 ![c] = next_event_seq[DestOf[c]] + 1]
        /\ copy_generation' = [copy_generation EXCEPT
                                 ![c] = generation[DestOf[c]]]
    BY <1>1 DEF StoreEvent, TypeOK
  <2>4. /\ next_event_seq' \in [Dests -> Nat]
        /\ destination_seq' \in [Copies -> Nat]
        /\ copy_generation' \in [Copies -> Nat]
    BY <2>2, <2>3 DEF TypeOK
  <2>5. /\ status' \in [Copies -> Status]
        /\ deliver_by' \in [Copies -> Instant]
    BY <1>1 DEF StoreEvent, TypeOK, Status, Instant
  <2>6. due' \in [Copies -> BOOLEAN]
    BY <1>1 DEF StoreEvent, TypeOK
  <2> QED
    BY <1>1, <2>4, <2>5, <2>6
    DEF StoreEvent, TypeOK, processVars, workerVars, claimVars, resultVars, sweepVars,
        boundVars
<1>2. CASE IngestReceipt(c)
  <2>1. {"acknowledged", "receipt_failed", "timed_out"} \subseteq ReconcileState
    BY DEF ReconcileState
  <2> QED
    BY <1>2, <2>1, ConcludeType DEF IngestReceipt
<1>3. CASE RequeueDelivery(c)
  BY <1>3, RequeueType DEF RequeueDelivery
<1>4. CASE ReviveDeadLetter(c)
  <2>1. BackToQueue({c}) /\ OperatorCall
    BY <1>4 DEF ReviveDeadLetter
  <2>2. /\ requeue_count' \in [Copies -> Nat]
        /\ consecutive_failures' \in [Copies -> Nat]
    BY <1>4 DEF ReviveDeadLetter, TypeOK
  <2> QED
    BY <2>1, <2>2, BackToQueueType, OperatorCallType DEF TypeOK
<1>5. CASE UpdateDeliverBy(c)
  <2>1. deliver_by' \in [Copies -> Instant] /\ late' \in [Workers -> BOOLEAN]
    BY <1>5 DEF UpdateDeliverBy, TypeOK
  <2>2. OperatorCall
    BY <1>5 DEF UpdateDeliverBy
  <2> QED
    BY <1>5, <2>1, <2>2, OperatorCallType
    DEF UpdateDeliverBy, TypeOK, destVars, claimVars, sweepVars
<1>6. CASE BackoffElapses(c)
  BY <1>6
  DEF BackoffElapses, TypeOK, destVars, processVars, workerVars, claimVars, resultVars,
      sweepVars, boundVars
<1>7. CASE CutoffPasses(c)
  BY <1>7
  DEF CutoffPasses, TypeOK, Instant, destVars, processVars, workerVars, claimVars,
      resultVars, sweepVars, boundVars
<1>8. CASE LeaseExpires(c)
  <2>1. lease' \in [Copies -> Instant]
    BY <1>8 DEF LeaseExpires, TypeOK, Instant
  <2>2. faults' \in Nat
    BY <1>8 DEF LeaseExpires, TypeOK
  <2> QED
    BY <1>8, <2>1, <2>2
    DEF LeaseExpires, TypeOK, destVars, processVars, workerVars, claimVars, resultVars,
        sweepVars
<1> QED
  BY <1>1, <1>2, <1>3, <1>4, <1>5, <1>6, <1>7, <1>8 DEF CopyStep

\* Every step on one destination keeps the types.
LEMMA DestType ==
  ASSUME TypeOK, NEW d \in Dests, DestStep(d)
  PROVE  TypeOK'
<1>1. CASE RequeueUnreconciled(d)
  BY <1>1, RequeueType DEF RequeueUnreconciled
<1>2. CASE RecoverDestination(d)
  <2>1. OperatorCall
    BY <1>2 DEF RecoverDestination
  <2>2. /\ dest_status' \in [Dests -> {"active", "isolated"}]
        /\ failure_count' \in [Dests -> Nat]
        /\ recoverable_at' \in [Dests -> Instant]
    BY <1>2 DEF RecoverDestination, TypeOK, Instant
  <2>3. due' \in [Copies -> BOOLEAN]
    BY <1>2 DEF RecoverDestination, TypeOK
  <2> QED
    BY <1>2, <2>1, <2>2, <2>3, OperatorCallType
    DEF RecoverDestination, TypeOK, processVars, workerVars, claimVars, resultVars,
        sweepVars
<1>3. CASE PauseDestination(d)
  <2>1. OperatorCall
    BY <1>3 DEF PauseDestination
  <2> QED
    BY <1>3, <2>1, OperatorCallType
    DEF PauseDestination, TypeOK, copyVars, processVars, workerVars, claimVars,
        resultVars, sweepVars
<1>4. CASE ResumeDestination(d)
  BY <1>4
  DEF ResumeDestination, TypeOK, copyVars, processVars, workerVars, claimVars,
      resultVars, sweepVars, boundVars
<1>5. CASE Relocate(d)
  <2>1. OperatorCall
    BY <1>5 DEF Relocate
  <2>2. generation' = [generation EXCEPT ![d] = generation[d] + 1]
    BY <1>5 DEF Relocate, TypeOK
  <2>3. generation[d] + 1 \in Nat
    BY DEF TypeOK
  <2>4. generation' \in [Dests -> Nat]
    BY <2>2, <2>3 DEF TypeOK
  <2>5. /\ confirmed' \in [Dests -> BOOLEAN]
        /\ status' \in [Copies -> Status]
    BY <1>5 DEF Relocate, TypeOK, Status
  <2> QED
    BY <1>5, <2>1, <2>4, <2>5, OperatorCallType
    DEF Relocate, TypeOK, processVars, workerVars, claimVars, resultVars, sweepVars
<1>6. CASE ConfirmDestination(d)
  BY <1>6
  DEF ConfirmDestination, TypeOK, copyVars, processVars, workerVars, claimVars,
      resultVars, sweepVars, boundVars
<1>7. CASE QuarantineElapses(d)
  BY <1>7
  DEF QuarantineElapses, TypeOK, Instant, copyVars, processVars, workerVars, claimVars,
      resultVars, sweepVars, boundVars
<1> QED
  BY <1>1, <1>2, <1>3, <1>4, <1>5, <1>6, <1>7 DEF DestStep

\* The reconciler's two updates keep the types.
LEMMA ReconcilerType ==
  ASSUME TypeOK,
         \/ \E s \in Sweepers, S \in SUBSET Copies : SweepSelect(s, S)
         \/ \E s \in Sweepers : SweepCommit(s)
         \/ \E S \in SUBSET Copies : ExpireDeliveryDeadlines(S)
  PROVE  TypeOK'
<1>1. ASSUME NEW s \in Sweepers, NEW S \in SUBSET Copies, SweepSelect(s, S)
      PROVE  TypeOK'
  BY <1>1 DEF SweepSelect, TypeOK, destVars, copyVars, workerVars, claimVars,
              resultVars, boundVars
<1>2. ASSUME NEW s \in Sweepers, SweepCommit(s) PROVE TypeOK'
  <2>1. status' \in [Copies -> Status]
    BY <1>2 DEF SweepCommit, TypeOK, Status
  <2>2. reconcile_state' \in [Copies -> ReconcileState]
    BY <1>2 DEF SweepCommit, TypeOK, ReconcileState
  <2> QED
    BY <1>2, <2>1, <2>2 DEF SweepCommit, TypeOK, destVars, workerVars,
                            claimVars, resultVars, boundVars
<1>3. ASSUME NEW S \in SUBSET Copies, ExpireDeliveryDeadlines(S)
      PROVE  TypeOK'
  <2>1. status' \in [Copies -> Status]
    BY <1>3 DEF ExpireDeliveryDeadlines, TypeOK, Status
  <2>2. due' \in [Copies -> BOOLEAN]
    BY <1>3 DEF ExpireDeliveryDeadlines, TypeOK
  <2> QED
    BY <1>3, <2>1, <2>2 DEF ExpireDeliveryDeadlines, TypeOK, destVars,
         processVars, workerVars, claimVars, resultVars, sweepVars, boundVars
<1> QED
  BY <1>1, <1>2, <1>3

\* Every step keeps the types.
LEMMA NextType ==
  ASSUME TypeOK, Next
  PROVE  TypeOK'
<1>1. ASSUME NEW w \in Workers, WorkerStep(w) PROVE TypeOK'
  BY <1>1, WorkerType
<1>2. ASSUME NEW c \in Copies, CopyStep(c) PROVE TypeOK'
  BY <1>2, CopyType
<1>3. ASSUME NEW d \in Dests, DestStep(d) PROVE TypeOK'
  BY <1>3, DestType
<1> QED
  BY <1>1, <1>2, <1>3, ReconcilerType DEF Next

\* Every variable keeps its type: the rows the SQL statements write stay
\* inside the columns' domains, whoever writes them.
THEOREM TypeCorrect == Spec => []TypeOK
<1>1. TypeOK /\ [Next]_vars => TypeOK'
  <2> SUFFICES ASSUME TypeOK, [Next]_vars PROVE TypeOK'
    OBVIOUS
  <2>1. CASE Next
    BY <2>1, NextType
  <2>2. CASE UNCHANGED vars
    BY <2>2 DEF vars, destVars, copyVars, processVars, workerVars, claimVars,
                resultVars, sweepVars, boundVars, TypeOK
  <2> QED
    BY <2>1, <2>2
<1> QED
  BY <1>1, InitType, PTL DEF Spec

----------------------------------------------------------------------------
(***************************************************************************)
(* Ownership: what a claim token means.                                    *)
(***************************************************************************)
\* A thread that has claimed a copy and not concluded it.
Busy(w) == pc[w] \notin {"idle", "claiming"}

\* A busy thread has a claim; the others have none.
ClaimsFit ==
  \A w \in Workers :
    /\ ~Busy(w) => claim[w] = NoClaim
    /\ Busy(w) => claim[w].copy \in Copies /\ claim[w].token \in Tokens

\* No two busy threads have the same token.
TokensDiffer ==
  \A v, w \in Workers :
    Busy(v) /\ Busy(w) /\ v # w => claim[v].token # claim[w].token

\* The CTE's flag is one of its columns.
ExhaustedFound == \A s \in Sweepers : exhausted[s] \subseteq found[s]

Ownership == TypeOK /\ ClaimsFit /\ TokensDiffer /\ ExhaustedFound

\* What the housekeeping does to the status of a row.
LEMMA TidyStatus ==
  ASSUME TypeOK, NEW Expired \in SUBSET Copies, TidyRows(Expired),
         Expired \subseteq Overdue
  PROVE  \A x \in Copies :
           /\ x \notin Queued => status'[x] = status[x]
           /\ x \in Queued =>
                status'[x] \in {"pending", "superseded", "deadline_expired"}
           /\ status'[x] = "pending" => x \in Waiting(Expired)
           /\ status'[x] = "in_flight" <=> x \in InFlight \ Reaped
           /\ claim_token'[x] \in {Null, claim_token[x]}
BY DEF TidyRows, Waiting, Overdue, Superseded, Queued, Reaped, InFlight, TypeOK

\* A write of record_result closes the claim of a row in flight, or changes
\* no row at all.
LEMMA WriteStatus ==
  ASSUME NEW w \in Workers, RecordWrite(w), ClaimsFit
  PROVE  /\ claim[w].copy \in Copies
         /\ \/ UNCHANGED <<destVars, copyVars>>
            \/ /\ status[claim[w].copy] = "in_flight"
               /\ \E s \in {"delivered", "deadline_expired", "superseded",
                           "failed", "dead_lettered", "pending"} :
                    CloseClaim(claim[w].copy, s)
<1>1. claim[w].copy \in Copies
  BY DEF RecordWrite, ClaimsFit, Busy
<1>2. CASE WriteRefused(w)
  BY <1>1, <1>2 DEF WriteRefused
<1>3. CASE WriteSuccess(w)
  BY <1>1, <1>3 DEF WriteSuccess, Owns
<1>4. CASE WriteCutoff(w)
  BY <1>1, <1>4 DEF WriteCutoff
<1>5. CASE WriteUncharged(w)
  BY <1>1, <1>5 DEF WriteUncharged, Owns
<1>6. CASE WriteFailure(w)
  BY <1>1, <1>6 DEF WriteFailure, Owns
<1> QED
  BY <1>2, <1>3, <1>4, <1>5, <1>6 DEF RecordWrite

\* The threads' claims survive a step that claims nothing: a busy thread was
\* busy, with the same claim, and one that is not busy has none.
LEMMA OwnershipThreads ==
  ASSUME Ownership, TypeOK', UNCHANGED <<found, exhausted>>,
         \A v \in Workers : \/ /\ ~Busy(v)' /\ claim'[v] = NoClaim
                            \/ /\ Busy(v) /\ Busy(v)' /\ claim'[v] = claim[v]
  PROVE  Ownership'
<1>1. ClaimsFit'
  BY DEF Ownership, ClaimsFit
<1>2. TokensDiffer'
  BY DEF Ownership, TokensDiffer
<1>3. ExhaustedFound'
  BY DEF Ownership, ExhaustedFound
<1> QED
  BY <1>1, <1>2, <1>3 DEF Ownership

\* A step that leaves threads and sweeps alone does no harm.
LEMMA OwnershipFrame ==
  ASSUME Ownership, TypeOK', UNCHANGED <<pc, claim, found, exhausted>>
  PROVE  Ownership'
BY DEF Ownership, ClaimsFit, TokensDiffer, ExhaustedFound, Busy

\* The pick hands out a token that nobody has.
LEMMA OwnershipClaim ==
  ASSUME Ownership, TypeOK', NEW w \in Workers, NEW c \in Copies,
         NEW t \in Tokens, ClaimCopy(w, c, t)
  PROVE  Ownership'
<1>0. TypeOK
  BY DEF Ownership
<1>1. /\ pc' = [pc EXCEPT ![w] = "sending"]
      /\ claim'[w].copy = c /\ claim'[w].token = t
      /\ \A v \in Workers : v # w => claim'[v] = claim[v]
      /\ UNCHANGED <<found, exhausted>>
  BY <1>0 DEF ClaimCopy, TypeOK, sweepVars
<1>2. Busy(w)' /\ \A v \in Workers : v # w => (Busy(v)' <=> Busy(v))
  BY <1>0, <1>1 DEF Busy, TypeOK
<1>3. \A v \in Workers : claim[v].token # t
  BY DEF ClaimCopy, UsedTokens
<1>4. ClaimsFit'
  BY <1>1, <1>2 DEF Ownership, ClaimsFit
<1>5. TokensDiffer'
  BY <1>1, <1>2, <1>3 DEF Ownership, TokensDiffer
<1>6. ExhaustedFound'
  BY <1>1 DEF Ownership, ExhaustedFound
<1> QED
  BY <1>4, <1>5, <1>6 DEF Ownership

\* Every step of a thread keeps the ownership.
LEMMA OwnershipWorker ==
  ASSUME Ownership, TypeOK', NEW w \in Workers, WorkerStep(w)
  PROVE  Ownership'
<1>0. TypeOK /\ ClaimsFit
  BY DEF Ownership
<1>1. CASE \E Expired \in SUBSET Copies : TakeSnapshot(w, Expired)
  <2>1. UNCHANGED <<claim, found, exhausted>> /\ pc[w] = "idle"
    BY <1>1 DEF TakeSnapshot, sweepVars
  <2>2. UNCHANGED pc \/ pc' = [pc EXCEPT ![w] = "claiming"]
    BY <1>1 DEF TakeSnapshot
  <2>3. \A v \in Workers : Busy(v)' <=> Busy(v)
    BY <1>0, <2>1, <2>2 DEF Busy, TypeOK
  <2> QED
    BY <1>0, <2>1, <2>3, OwnershipThreads DEF ClaimsFit
<1>2. CASE ClaimNextEvent(w)
  <2>1. CASE ClaimNothing(w)
    <3>1. /\ UNCHANGED <<claim, found, exhausted>> /\ pc[w] = "claiming"
          /\ pc' = [pc EXCEPT ![w] = "idle"]
      BY <2>1 DEF ClaimNothing, sweepVars
    <3>2. \A v \in Workers : Busy(v)' <=> Busy(v)
      BY <1>0, <3>1 DEF Busy, TypeOK
    <3> QED
      BY <1>0, <3>1, <3>2, OwnershipThreads DEF ClaimsFit
  <2> QED
    BY <1>2, <2>1, OwnershipClaim DEF ClaimNextEvent
<1>3. CASE Heartbeat(w)
  BY <1>3, OwnershipFrame DEF Heartbeat, claimVars, sweepVars
<1>4. ASSUME NEW p \in {"responded", "recording"}, pc' = [pc EXCEPT ![w] = p],
             Busy(w), UNCHANGED <<claim, found, exhausted>>
      PROVE  Ownership'
  <2>1. \A v \in Workers : Busy(v)' <=> Busy(v)
    BY <1>0, <1>4 DEF Busy, TypeOK
  <2> QED
    BY <1>0, <1>4, <2>1, OwnershipThreads DEF ClaimsFit
<1>5. ASSUME GoIdle(w), UNCHANGED <<found, exhausted>> PROVE Ownership'
  <2>1. /\ pc' = [pc EXCEPT ![w] = "idle"]
        /\ claim' = [claim EXCEPT ![w] = NoClaim]
    BY <1>5 DEF GoIdle
  <2>2. ~Busy(w)' /\ \A v \in Workers : v # w => (Busy(v)' <=> Busy(v))
    BY <1>0, <2>1 DEF Busy, TypeOK
  <2>3. claim'[w] = NoClaim /\ \A v \in Workers : v # w => claim'[v] = claim[v]
    BY <1>0, <2>1 DEF TypeOK
  <2> QED
    BY <1>0, <1>5, <2>2, <2>3, OwnershipThreads DEF ClaimsFit
<1>6. CASE \E r \in {"success", "failure"} : Deliver(w, r)
  BY <1>4, <1>6 DEF Deliver, sweepVars, Busy
<1>7. CASE RecordCheck(w)
  <2>1. Busy(w) /\ UNCHANGED <<found, exhausted>>
    BY <1>7 DEF RecordCheck, sweepVars, Busy
  <2>2. CASE GoIdle(w)
    BY <1>5, <2>1, <2>2
  <2>3. CASE ~GoIdle(w)
    BY <1>4, <1>7, <2>1, <2>3 DEF RecordCheck
  <2> QED
    BY <2>2, <2>3
<1>8. CASE RecordWrite(w) \/ WorkerDies(w)
  BY <1>5, <1>8 DEF RecordWrite, WorkerDies, sweepVars
<1> QED
  BY <1>1, <1>2, <1>3, <1>6, <1>7, <1>8 DEF WorkerStep

\* Nobody else touches a claim; a sweep finds and forgets.
LEMMA OwnershipStep ==
  ASSUME Ownership, Next
  PROVE  Ownership'
<1>0. TypeOK /\ TypeOK'
  BY NextType DEF Ownership
<1>1. ASSUME NEW w \in Workers, WorkerStep(w) PROVE Ownership'
  BY <1>0, <1>1, OwnershipWorker
<1>2. ASSUME NEW c \in Copies, CopyStep(c) PROVE Ownership'
  <2>1. UNCHANGED <<pc, claim, found, exhausted>>
    BY <1>2 DEF CopyStep, StoreEvent, IngestReceipt, Conclude, RequeueDelivery,
         Requeue, ReviveDeadLetter, BackToQueue, UpdateDeliverBy,
         BackoffElapses, CutoffPasses, LeaseExpires, processVars, workerVars,
         claimVars, sweepVars
  <2> QED
    BY <1>0, <2>1, OwnershipFrame
<1>3. ASSUME NEW d \in Dests, DestStep(d) PROVE Ownership'
  <2>1. UNCHANGED <<pc, claim, found, exhausted>>
    BY <1>3 DEF DestStep, RequeueUnreconciled, Requeue, BackToQueue, Relocate,
         RecoverDestination, PauseDestination, ResumeDestination,
         ConfirmDestination, QuarantineElapses, processVars, workerVars,
         claimVars, sweepVars
  <2> QED
    BY <1>0, <2>1, OwnershipFrame
<1>4. ASSUME NEW s \in Sweepers, UNCHANGED <<pc, claim>>,
             \A r \in Sweepers : \/ exhausted'[r] \subseteq found'[r]
                                 \/ /\ exhausted'[r] = exhausted[r]
                                    /\ found'[r] = found[r]
      PROVE  Ownership'
  <2>1. ExhaustedFound'
    BY <1>4 DEF Ownership, ExhaustedFound
  <2> QED
    BY <1>0, <1>4, <2>1 DEF Ownership, ClaimsFit, TokensDiffer, Busy
<1>5. ASSUME NEW s \in Sweepers, NEW S \in SUBSET Copies, SweepSelect(s, S)
      PROVE  Ownership'
  <2>1. UNCHANGED <<pc, claim>>
    BY <1>5 DEF SweepSelect, workerVars, claimVars
  <2>2. \A r \in Sweepers : \/ exhausted'[r] \subseteq found'[r]
                            \/ /\ exhausted'[r] = exhausted[r]
                               /\ found'[r] = found[r]
    BY <1>0, <1>5 DEF SweepSelect, TypeOK
  <2> QED
    BY <1>4, <2>1, <2>2
<1>6. ASSUME NEW s \in Sweepers, SweepCommit(s) PROVE Ownership'
  <2>1. UNCHANGED <<pc, claim>>
    BY <1>6 DEF SweepCommit, workerVars, claimVars
  <2>2. \A r \in Sweepers : \/ exhausted'[r] \subseteq found'[r]
                            \/ /\ exhausted'[r] = exhausted[r]
                               /\ found'[r] = found[r]
    BY <1>0, <1>6 DEF SweepCommit, TypeOK
  <2> QED
    BY <1>4, <2>1, <2>2
<1>7. ASSUME NEW S \in SUBSET Copies, ExpireDeliveryDeadlines(S)
      PROVE  Ownership'
  BY <1>0, <1>7, OwnershipFrame DEF ExpireDeliveryDeadlines, processVars,
       workerVars, claimVars, sweepVars
<1> QED
  BY <1>1, <1>2, <1>3, <1>5, <1>6, <1>7 DEF Next

----------------------------------------------------------------------------
(***************************************************************************)
(* Reconciliation: which rows wait for a receipt.                          *)
(***************************************************************************)
\* A row that waits for its receipt, or has it, is delivered.
AwaitedIsDelivered ==
  \A c \in Copies : reconcile_state[c] \in {"awaiting", "acknowledged"}
                       => status[c] = "delivered"

Reconciliation == CountdownOnlyAfterDelivery /\ AwaitedIsDelivered

\* Rows that keep both columns, are delivered, have no countdown or were swept
\* do no harm.
LEMMA ReconciliationRows ==
  ASSUME Reconciliation,
         \A x \in Copies :
           \/ status'[x] = status[x] /\ reconcile_state'[x] = reconcile_state[x]
           \/ status'[x] = "delivered"
           \/ reconcile_state'[x] \in {"none", "timed_out"}
           \/ /\ reconcile_state'[x] = "receipt_failed"
              /\ status'[x] = "dead_lettered"
  PROVE  Reconciliation'
BY DEF Reconciliation, CountdownOnlyAfterDelivery, AwaitedIsDelivered

\* A row that is neither delivered nor parked has no countdown and no verdict
\* but a late sweep's.
LEMMA NoCountdownInQueue ==
  ASSUME Reconciliation, TypeOK, NEW c \in Copies,
         status[c] \notin {"delivered", "dead_lettered"}
  PROVE  reconcile_state[c] \in {"none", "timed_out"}
BY DEF Reconciliation, CountdownOnlyAfterDelivery, TypeOK, ReconcileState

\* Every step keeps the reconciliation invariant.
LEMMA ReconciliationStep ==
  ASSUME Ownership, Reconciliation, Next
  PROVE  Reconciliation'
<1>0. TypeOK /\ ClaimsFit /\ ExhaustedFound
  BY DEF Ownership
<1>1. ASSUME UNCHANGED reconcile_state,
             \A x \in Copies : \/ status'[x] = status[x]
                               \/ status[x] \notin {"delivered", "dead_lettered"}
      PROVE  Reconciliation'
  BY <1>0, <1>1, NoCountdownInQueue, ReconciliationRows
<1>2. ASSUME NEW w \in Workers, WorkerStep(w) PROVE Reconciliation'
  <2>1. CASE \E Expired \in SUBSET Copies : TakeSnapshot(w, Expired)
    <3>1. PICK Expired \in SUBSET Copies : TakeSnapshot(w, Expired)
      BY <2>1
    <3>2. TidyRows(Expired) /\ Expired \subseteq Overdue
      BY <3>1 DEF TakeSnapshot
    <3>3. \A x \in Copies : x \notin Queued => status'[x] = status[x]
      BY <1>0, <3>2, TidyStatus
    <3> QED
      BY <1>1, <3>2, <3>3 DEF TidyRows, Queued, Reaped
  <2>2. CASE ClaimNextEvent(w)
    <3>1. ASSUME NEW c \in Copies, NEW t \in Tokens, ClaimCopy(w, c, t)
          PROVE  Reconciliation'
      BY <1>0, <1>1, <3>1 DEF ClaimCopy, TypeOK
    <3>2. CASE ClaimNothing(w)
      BY <1>1, <3>2 DEF ClaimNothing, copyVars
    <3> QED
      BY <2>2, <3>1, <3>2 DEF ClaimNextEvent
  <2>3. CASE RecordWrite(w)
    <3> DEFINE c == claim[w].copy
    <3>1. c \in Copies
      BY <1>0, <2>3, WriteStatus
    <3>2. CASE WriteSuccess(w)
      BY <1>0, <3>1, <3>2, ReconciliationRows DEF WriteSuccess, CloseClaim, TypeOK
    <3>3. CASE WriteRefused(w)
      BY <1>1, <3>3 DEF WriteRefused, copyVars
    <3>4. CASE WriteCutoff(w) \/ WriteUncharged(w) \/ WriteFailure(w)
      <4>1. UNCHANGED reconcile_state /\ status[c] = "in_flight"
        BY <3>4 DEF WriteCutoff, WriteUncharged, WriteFailure, Owns
      <4>2. PICK s : CloseClaim(c, s)
        BY <3>4 DEF WriteCutoff, WriteUncharged, WriteFailure
      <4>3. \A x \in Copies : x # c => status'[x] = status[x]
        BY <1>0, <3>1, <4>2 DEF CloseClaim, TypeOK
      <4> QED
        BY <1>1, <4>1, <4>3
    <3> QED
      BY <2>3, <3>2, <3>3, <3>4 DEF RecordWrite
  <2>4. CASE Heartbeat(w) \/ (\E r \in {"success", "failure"} : Deliver(w, r))
               \/ RecordCheck(w) \/ WorkerDies(w)
    BY <1>1, <2>4 DEF Heartbeat, Deliver, RecordCheck, WorkerDies, copyVars
  <2> QED
    BY <1>2, <2>1, <2>2, <2>3, <2>4 DEF WorkerStep
<1>3. ASSUME NEW S, BackToQueue(S) PROVE Reconciliation'
  BY <1>3, ReconciliationRows DEF BackToQueue
<1>4. ASSUME NEW c \in Copies, CopyStep(c) PROVE Reconciliation'
  <2>1. CASE StoreEvent(c)
    BY <1>0, <1>1, <2>1 DEF StoreEvent, TypeOK
  <2>2. CASE IngestReceipt(c)
    <3>1. reconcile_state[c] = "awaiting"
      BY <2>2 DEF IngestReceipt, Conclude
    <3>2. status[c] = "delivered"
      BY <3>1 DEF Reconciliation, AwaitedIsDelivered
    <3>3. \A x \in Copies : x # c => /\ status'[x] = status[x]
                                    /\ reconcile_state'[x] = reconcile_state[x]
      BY <1>0, <2>2 DEF IngestReceipt, Conclude, TypeOK
    <3>4. \/ status'[c] = "delivered"
          \/ reconcile_state'[c] = "receipt_failed" /\ status'[c] = "dead_lettered"
      BY <1>0, <2>2, <3>2 DEF IngestReceipt, Conclude, TypeOK
    <3> QED
      BY <3>3, <3>4, ReconciliationRows
  <2>3. CASE RequeueDelivery(c) \/ ReviveDeadLetter(c)
    BY <1>3, <2>3 DEF RequeueDelivery, ReviveDeadLetter, Requeue
  <2>4. CASE UpdateDeliverBy(c) \/ BackoffElapses(c) \/ CutoffPasses(c) \/ LeaseExpires(c)
    BY <1>1, <2>4 DEF UpdateDeliverBy, BackoffElapses, CutoffPasses, LeaseExpires
  <2> QED
    BY <1>4, <2>1, <2>2, <2>3, <2>4 DEF CopyStep
<1>5. ASSUME NEW d \in Dests, DestStep(d) PROVE Reconciliation'
  <2>1. CASE RequeueUnreconciled(d)
    BY <1>3, <2>1 DEF RequeueUnreconciled, Requeue
  <2>2. CASE Relocate(d)
    BY <1>1, <2>2 DEF Relocate
  <2>3. CASE RecoverDestination(d) \/ PauseDestination(d) \/ ResumeDestination(d)
               \/ ConfirmDestination(d) \/ QuarantineElapses(d)
    BY <1>1, <2>3 DEF RecoverDestination, PauseDestination, ResumeDestination,
         ConfirmDestination, QuarantineElapses, copyVars
  <2> QED
    BY <1>5, <2>1, <2>2, <2>3 DEF DestStep
<1>6. ASSUME NEW s \in Sweepers, NEW S \in SUBSET Copies, SweepSelect(s, S)
      PROVE  Reconciliation'
  BY <1>1, <1>6 DEF SweepSelect, copyVars
<1>7. ASSUME NEW s \in Sweepers, SweepCommit(s) PROVE Reconciliation'
  <2>1. exhausted[s] \subseteq found[s]
    BY <1>0 DEF ExhaustedFound
  <2> QED
    BY <1>7, <2>1, ReconciliationRows DEF SweepCommit
<1>8. ASSUME NEW S \in SUBSET Copies, ExpireDeliveryDeadlines(S)
      PROVE  Reconciliation'
  BY <1>1, <1>8 DEF ExpireDeliveryDeadlines
<1> QED
  BY <1>2, <1>4, <1>5, <1>6, <1>7, <1>8 DEF Next

----------------------------------------------------------------------------
(***************************************************************************)
(* How a row can move.                                                     *)
(***************************************************************************)
\* Some sweep had found the row, with its cycles spent.
SweptUp(x) == \E s \in Sweepers : x \in exhausted[s]

Moves(x) ==
  \/ status'[x] = status[x]
  \/ status[x] = "absent" /\ status'[x] = "pending"
  \/ status[x] = "pending" /\ status'[x] = "in_flight"
  \/ /\ status[x] \in {"pending", "in_flight"}
     /\ status'[x] \in {"pending", "superseded", "deadline_expired"}
  \/ /\ status[x] = "in_flight"
     /\ status'[x] \in {"delivered", "failed", "dead_lettered"}
  \/ status[x] \in {"delivered", "dead_lettered"} /\ status'[x] = "pending"
  \/ status[x] = "delivered" /\ status'[x] = "dead_lettered"
  \/ status'[x] = "dead_lettered" /\ SweptUp(x)

\* Every step moves every row in one of these ways.
LEMMA RowsMove ==
  ASSUME Ownership, Reconciliation, Next, NEW x \in Copies
  PROVE  Moves(x)
<1>0. TypeOK /\ ClaimsFit
  BY DEF Ownership
<1>1. ASSUME status'[x] = status[x] PROVE Moves(x)
  BY <1>1 DEF Moves
<1>2. ASSUME NEW w \in Workers, WorkerStep(w) PROVE Moves(x)
  <2>1. CASE \E Expired \in SUBSET Copies : TakeSnapshot(w, Expired)
    <3>1. PICK Expired \in SUBSET Copies : TakeSnapshot(w, Expired)
      BY <2>1
    <3>2. TidyRows(Expired) /\ Expired \subseteq Overdue
      BY <3>1 DEF TakeSnapshot
    <3> QED
      BY <1>0, <3>2, TidyStatus DEF Moves, Queued, Reaped
  <2>2. CASE ClaimNextEvent(w)
    BY <1>0, <2>2 DEF ClaimNextEvent, ClaimCopy, ClaimNothing, copyVars, TypeOK, Moves
  <2>3. CASE RecordWrite(w)
    <3>1. CASE UNCHANGED <<destVars, copyVars>>
      BY <1>1, <3>1 DEF copyVars
    <3>2. CASE ~UNCHANGED <<destVars, copyVars>>
      <4>1. status[claim[w].copy] = "in_flight"
        BY <1>0, <2>3, <3>2, WriteStatus
      <4>2. PICK s \in {"delivered", "deadline_expired", "superseded",
                        "failed", "dead_lettered", "pending"} :
              CloseClaim(claim[w].copy, s)
        BY <1>0, <2>3, <3>2, WriteStatus
      <4>3. status'[x] = IF x = claim[w].copy THEN s ELSE status[x]
        BY <1>0, <4>2 DEF CloseClaim, TypeOK
      <4> QED
        BY <4>1, <4>3 DEF Moves
    <3> QED
      BY <3>1, <3>2
  <2>4. CASE Heartbeat(w) \/ (\E r \in {"success", "failure"} : Deliver(w, r))
               \/ RecordCheck(w) \/ WorkerDies(w)
    BY <1>1, <2>4 DEF Heartbeat, Deliver, RecordCheck, WorkerDies, copyVars
  <2> QED
    BY <1>2, <2>1, <2>2, <2>3, <2>4 DEF WorkerStep
<1>3. ASSUME NEW S, BackToQueue(S),
             \A y \in S : status[y] \in {"delivered", "dead_lettered"}
      PROVE  Moves(x)
  BY <1>3 DEF BackToQueue, Moves
<1>4. ASSUME NEW c \in Copies, CopyStep(c) PROVE Moves(x)
  <2>1. CASE StoreEvent(c)
    BY <1>0, <2>1 DEF StoreEvent, TypeOK, Moves
  <2>2. CASE IngestReceipt(c)
    <3>1. status[c] = "delivered"
      BY <2>2 DEF IngestReceipt, Conclude, Reconciliation, AwaitedIsDelivered
    <3> QED
      BY <1>0, <2>2, <3>1 DEF IngestReceipt, Conclude, TypeOK, Moves
  <2>3. CASE RequeueDelivery(c) \/ ReviveDeadLetter(c)
    BY <1>3, <2>3 DEF RequeueDelivery, Requeue, Requeueable, ReviveDeadLetter
  <2>4. CASE UpdateDeliverBy(c) \/ BackoffElapses(c) \/ CutoffPasses(c) \/ LeaseExpires(c)
    BY <1>1, <2>4 DEF UpdateDeliverBy, BackoffElapses, CutoffPasses, LeaseExpires
  <2> QED
    BY <1>4, <2>1, <2>2, <2>3, <2>4 DEF CopyStep
<1>5. ASSUME NEW d \in Dests, DestStep(d) PROVE Moves(x)
  <2>1. CASE RequeueUnreconciled(d)
    BY <1>3, <2>1 DEF RequeueUnreconciled, Requeueable, Requeue
  <2>2. CASE Relocate(d)
    BY <2>2 DEF Relocate, Moves
  <2>3. CASE RecoverDestination(d) \/ PauseDestination(d) \/ ResumeDestination(d)
               \/ ConfirmDestination(d) \/ QuarantineElapses(d)
    BY <1>1, <2>3 DEF RecoverDestination, PauseDestination, ResumeDestination,
         ConfirmDestination, QuarantineElapses, copyVars
  <2> QED
    BY <1>5, <2>1, <2>2, <2>3 DEF DestStep
<1>6. ASSUME NEW s \in Sweepers, NEW S \in SUBSET Copies, SweepSelect(s, S)
      PROVE  Moves(x)
  BY <1>1, <1>6 DEF SweepSelect, copyVars
<1>7. ASSUME NEW s \in Sweepers, SweepCommit(s) PROVE Moves(x)
  BY <1>7 DEF SweepCommit, Moves, SweptUp
<1>8. ASSUME NEW S \in SUBSET Copies, ExpireDeliveryDeadlines(S)
      PROVE  Moves(x)
  BY <1>8 DEF ExpireDeliveryDeadlines, Moves
<1> QED
  BY <1>2, <1>4, <1>5, <1>6, <1>7, <1>8 DEF Next

\* Only the pick puts a row in flight, tries it or gives it a new token.
LEMMA OnlyPickClaims ==
  ASSUME Ownership, Reconciliation, Next,
         ~ \E w \in Workers, c \in Copies, t \in Tokens : ClaimCopy(w, c, t)
  PROVE  /\ UNCHANGED attempts
         /\ \A x \in Copies :
              /\ status'[x] = "in_flight" => status[x] = "in_flight"
              /\ claim_token'[x] \in {Null, claim_token[x]}
<1>0. TypeOK /\ ClaimsFit
  BY DEF Ownership
<1> DEFINE P == /\ UNCHANGED attempts
                /\ \A x \in Copies :
                     /\ status'[x] = "in_flight" => status[x] = "in_flight"
                     /\ claim_token'[x] \in {Null, claim_token[x]}
<1>1. ASSUME NEW w \in Workers, WorkerStep(w) PROVE P
  <2>1. CASE \E Expired \in SUBSET Copies : TakeSnapshot(w, Expired)
    <3>1. PICK Expired \in SUBSET Copies : TakeSnapshot(w, Expired)
      BY <2>1
    <3>2. TidyRows(Expired) /\ Expired \subseteq Overdue
      BY <3>1 DEF TakeSnapshot
    <3>3. UNCHANGED attempts
      BY <3>2 DEF TidyRows
    <3> QED
      BY <1>0, <3>2, <3>3, TidyStatus DEF InFlight
  <2>2. CASE ClaimNextEvent(w)
    BY <2>2 DEF ClaimNextEvent, ClaimNothing, copyVars
  <2>3. CASE RecordWrite(w)
    <3>1. CASE UNCHANGED <<destVars, copyVars>>
      BY <3>1 DEF copyVars
    <3>2. CASE ~UNCHANGED <<destVars, copyVars>>
      <4>1. PICK s \in {"delivered", "deadline_expired", "superseded",
                        "failed", "dead_lettered", "pending"} :
              CloseClaim(claim[w].copy, s)
        BY <1>0, <2>3, <3>2, WriteStatus
      <4> QED
        BY <1>0, <4>1 DEF CloseClaim, TypeOK
    <3> QED
      BY <3>1, <3>2
  <2>4. CASE Heartbeat(w) \/ (\E r \in {"success", "failure"} : Deliver(w, r))
               \/ RecordCheck(w) \/ WorkerDies(w)
    BY <2>4 DEF Heartbeat, Deliver, RecordCheck, WorkerDies, copyVars
  <2> QED
    BY <1>1, <2>1, <2>2, <2>3, <2>4 DEF WorkerStep
<1>2. ASSUME NEW S, BackToQueue(S) PROVE P
  BY <1>2 DEF BackToQueue, ReleaseClaims
<1>3. ASSUME NEW c \in Copies, CopyStep(c) PROVE P
  <2>1. CASE StoreEvent(c)
    BY <1>0, <2>1 DEF StoreEvent, TypeOK
  <2>2. CASE IngestReceipt(c)
    BY <1>0, <2>2 DEF IngestReceipt, Conclude, TypeOK
  <2>3. CASE RequeueDelivery(c) \/ ReviveDeadLetter(c)
    BY <1>2, <2>3 DEF RequeueDelivery, Requeue, ReviveDeadLetter
  <2>4. CASE UpdateDeliverBy(c) \/ BackoffElapses(c) \/ CutoffPasses(c) \/ LeaseExpires(c)
    BY <2>4 DEF UpdateDeliverBy, BackoffElapses, CutoffPasses, LeaseExpires
  <2> QED
    BY <1>3, <2>1, <2>2, <2>3, <2>4 DEF CopyStep
<1>4. ASSUME NEW d \in Dests, DestStep(d) PROVE P
  <2>1. CASE RequeueUnreconciled(d)
    BY <1>2, <2>1 DEF RequeueUnreconciled, Requeue
  <2>2. CASE Relocate(d)
    BY <2>2 DEF Relocate
  <2>3. CASE RecoverDestination(d) \/ PauseDestination(d) \/ ResumeDestination(d)
               \/ ConfirmDestination(d) \/ QuarantineElapses(d)
    BY <2>3 DEF RecoverDestination, PauseDestination, ResumeDestination,
         ConfirmDestination, QuarantineElapses, copyVars
  <2> QED
    BY <1>4, <2>1, <2>2, <2>3 DEF DestStep
<1>5. ASSUME NEW s \in Sweepers, NEW S \in SUBSET Copies, SweepSelect(s, S)
      PROVE  P
  BY <1>5 DEF SweepSelect, copyVars
<1>6. ASSUME NEW s \in Sweepers, SweepCommit(s) PROVE P
  BY <1>6 DEF SweepCommit
<1>7. ASSUME NEW S \in SUBSET Copies, ExpireDeliveryDeadlines(S) PROVE P
  BY <1>7 DEF ExpireDeliveryDeadlines
<1> QED
  BY <1>1, <1>3, <1>4, <1>5, <1>6, <1>7 DEF Next

----------------------------------------------------------------------------
(***************************************************************************)
(* Isolation: the destination's status, its tally and its recovery time.   *)
(***************************************************************************)
\* Nothing to show as long as the destination's columns stay.
LEMMA IsolationFrame ==
  ASSUME ActiveIsBelowThreshold,
         UNCHANGED <<dest_status, failure_count, recoverable_at>>
  PROVE  ActiveIsBelowThreshold'
BY DEF ActiveIsBelowThreshold

\* A step that changes one destination keeps the invariant if that one has it.
LEMMA IsolationOne ==
  ASSUME ActiveIsBelowThreshold, NEW d,
         \A o \in Dests : o # d => /\ dest_status'[o] = dest_status[o]
                                   /\ failure_count'[o] = failure_count[o]
                                   /\ recoverable_at'[o] = recoverable_at[o],
         d \in Dests /\ dest_status'[d] = "active"
           => failure_count'[d] < FailureThreshold /\ recoverable_at'[d] = Null
  PROVE  ActiveIsBelowThreshold'
BY DEF ActiveIsBelowThreshold

\* Every step keeps an active destination below its threshold.
LEMMA IsolationStep ==
  ASSUME Ownership, ActiveIsBelowThreshold, Next
  PROVE  ActiveIsBelowThreshold'
<1>0. TypeOK /\ ClaimsFit /\ FailureThreshold \in Nat \ {0} /\ 0 < FailureThreshold
  BY QueueAssumption DEF Ownership
<1>1. ASSUME NEW w \in Workers, WorkerStep(w) PROVE ActiveIsBelowThreshold'
  <2>1. CASE ClaimNextEvent(w)
    <3>1. ASSUME NEW c \in Copies, NEW t \in Tokens, ClaimCopy(w, c, t)
          PROVE  ActiveIsBelowThreshold'
      <4> DEFINE d == DestOf[c]
      <4>1. d \in Dests
        BY QueueAssumption
      <4>2. /\ dest_status' = [dest_status EXCEPT ![d] = "active"]
            /\ failure_count' = [failure_count EXCEPT
                 ![d] = IF dest_status[d] = "isolated" THEN 0 ELSE failure_count[d]]
            /\ recoverable_at' = [recoverable_at EXCEPT
                 ![d] = IF dest_status[d] = "isolated" THEN Null
                        ELSE recoverable_at[d]]
        BY <1>0, <3>1 DEF ClaimCopy, TypeOK
      <4>3. /\ failure_count'[d] = IF dest_status[d] = "isolated" THEN 0
                                   ELSE failure_count[d]
            /\ recoverable_at'[d] = IF dest_status[d] = "isolated" THEN Null
                                    ELSE recoverable_at[d]
            /\ dest_status[d] \in {"active", "isolated"}
        BY <1>0, <4>1, <4>2 DEF TypeOK
      <4>4. failure_count'[d] < FailureThreshold /\ recoverable_at'[d] = Null
        BY <1>0, <4>1, <4>3 DEF ActiveIsBelowThreshold
      <4>5. \A o \in Dests : o # d => /\ dest_status'[o] = dest_status[o]
                                      /\ failure_count'[o] = failure_count[o]
                                      /\ recoverable_at'[o] = recoverable_at[o]
        BY <1>0, <4>2 DEF TypeOK
      <4> QED
        BY <4>4, <4>5, IsolationOne
    <3>2. CASE ClaimNothing(w)
      BY <3>2, IsolationFrame DEF ClaimNothing, destVars
    <3> QED
      BY <2>1, <3>1, <3>2 DEF ClaimNextEvent
  <2>2. CASE RecordWrite(w)
    <3> DEFINE c == claim[w].copy
               d == DestOf[c]
    <3>1. c \in Copies /\ d \in Dests
      BY <1>0, <2>2, WriteStatus, QueueAssumption
    <3>2. CASE WriteRefused(w) \/ WriteCutoff(w) \/ WriteUncharged(w)
      BY <3>2, IsolationFrame DEF WriteRefused, WriteCutoff, WriteUncharged, destVars
    <3>3. CASE WriteSuccess(w)
      <4>1. /\ failure_count' = [failure_count EXCEPT ![d] = 0]
            /\ UNCHANGED <<dest_status, recoverable_at>>
        BY <3>3 DEF WriteSuccess
      <4>2. failure_count'[d] = 0 /\ \A o \in Dests : o # d =>
               failure_count'[o] = failure_count[o]
        BY <1>0, <3>1, <4>1 DEF TypeOK
      <4> QED
        BY <1>0, <3>1, <4>1, <4>2 DEF ActiveIsBelowThreshold
    <3>4. CASE WriteFailure(w)
      <4>1. /\ failure_count' = [failure_count EXCEPT
                 ![d] = IF ShouldDeadLetter(w) THEN 0 ELSE failure_count[d] + 1]
            /\ dest_status' = [dest_status EXCEPT
                 ![d] = IF ShouldDeadLetter(w) THEN "active"
                        ELSE IF ReachesThreshold(d) THEN "isolated"
                        ELSE dest_status[d]]
            /\ recoverable_at' = [recoverable_at EXCEPT
                 ![d] = IF ShouldDeadLetter(w) THEN Null
                        ELSE IF ReachesThreshold(d) THEN RecoverableAt(w)
                        ELSE recoverable_at[d]]
        BY <1>0, <3>4 DEF WriteFailure, TypeOK
      <4>2. \A o \in Dests : o # d => /\ dest_status'[o] = dest_status[o]
                                      /\ failure_count'[o] = failure_count[o]
                                      /\ recoverable_at'[o] = recoverable_at[o]
        BY <1>0, <4>1 DEF TypeOK
      <4>3. failure_count[d] \in Nat
        BY <1>0, <3>1 DEF TypeOK
      <4>4. CASE ShouldDeadLetter(w)
        BY <1>0, <3>1, <4>1, <4>2, <4>4, IsolationOne DEF TypeOK
      <4>5. CASE ~ShouldDeadLetter(w) /\ ReachesThreshold(d)
        BY <1>0, <3>1, <4>1, <4>2, <4>5, IsolationOne DEF TypeOK
      <4>6. CASE ~ShouldDeadLetter(w) /\ ~ReachesThreshold(d)
        <5>1. /\ failure_count'[d] = failure_count[d] + 1
              /\ dest_status'[d] = dest_status[d]
              /\ recoverable_at'[d] = recoverable_at[d]
          BY <1>0, <3>1, <4>1, <4>6 DEF TypeOK
        <5>2. failure_count'[d] < FailureThreshold
          BY <1>0, <4>3, <4>6, <5>1 DEF ReachesThreshold
        <5> QED
          BY <4>2, <5>1, <5>2, IsolationOne DEF ActiveIsBelowThreshold
      <4> QED
        BY <4>4, <4>5, <4>6
    <3> QED
      BY <2>2, <3>2, <3>3, <3>4 DEF RecordWrite
  <2>3. CASE \/ \E Expired \in SUBSET Copies : TakeSnapshot(w, Expired)
             \/ Heartbeat(w)
             \/ \E r \in {"success", "failure"} : Deliver(w, r)
             \/ RecordCheck(w) \/ WorkerDies(w)
    BY <2>3, IsolationFrame DEF TakeSnapshot, Heartbeat, Deliver, RecordCheck,
                                WorkerDies, destVars
  <2> QED
    BY <1>1, <2>1, <2>2, <2>3 DEF WorkerStep
<1>2. ASSUME NEW c \in Copies, CopyStep(c) PROVE ActiveIsBelowThreshold'
  BY <1>2, IsolationFrame DEF CopyStep, StoreEvent, IngestReceipt, Conclude,
       RequeueDelivery, Requeue, ReviveDeadLetter, BackToQueue, UpdateDeliverBy,
       BackoffElapses, CutoffPasses, LeaseExpires, destVars
<1>3. ASSUME NEW d \in Dests, DestStep(d) PROVE ActiveIsBelowThreshold'
  <2>1. CASE RecoverDestination(d)
    <3>1. /\ dest_status' = [dest_status EXCEPT ![d] = "active"]
          /\ failure_count' = [failure_count EXCEPT ![d] = 0]
          /\ recoverable_at' = [recoverable_at EXCEPT ![d] = Null]
      BY <2>1 DEF RecoverDestination
    <3> QED
      BY <1>0, <3>1, IsolationOne DEF TypeOK
  <2>2. CASE QuarantineElapses(d)
    <3>1. /\ recoverable_at[d] = "future"
          /\ recoverable_at' = [recoverable_at EXCEPT ![d] = "past"]
          /\ UNCHANGED <<dest_status, failure_count>>
      BY <2>2 DEF QuarantineElapses
    <3>2. dest_status[d] # "active" \/ Null = "future"
      BY <3>1 DEF ActiveIsBelowThreshold
    <3>3. CASE dest_status[d] # "active"
      BY <1>0, <3>1, <3>3, IsolationOne DEF TypeOK
    <3> QED
      BY <1>0, <3>2, <3>3, QueueAssumption
  <2>3. CASE RequeueUnreconciled(d) \/ Relocate(d) \/ PauseDestination(d)
               \/ ResumeDestination(d) \/ ConfirmDestination(d)
    BY <2>3, IsolationFrame DEF RequeueUnreconciled, Requeue, BackToQueue,
         Relocate, PauseDestination, ResumeDestination, ConfirmDestination, destVars
  <2> QED
    BY <1>3, <2>1, <2>2, <2>3 DEF DestStep
<1>4. CASE \/ \E s \in Sweepers, S \in SUBSET Copies : SweepSelect(s, S)
           \/ \E s \in Sweepers : SweepCommit(s)
           \/ \E S \in SUBSET Copies : ExpireDeliveryDeadlines(S)
  BY <1>4, IsolationFrame DEF SweepSelect, SweepCommit, ExpireDeliveryDeadlines,
                              destVars
<1> QED
  BY <1>1, <1>2, <1>3, <1>4 DEF Next

----------------------------------------------------------------------------
(***************************************************************************)
(* Streaks: the failures a copy has behind it.                             *)
(***************************************************************************)
\* The streak an owner decides on is the row's: nobody changed it since.
OwnersStreak ==
  \A w \in Workers : Busy(w) /\ Owns(w)
                        => claim[w].failures = consecutive_failures[claim[w].copy]

\* A success, like the fan-out, leaves no failures behind.
StreakReset ==
  \A c \in Copies : status[c] \in {"absent", "delivered"}
                       => consecutive_failures[c] = 0

Streaks == OwnersStreak /\ StreakReset /\ AttemptsLeftInQueue

\* Steps that leave the streaks alone, claim nothing and queue only copies
\* that were queued, delivered or absent.
LEMMA StreaksRows ==
  ASSUME TypeOK, ClaimsFit, Streaks, UNCHANGED consecutive_failures,
         \A w \in Workers : Busy(w)' => Busy(w) /\ claim'[w] = claim[w],
         \A x \in Copies :
           \/ status'[x] = status[x] /\ claim_token'[x] = claim_token[x]
           \/ status'[x] \in {"superseded", "deadline_expired", "failed",
                              "dead_lettered"}
           \/ /\ status[x] \in {"absent", "pending", "in_flight", "delivered"}
              /\ status'[x] = "pending"
  PROVE  Streaks'
<1>1. OwnersStreak'
  BY DEF Streaks, OwnersStreak, Owns, ClaimsFit
<1>2. StreakReset'
  BY DEF Streaks, StreakReset
<1>3. MaxDeliveryAttempts \in Nat \ {0}
  BY QueueAssumption
<1>4. AttemptsLeftInQueue'
  BY <1>3 DEF Streaks, StreakReset, AttemptsLeftInQueue
<1> QED
  BY <1>1, <1>2, <1>4 DEF Streaks

\* A thread that goes idle, and the others, in the form StreaksRows wants.
LEMMA IdleThread ==
  ASSUME TypeOK, NEW w \in Workers, GoIdle(w)
  PROVE  \A v \in Workers : Busy(v)' => v # w /\ Busy(v) /\ claim'[v] = claim[v]
BY DEF GoIdle, TypeOK, Busy

\* The streak of the claimed copy is read in the pick itself.
LEMMA StreaksClaim ==
  ASSUME Ownership, Streaks, NEW w \in Workers, NEW c \in Copies,
         NEW t \in Tokens, ClaimCopy(w, c, t)
  PROVE  Streaks'
<1>0. TypeOK /\ ClaimsFit
  BY DEF Ownership
<1>1. /\ status' = [status EXCEPT ![c] = "in_flight"] /\ status[c] = "pending"
      /\ claim_token' = [claim_token EXCEPT ![c] = t]
      /\ UNCHANGED consecutive_failures
  BY DEF ClaimCopy
<1>2. StreakReset' /\ AttemptsLeftInQueue'
  BY <1>0, <1>1 DEF Streaks, StreakReset, AttemptsLeftInQueue, TypeOK
<1>3. /\ claim'[w].copy = c /\ claim'[w].failures = consecutive_failures[c]
      /\ \A v \in Workers : v # w => claim'[v] = claim[v] /\ pc'[v] = pc[v]
  BY <1>0 DEF ClaimCopy, TypeOK
<1>4. \A v \in Workers : claim[v].token # t
  BY DEF ClaimCopy, UsedTokens
<1>5. ASSUME NEW v \in Workers, Busy(v)', Owns(v)'
      PROVE  claim'[v].failures = consecutive_failures'[claim'[v].copy]
  <2>1. CASE v = w
    BY <1>1, <1>3, <2>1
  <2>2. CASE v # w
    <3>1. claim'[v] = claim[v] /\ Busy(v) /\ claim[v].copy \in Copies
      BY <1>0, <1>3, <1>5, <2>2 DEF ClaimsFit, Busy
    <3>2. claim[v].copy # c
      BY <1>0, <1>1, <1>4, <1>5, <3>1 DEF Owns, TypeOK
    <3>3. Owns(v)
      BY <1>0, <1>1, <1>5, <3>1, <3>2 DEF Owns, TypeOK
    <3> QED
      BY <1>1, <3>1, <3>3 DEF Streaks, OwnersStreak
  <2> QED
    BY <2>1, <2>2
<1>6. OwnersStreak'
  BY <1>5 DEF OwnersStreak
<1> QED
  BY <1>2, <1>6 DEF Streaks

\* The owner's write: a success clears the streak, a failure adds to it and
\* parks the copy when it was the last attempt.
LEMMA StreaksWrite ==
  ASSUME Ownership, Streaks, NEW w \in Workers, RecordWrite(w)
  PROVE  Streaks'
<1> DEFINE c == claim[w].copy
<1>0. TypeOK /\ ClaimsFit /\ Busy(w)
  BY DEF Ownership, RecordWrite, Busy
<1>1. c \in Copies
  BY <1>0, WriteStatus
<1>2. \A v \in Workers : Busy(v)' => v # w /\ Busy(v) /\ claim'[v] = claim[v]
  BY <1>0, IdleThread DEF RecordWrite
<1>3. ASSUME NEW s, CloseClaim(c, s)
      PROVE  /\ status'[c] = s /\ claim_token'[c] = Null
             /\ \A x \in Copies : x # c => /\ status'[x] = status[x]
                                          /\ claim_token'[x] = claim_token[x]
  BY <1>0, <1>1, <1>3 DEF CloseClaim, TypeOK
<1>4. CASE WriteRefused(w)
  BY <1>0, <1>2, <1>4, StreaksRows DEF WriteRefused, copyVars
<1>5. CASE WriteCutoff(w) \/ WriteUncharged(w)
  BY <1>0, <1>2, <1>3, <1>5, StreaksRows DEF WriteCutoff, WriteUncharged
<1>6. ASSUME CloseClaim(c, status'[c]), status'[c] # "in_flight",
             \A x \in Copies : x # c =>
               consecutive_failures'[x] = consecutive_failures[x],
             status'[c] \in {"absent", "delivered"} => consecutive_failures'[c] = 0,
             status'[c] = "pending" => consecutive_failures'[c] < MaxDeliveryAttempts
      PROVE  Streaks'
  <2>1. StreakReset' /\ AttemptsLeftInQueue'
    BY <1>3, <1>6 DEF Streaks, StreakReset, AttemptsLeftInQueue
  <2>2. ASSUME NEW v \in Workers, Busy(v)', Owns(v)'
        PROVE  claim'[v].failures = consecutive_failures'[claim'[v].copy]
    <3>1. claim'[v] = claim[v] /\ Busy(v) /\ claim[v].copy \in Copies
      BY <1>0, <1>2, <2>2 DEF ClaimsFit
    <3>2. claim[v].copy # c
      BY <1>6, <2>2, <3>1 DEF Owns
    <3>3. Owns(v)
      BY <1>3, <1>6, <2>2, <3>1, <3>2 DEF Owns
    <3> QED
      BY <1>6, <3>1, <3>2, <3>3 DEF Streaks, OwnersStreak
  <2> QED
    BY <2>1, <2>2 DEF Streaks, OwnersStreak
<1>7. CASE WriteSuccess(w)
  <2>1. /\ CloseClaim(c, "delivered")
        /\ consecutive_failures' = [consecutive_failures EXCEPT ![c] = 0]
    BY <1>7 DEF WriteSuccess
  <2> QED
    BY <1>0, <1>1, <1>3, <1>6, <2>1 DEF TypeOK
<1>8. CASE WriteFailure(w)
  <2>1. /\ CloseClaim(c, IF ShouldDeadLetter(w) THEN "dead_lettered" ELSE "pending")
        /\ consecutive_failures' =
             [consecutive_failures EXCEPT ![c] = consecutive_failures[c] + 1]
        /\ Owns(w)
    BY <1>0, <1>8 DEF WriteFailure, TypeOK
  <2>2. claim[w].failures = consecutive_failures[c]
    BY <1>0, <2>1 DEF Streaks, OwnersStreak
  <2>3. consecutive_failures[c] \in Nat /\ MaxDeliveryAttempts \in Nat
    BY <1>0, <1>1, QueueAssumption DEF TypeOK
  <2>4. status'[c] = IF ShouldDeadLetter(w) THEN "dead_lettered" ELSE "pending"
    BY <1>3, <2>1
  <2>5. /\ consecutive_failures'[c] = consecutive_failures[c] + 1
        /\ \A x \in Copies : x # c =>
             consecutive_failures'[x] = consecutive_failures[x]
    BY <1>0, <1>1, <2>1 DEF TypeOK
  <2>6. status'[c] = "pending" => consecutive_failures'[c] < MaxDeliveryAttempts
    BY <2>2, <2>3, <2>4, <2>5 DEF ShouldDeadLetter
  <2> QED
    BY <1>6, <2>1, <2>4, <2>5, <2>6
<1> QED
  BY <1>4, <1>5, <1>7, <1>8 DEF RecordWrite

\* Every step keeps the streaks.
LEMMA StreaksStep ==
  ASSUME Ownership, Reconciliation, Streaks, Next
  PROVE  Streaks'
<1>0. TypeOK /\ ClaimsFit
  BY DEF Ownership
<1>1. ASSUME UNCHANGED <<pc, claim>>
      PROVE  \A v \in Workers : Busy(v)' => Busy(v) /\ claim'[v] = claim[v]
  BY <1>1 DEF Busy
<1>2. ASSUME NEW w \in Workers, WorkerStep(w) PROVE Streaks'
  <2>1. CASE Heartbeat(w)
    BY <1>0, <1>1, <2>1, StreaksRows DEF Heartbeat, claimVars
  <2>2. CASE \E r \in {"success", "failure"} : Deliver(w, r)
    <3>1. \A v \in Workers : Busy(v)' => Busy(v) /\ claim'[v] = claim[v]
      BY <1>0, <2>2 DEF Deliver, TypeOK, Busy
    <3> QED
      BY <1>0, <2>2, <3>1, StreaksRows DEF Deliver, copyVars
  <2>3. CASE RecordCheck(w)
    <3>1. \A v \in Workers : Busy(v)' => Busy(v) /\ claim'[v] = claim[v]
      BY <1>0, <2>3 DEF RecordCheck, GoIdle, TypeOK, Busy
    <3> QED
      BY <1>0, <2>3, <3>1, StreaksRows DEF RecordCheck, copyVars
  <2>4. CASE WorkerDies(w)
    BY <1>0, <2>4, IdleThread, StreaksRows DEF WorkerDies, copyVars
  <2>5. CASE \E Expired \in SUBSET Copies : TakeSnapshot(w, Expired)
    <3>1. PICK Expired \in SUBSET Copies : TakeSnapshot(w, Expired)
      BY <2>5
    <3>2. /\ TidyRows(Expired) /\ Expired \subseteq Overdue /\ UNCHANGED claim
          /\ UNCHANGED pc \/ pc' = [pc EXCEPT ![w] = "claiming"]
      BY <3>1 DEF TakeSnapshot
    <3>3. \A v \in Workers : Busy(v)' => Busy(v) /\ claim'[v] = claim[v]
      BY <1>0, <3>2 DEF Busy, TypeOK
    <3>4. \A x \in Copies :
            \/ status'[x] = status[x] /\ claim_token'[x] = claim_token[x]
            \/ /\ status[x] \in {"pending", "in_flight"}
               /\ status'[x] \in {"pending", "superseded", "deadline_expired"}
      BY <1>0, <3>2 DEF TidyRows, Overdue, Superseded, Queued, Reaped, TypeOK
    <3>5. UNCHANGED consecutive_failures
      BY <3>2 DEF TidyRows
    <3> QED
      BY <1>0, <3>3, <3>4, <3>5, StreaksRows
  <2>6. CASE ClaimNextEvent(w)
    <3>1. CASE ClaimNothing(w)
      <4>1. \A v \in Workers : Busy(v)' => Busy(v) /\ claim'[v] = claim[v]
        BY <1>0, <3>1 DEF ClaimNothing, TypeOK, Busy
      <4> QED
        BY <1>0, <3>1, <4>1, StreaksRows DEF ClaimNothing, copyVars
    <3> QED
      BY <2>6, <3>1, StreaksClaim DEF ClaimNextEvent
  <2> QED
    BY <1>2, <2>1, <2>2, <2>3, <2>4, <2>5, <2>6, StreaksWrite DEF WorkerStep
<1>3. ASSUME NEW S, Requeue(S), \A x \in S : status[x] = "delivered" PROVE Streaks'
  <2>1. UNCHANGED <<pc, claim, consecutive_failures>>
    BY <1>3 DEF Requeue, BackToQueue, processVars, workerVars, claimVars
  <2>2. \A x \in Copies :
          \/ status'[x] = status[x] /\ claim_token'[x] = claim_token[x]
          \/ status[x] = "delivered" /\ status'[x] = "pending"
    BY <1>3 DEF Requeue, BackToQueue, ReleaseClaims
  <2> QED
    BY <1>0, <1>1, <2>1, <2>2, StreaksRows
<1>4. ASSUME NEW c \in Copies, CopyStep(c) PROVE Streaks'
  <2>1. CASE StoreEvent(c)
    <3>1. UNCHANGED <<pc, claim, consecutive_failures, claim_token>>
      BY <2>1 DEF StoreEvent, processVars, workerVars, claimVars
    <3>2. \A x \in Copies : \/ status'[x] = status[x]
                            \/ status[x] = "absent" /\ status'[x] = "pending"
      BY <1>0, <2>1 DEF StoreEvent, TypeOK
    <3> QED
      BY <1>0, <1>1, <3>1, <3>2, StreaksRows
  <2>2. CASE IngestReceipt(c)
    <3>1. UNCHANGED <<pc, claim, consecutive_failures, claim_token>>
      BY <2>2 DEF IngestReceipt, Conclude, processVars, workerVars, claimVars
    <3>2. \A x \in Copies : status'[x] = status[x] \/ status'[x] = "dead_lettered"
      BY <1>0, <2>2 DEF IngestReceipt, Conclude, TypeOK
    <3> QED
      BY <1>0, <1>1, <3>1, <3>2, StreaksRows
  <2>3. CASE RequeueDelivery(c)
    BY <1>3, <2>3 DEF RequeueDelivery, Requeueable
  <2>4. CASE ReviveDeadLetter(c)
    <3>1. /\ status[c] = "dead_lettered" /\ UNCHANGED <<pc, claim>>
          /\ status'[c] = "pending" /\ consecutive_failures'[c] = 0
          /\ \A x \in Copies : x # c => /\ status'[x] = status[x]
                                       /\ claim_token'[x] = claim_token[x]
                                       /\ consecutive_failures'[x] = consecutive_failures[x]
      BY <1>0, <2>4 DEF ReviveDeadLetter, BackToQueue, ReleaseClaims, TypeOK,
                        processVars, workerVars, claimVars
    <3>2. MaxDeliveryAttempts \in Nat \ {0}
      BY QueueAssumption
    <3>3. StreakReset' /\ AttemptsLeftInQueue'
      BY <3>1, <3>2 DEF Streaks, StreakReset, AttemptsLeftInQueue
    <3>4. OwnersStreak'
      BY <1>0, <3>1 DEF Streaks, OwnersStreak, Owns, ClaimsFit, Busy
    <3> QED
      BY <3>3, <3>4 DEF Streaks
  <2>5. CASE UpdateDeliverBy(c) \/ BackoffElapses(c) \/ CutoffPasses(c) \/ LeaseExpires(c)
    <3>1. UNCHANGED <<pc, claim, consecutive_failures, claim_token, status>>
      BY <2>5 DEF UpdateDeliverBy, BackoffElapses, CutoffPasses, LeaseExpires,
                  processVars, workerVars, claimVars
    <3> QED
      BY <1>0, <1>1, <3>1, StreaksRows
  <2> QED
    BY <1>4, <2>1, <2>2, <2>3, <2>4, <2>5 DEF CopyStep
<1>5. ASSUME NEW d \in Dests, DestStep(d) PROVE Streaks'
  <2>1. CASE RequeueUnreconciled(d)
    BY <1>3, <2>1 DEF RequeueUnreconciled, Requeueable
  <2>2. CASE Relocate(d) \/ RecoverDestination(d) \/ PauseDestination(d)
               \/ ResumeDestination(d) \/ ConfirmDestination(d) \/ QuarantineElapses(d)
    <3>1. UNCHANGED <<pc, claim, consecutive_failures, claim_token>>
      BY <2>2 DEF Relocate, RecoverDestination, PauseDestination,
           ResumeDestination, ConfirmDestination, QuarantineElapses, copyVars,
           processVars, workerVars, claimVars
    <3>2. \A x \in Copies : status'[x] = status[x] \/ status'[x] = "superseded"
      BY <2>2 DEF Relocate, RecoverDestination, PauseDestination,
           ResumeDestination, ConfirmDestination, QuarantineElapses, copyVars
    <3> QED
      BY <1>0, <1>1, <3>1, <3>2, StreaksRows
  <2> QED
    BY <1>5, <2>1, <2>2 DEF DestStep
<1>6. CASE \/ \E s \in Sweepers, S \in SUBSET Copies : SweepSelect(s, S)
           \/ \E s \in Sweepers : SweepCommit(s)
           \/ \E S \in SUBSET Copies : ExpireDeliveryDeadlines(S)
  <2>1. UNCHANGED <<pc, claim, consecutive_failures, claim_token>>
    BY <1>6 DEF SweepSelect, SweepCommit, ExpireDeliveryDeadlines, copyVars,
                processVars, workerVars, claimVars
  <2>2. \A x \in Copies : \/ status'[x] = status[x]
                          \/ status'[x] \in {"dead_lettered", "deadline_expired"}
    BY <1>6 DEF SweepSelect, SweepCommit, ExpireDeliveryDeadlines, copyVars
  <2> QED
    BY <1>0, <1>1, <2>1, <2>2, StreaksRows
<1> QED
  BY <1>2, <1>4, <1>5, <1>6 DEF Next

----------------------------------------------------------------------------
(***************************************************************************)
(* Order: first attempts follow the queue, and so do first flights.        *)
(***************************************************************************)
\* The destination's counter is at or above every number it gave out.
Numbered ==
  \A c \in Copies : destination_seq[c] <= next_event_seq[DestOf[c]]

\* attempts tells a copy that was tried from one that was not; what a sweep
\* has found was tried.
Tried ==
  /\ \A c \in Copies :
       /\ status[c] = "absent" => attempts[c] = 0
       /\ status[c] \in {"in_flight", "delivered", "dead_lettered"}
            => attempts[c] > 0
  /\ \A s \in Sweepers : \A c \in found[s] : attempts[c] > 0

\* A copy that waits for its first attempt or is in the middle of it.
Fresh(a) == \/ status[a] = "pending" /\ attempts[a] = 0
            \/ status[a] = "in_flight" /\ attempts[a] <= 1

\* The line in a statement's snapshot has all the fresh copies older than one
\* it has, but for those that a statement passed over.
ViewsFit ==
  \A w \in Workers : pc[w] = "claiming" =>
    \A b \in view[w] :
      /\ status[b] # "absent"
      /\ \A a \in Copies :
           /\ DestOf[a] = DestOf[b]
           /\ destination_seq[a] < destination_seq[b]
           /\ Fresh(a)
           => a \in view[w] \cup passed_over

\* What is in flight beside a copy of the snapshot was claimed since.
OverlapsKnown ==
  \A w \in Workers : pc[w] = "claiming" =>
    \A b \in view[w], o \in InFlight :
      DestOf[o] = DestOf[b] => o \in overlap[w]

Order == /\ Numbered
         /\ Tried
         /\ ViewsFit
         /\ OverlapsKnown
         /\ NoOvertaking
         /\ FreshQueueIsSerial

\* Steps that number and try nothing, put nothing in flight and take no
\* snapshot.
LEMMA OrderRows ==
  ASSUME TypeOK, Order, UNCHANGED <<destination_seq, next_event_seq, attempts>>,
         \A x \in Copies : /\ Moves(x)
                           /\ status'[x] = "in_flight" => status[x] = "in_flight"
                           /\ status[x] = "absent" => status'[x] = "absent",
         \A w \in Workers : pc'[w] = "claiming" =>
           /\ pc[w] = "claiming" /\ view'[w] = view[w]
           /\ overlap'[w] = overlap[w],
         \A s \in Sweepers : \A c \in found'[s] :
           c \in found[s] \/ (c \in Copies /\ attempts[c] > 0),
         passed_over' = passed_over, ExhaustedFound
  PROVE  Order'
<1>0. \A x \in Copies : attempts[x] \in Nat /\ status[x] \in Status
  BY DEF TypeOK
<1>1. Numbered'
  BY DEF Order, Numbered
<1>2. \A x \in Copies : SweptUp(x) => attempts[x] > 0
  BY DEF SweptUp, ExhaustedFound, Order, Tried
<1>3. Tried'
  <2>1. \A c \in Copies : status'[c] = "absent" => attempts[c] = 0
    BY DEF Moves, Order, Tried
  <2>2. \A c \in Copies : status'[c] \in {"in_flight", "delivered", "dead_lettered"}
                            => attempts[c] > 0
    BY <1>2 DEF Moves, Order, Tried
  <2>3. \A s \in Sweepers : \A c \in found'[s] : attempts[c] > 0
    BY DEF Order, Tried
  <2> QED
    BY <2>1, <2>2, <2>3 DEF Tried
<1>4. \A x \in Copies : Fresh(x)' => Fresh(x)
  BY <1>0 DEF Fresh, Moves, Order, Tried
<1>5. \A x \in Copies : status[x] # "absent" => status'[x] # "absent"
  BY DEF Moves
<1>6. ViewsFit'
  BY <1>4, <1>5 DEF Order, ViewsFit, TypeOK
<1>7. OverlapsKnown'
  BY DEF Order, OverlapsKnown, InFlight
<1>8. NoOvertaking'
  <2>1. \A x \in Copies : status'[x] = "pending" /\ attempts[x] = 0
                            => status[x] = "pending"
    BY <1>0 DEF Moves, Order, Tried
  <2> QED
    BY <2>1 DEF Order, NoOvertaking
<1>9. FreshQueueIsSerial'
  BY DEF Order, FreshQueueIsSerial, InFlight
<1> QED
  BY <1>1, <1>3, <1>6, <1>7, <1>8, <1>9 DEF Order

\* The snapshot takes in every copy that waits or is in flight, but for the
\* overdue ones that the housekeeping passed over.
LEMMA OrderSnapshot ==
  ASSUME TypeOK, Order, NEW w \in Workers, NEW Expired \in SUBSET Copies,
         TakeSnapshot(w, Expired)
  PROVE  Order'
<1>1. TidyRows(Expired) /\ Expired \subseteq Overdue
  BY DEF TakeSnapshot
<1>2. /\ UNCHANGED <<destination_seq, next_event_seq, attempts, overlap, found>>
      /\ passed_over' = passed_over \cup (Overdue \ Expired)
  BY DEF TakeSnapshot, TidyRows, destVars, sweepVars
<1>3. \A x \in Copies :
        /\ x \notin Queued => status'[x] = status[x]
        /\ x \in Queued =>
             status'[x] \in {"pending", "superseded", "deadline_expired"}
        /\ status'[x] = "pending" => x \in Waiting(Expired)
        /\ status'[x] = "in_flight" <=> x \in InFlight \ Reaped
  BY <1>1, TidyStatus
<1>4. \A x \in Copies : attempts[x] \in Nat
  BY DEF TypeOK
<1>5. Numbered' /\ Tried'
  BY <1>2, <1>3 DEF Order, Numbered, Tried, Queued, Reaped
<1>6. \A x \in Copies : Fresh(x)' => Fresh(x)
  BY <1>2, <1>3, <1>4 DEF Fresh, Queued, Reaped, InFlight, Order, Tried
<1>11. \A x \in Copies : /\ status'[x] = "pending" /\ attempts[x] = 0
                              => status[x] = "pending"
                         /\ status'[x] = "in_flight" => status[x] = "in_flight"
                         /\ status[x] # "absent" => status'[x] # "absent"
  BY <1>2, <1>3, <1>4 DEF Queued, Reaped, InFlight, Order, Tried
<1>7. NoOvertaking' /\ FreshQueueIsSerial'
  <2>1. NoOvertaking'
    BY <1>2, <1>11 DEF Order, NoOvertaking
  <2>2. FreshQueueIsSerial'
    BY <1>2, <1>11 DEF Order, FreshQueueIsSerial, InFlight
  <2> QED
    BY <2>1, <2>2
<1>8. ASSUME NEW v \in Workers, pc'[v] = "claiming", pc[v] = "claiming",
             view'[v] = view[v]
      PROVE  /\ \A b \in view'[v] :
                  /\ status'[b] # "absent"
                  /\ \A a \in Copies :
                       /\ DestOf[a] = DestOf[b]
                       /\ destination_seq[a] < destination_seq[b]
                       /\ Fresh(a)'
                       => a \in view'[v] \cup passed_over'
             /\ \A b \in view'[v], o \in InFlight' :
                  DestOf[o] = DestOf[b] => o \in overlap'[v]
  <2>1. ASSUME NEW b \in view'[v]
        PROVE  b \in view[v] /\ b \in Copies /\ status'[b] # "absent"
    BY <1>8, <1>11, <2>1 DEF Order, ViewsFit, TypeOK
  <2>2. ASSUME NEW b \in view'[v], NEW a \in Copies, DestOf[a] = DestOf[b],
               destination_seq[a] < destination_seq[b], Fresh(a)'
        PROVE  a \in view'[v] \cup passed_over'
    BY <1>2, <1>6, <1>8, <2>1, <2>2 DEF Order, ViewsFit
  <2>3. ASSUME NEW b \in view'[v], NEW o \in InFlight', DestOf[o] = DestOf[b]
        PROVE  o \in overlap'[v]
    BY <1>2, <1>8, <1>11, <2>1, <2>3 DEF Order, OverlapsKnown, InFlight
  <2> QED
    BY <2>1, <2>2, <2>3
<1>9. CASE UNCHANGED <<pc, view>>
  BY <1>2, <1>5, <1>7, <1>8, <1>9 DEF Order, ViewsFit, OverlapsKnown
<1>10. CASE ~UNCHANGED <<pc, view>>
  <2>1. PICK d \in Dests : /\ Candidate(Expired, d)
                           /\ pc' = [pc EXCEPT ![w] = "claiming"]
                           /\ view' = [view EXCEPT ![w] = Line(Expired, d)]
    BY <1>10 DEF TakeSnapshot
  <2>2. /\ pc[w] = "idle" /\ view'[w] = Line(Expired, d)
        /\ \A v \in Workers : v # w => pc'[v] = pc[v] /\ view'[v] = view[v]
    BY <2>1 DEF TakeSnapshot, TypeOK
  <2>3. \A o \in Copies : status'[o] = "in_flight" => DestOf[o] # d
    BY <1>3, <2>1 DEF Candidate
  <2>4. ASSUME NEW b \in view'[w], NEW a \in Copies, DestOf[a] = DestOf[b],
               Fresh(a)'
        PROVE  a \in view'[w] \cup passed_over'
    <3>1. DestOf[b] = d
      BY <2>2 DEF Line
    <3>2. a \in Waiting(Expired)
      BY <1>3, <2>3, <2>4, <3>1 DEF Fresh
    <3>3. CASE deliver_by[a] = "past"
      BY <1>2, <3>2, <3>3 DEF Waiting, Overdue
    <3>4. CASE deliver_by[a] # "past"
      BY <2>2, <2>4, <3>1, <3>2, <3>4 DEF Line, InLine
    <3> QED
      BY <3>3, <3>4
  <2>5. \A b \in view'[w] : DestOf[b] = d /\ b \in Copies /\ status[b] # "absent"
    BY <2>2 DEF Line, InLine, Waiting, Queued, Reaped, InFlight
  <2>6. \A b \in view'[w], o \in InFlight' : DestOf[o] # DestOf[b]
    BY <2>3, <2>5 DEF InFlight
  <2>7. ViewsFit'
    <3> SUFFICES ASSUME NEW v \in Workers, pc'[v] = "claiming", NEW b \in view'[v]
                 PROVE  /\ status'[b] # "absent"
                        /\ \A a \in Copies :
                             /\ DestOf[a] = DestOf[b]
                             /\ destination_seq'[a] < destination_seq'[b]
                             /\ Fresh(a)'
                             => a \in view'[v] \cup passed_over'
      BY DEF ViewsFit
    <3>1. CASE v = w
      <4>1. status'[b] # "absent"
        BY <1>11, <2>5, <3>1
      <4>2. ASSUME NEW a \in Copies, DestOf[a] = DestOf[b], Fresh(a)'
            PROVE  a \in view'[v] \cup passed_over'
        BY <2>4, <3>1, <4>2
      <4> QED
        BY <4>1, <4>2
    <3>2. CASE v # w
      BY <1>2, <1>8, <2>2, <3>2
    <3> QED
      BY <3>1, <3>2
  <2>8. OverlapsKnown'
    <3> SUFFICES ASSUME NEW v \in Workers, pc'[v] = "claiming", NEW b \in view'[v],
                        NEW o \in InFlight', DestOf[o] = DestOf[b]
                 PROVE  o \in overlap'[v]
      BY DEF OverlapsKnown
    <3>1. CASE v = w
      BY <2>6, <3>1
    <3>2. CASE v # w
      BY <1>8, <2>2, <3>2
    <3> QED
      BY <3>1, <3>2
  <2> QED
    BY <1>5, <1>7, <2>7, <2>8 DEF Order
<1> QED
  BY <1>9, <1>10

\* The pick takes the oldest copy of the line that it does not pass over.
LEMMA OrderClaim ==
  ASSUME TypeOK, Order, NEW w \in Workers, NEW c \in Copies, NEW t \in Tokens,
         ClaimCopy(w, c, t)
  PROVE  Order'
<1>1. /\ pc[w] = "claiming" /\ c \in view[w] /\ status[c] = "pending"
      /\ UNCHANGED <<destination_seq, next_event_seq, found>>
      /\ passed_over' = passed_over \cup Passed(w, c)
      /\ status' = [status EXCEPT ![c] = "in_flight"]
  BY DEF ClaimCopy, sweepVars
<1>2. \A x \in Copies : /\ attempts[x] \in Nat /\ destination_seq[x] \in Nat
                        /\ status[x] \in Status
  BY DEF TypeOK
<1>3. /\ attempts'[c] > 0 /\ attempts'[c] \in Nat
      /\ attempts'[c] <= 1 => attempts[c] = 0
      /\ \A x \in Copies : x # c => attempts'[x] = attempts[x]
  <2>1. FailureThreshold \in Nat \ {0} /\ attempts[c] \in Nat
    BY QueueAssumption DEF TypeOK
  <2>2. attempts' = [attempts EXCEPT
                       ![c] = Smaller(attempts[c] + 1, FailureThreshold + 1)]
    BY DEF ClaimCopy, TypeOK
  <2>3. attempts'[c] = Smaller(attempts[c] + 1, FailureThreshold + 1)
    BY <2>2 DEF TypeOK
  <2>4. \A x \in Copies : x # c => attempts'[x] = attempts[x]
    BY <2>2 DEF TypeOK
  <2> QED
    BY <2>1, <2>3, <2>4 DEF Smaller
<1>4. /\ status'[c] = "in_flight"
      /\ \A x \in Copies : x # c => status'[x] = status[x]
  BY <1>1 DEF TypeOK
<1>5. Numbered' /\ Tried'
  <2>1. \A s \in Sweepers : \A x \in found[s] : x \in Copies
    BY DEF TypeOK
  <2> QED
    BY <1>1, <1>3, <1>4, <2>1 DEF Order, Numbered, Tried
<1>6. \A x \in Copies : Fresh(x)' => Fresh(x)
  BY <1>1, <1>3, <1>4 DEF Fresh
<1>7. ASSUME NEW a \in Copies, DestOf[a] = DestOf[c],
             destination_seq[a] < destination_seq[c], Fresh(a)
      PROVE  a \in passed_over'
  <2>1. a \in view[w] \cup passed_over
    BY <1>1, <1>7 DEF Order, ViewsFit
  <2> QED
    BY <1>1, <1>7, <2>1 DEF Passed, Fresh
<1>8. NoOvertaking'
  <2> SUFFICES ASSUME NEW a \in Copies, NEW b \in Copies,
                      DestOf[a] = DestOf[b],
                      destination_seq[a] < destination_seq[b],
                      status'[a] = "pending", attempts'[a] = 0, attempts'[b] > 0
               PROVE  a \in passed_over'
    BY <1>1 DEF NoOvertaking
  <2>1. a # c /\ status[a] = "pending" /\ attempts[a] = 0
    BY <1>3, <1>4
  <2>2. CASE b = c
    BY <1>7, <2>1, <2>2 DEF Fresh
  <2>3. CASE b # c
    BY <1>1, <1>3, <2>1, <2>3 DEF Order, NoOvertaking
  <2> QED
    BY <2>2, <2>3
<1>9. FreshQueueIsSerial'
  <2> SUFFICES ASSUME NEW a \in Copies, NEW b \in Copies,
                      status'[a] = "in_flight", status'[b] = "in_flight",
                      DestOf[a] = DestOf[b],
                      destination_seq[a] < destination_seq[b],
                      ~(attempts'[a] > 1)
               PROVE  a \in passed_over'
    BY <1>1 DEF FreshQueueIsSerial, InFlight
  <2>1. CASE a = c
    <3>1. attempts[a] = 0 /\ b # c /\ status[b] = "in_flight"
      BY <1>2, <1>3, <1>4, <2>1
    <3>2. attempts[b] > 0
      BY <3>1 DEF Order, Tried
    <3> QED
      BY <1>1, <2>1, <3>1, <3>2 DEF Order, NoOvertaking
  <2>2. CASE a # c /\ b = c
    <3>1. Fresh(a)
      BY <1>2, <1>3, <1>4, <2>2 DEF Fresh
    <3> QED
      BY <1>7, <2>2, <3>1
  <2>3. CASE a # c /\ b # c
    BY <1>1, <1>3, <1>4, <2>3 DEF Order, FreshQueueIsSerial, InFlight
  <2> QED
    BY <2>1, <2>2, <2>3
<1>10. \A v \in Workers : pc'[v] = "claiming" =>
         /\ v # w /\ pc[v] = "claiming" /\ view'[v] = view[v]
         /\ overlap'[v] = overlap[v] \cup {c}
  BY DEF ClaimCopy, TypeOK
<1>11. ViewsFit'
  <2>1. \A x \in Copies : status[x] # "absent" => status'[x] # "absent"
    BY <1>4
  <2>2. passed_over \subseteq passed_over'
    BY <1>1
  <2> QED
    BY <1>1, <1>6, <1>10, <2>1, <2>2 DEF Order, ViewsFit, TypeOK
<1>12. OverlapsKnown'
  BY <1>4, <1>10 DEF Order, OverlapsKnown, InFlight
<1> QED
  BY <1>5, <1>8, <1>9, <1>11, <1>12 DEF Order

\* Fan-out takes the end of the queue.
LEMMA OrderStore ==
  ASSUME TypeOK, Order, NEW c \in Copies, StoreEvent(c)
  PROVE  Order'
<1> DEFINE d == DestOf[c]
<1>1. d \in Dests /\ next_event_seq[d] \in Nat
  BY QueueAssumption DEF TypeOK
<1>2. /\ next_event_seq' = [next_event_seq EXCEPT ![d] = next_event_seq[d] + 1]
      /\ destination_seq' = [destination_seq EXCEPT ![c] = next_event_seq[d] + 1]
      /\ status' = [status EXCEPT ![c] = "pending"]
      /\ UNCHANGED <<attempts, pc, view, overlap, found, passed_over>>
      /\ status[c] = "absent"
  BY DEF StoreEvent, TypeOK, processVars, workerVars, claimVars, sweepVars
<1>3. \A x \in Copies : /\ destination_seq[x] \in Nat
                        /\ DestOf[x] \in Dests
                        /\ next_event_seq[DestOf[x]] \in Nat
                        /\ attempts[x] \in Nat
  BY QueueAssumption DEF TypeOK
<1>4. /\ destination_seq'[c] = next_event_seq[d] + 1
      /\ next_event_seq'[d] = next_event_seq[d] + 1
      /\ status'[c] = "pending" /\ attempts[c] = 0
      /\ \A x \in Copies : x # c => /\ destination_seq'[x] = destination_seq[x]
                                   /\ status'[x] = status[x]
      /\ \A o \in Dests : o # d => next_event_seq'[o] = next_event_seq[o]
  BY <1>1, <1>2 DEF TypeOK, Order, Tried
<1>5. Numbered'
  BY <1>1, <1>3, <1>4 DEF Order, Numbered
<1>6. Tried'
  BY <1>2, <1>4 DEF Order, Tried
<1>7. ASSUME NEW a \in Copies, NEW b \in Copies, b # c,
             DestOf[a] = DestOf[b], destination_seq'[a] < destination_seq'[b]
      PROVE  a # c /\ destination_seq[a] < destination_seq[b]
  BY <1>1, <1>3, <1>4, <1>7 DEF Order, Numbered
<1>8. NoOvertaking'
  <2> SUFFICES ASSUME NEW a \in Copies, NEW b \in Copies,
                      DestOf[a] = DestOf[b],
                      destination_seq'[a] < destination_seq'[b],
                      status'[a] = "pending", attempts[a] = 0, attempts[b] > 0
               PROVE  a \in passed_over
    BY <1>2 DEF NoOvertaking
  <2>1. b # c
    BY <1>4
  <2> QED
    BY <1>4, <1>7, <2>1 DEF Order, NoOvertaking
<1>9. FreshQueueIsSerial'
  <2> SUFFICES ASSUME NEW a \in Copies, NEW b \in Copies,
                      status'[a] = "in_flight", status'[b] = "in_flight",
                      DestOf[a] = DestOf[b],
                      destination_seq'[a] < destination_seq'[b]
               PROVE  a \in passed_over \/ attempts[a] > 1
    BY <1>2 DEF FreshQueueIsSerial, InFlight
  <2>1. b # c
    BY <1>4
  <2> QED
    BY <1>4, <1>7, <2>1 DEF Order, FreshQueueIsSerial, InFlight
<1>10. ViewsFit'
  <2> SUFFICES ASSUME NEW v \in Workers, pc[v] = "claiming", NEW b \in view[v]
               PROVE  /\ status'[b] # "absent"
                      /\ \A a \in Copies :
                           /\ DestOf[a] = DestOf[b]
                           /\ destination_seq'[a] < destination_seq'[b]
                           /\ Fresh(a)'
                           => a \in view[v] \cup passed_over
    BY <1>2 DEF ViewsFit
  <2>1. b \in Copies /\ status[b] # "absent" /\ b # c
    BY <1>2 DEF Order, ViewsFit, TypeOK
  <2>2. status'[b] # "absent"
    BY <1>4, <2>1
  <2>3. ASSUME NEW a \in Copies, DestOf[a] = DestOf[b],
               destination_seq'[a] < destination_seq'[b], Fresh(a)'
        PROVE  a \in view[v] \cup passed_over
    <3>1. a # c /\ destination_seq[a] < destination_seq[b]
      BY <1>7, <2>1, <2>3
    <3>2. Fresh(a)
      BY <1>2, <1>4, <2>3, <3>1 DEF Fresh
    <3> QED
      BY <2>3, <3>1, <3>2 DEF Order, ViewsFit
  <2> QED
    BY <2>2, <2>3
<1>11. OverlapsKnown'
  <2>1. \A x \in Copies : status'[x] = "in_flight" => status[x] = "in_flight"
    BY <1>4
  <2> QED
    BY <1>2, <2>1 DEF Order, OverlapsKnown, InFlight
<1> QED
  BY <1>5, <1>6, <1>8, <1>9, <1>10, <1>11 DEF Order

\* Every step keeps the order.
LEMMA OrderStep ==
  ASSUME Ownership, Reconciliation, Order, Next
  PROVE  Order'
<1>0. TypeOK /\ ClaimsFit /\ ExhaustedFound
  BY DEF Ownership
<1>1. CASE \E w \in Workers, c \in Copies, t \in Tokens : ClaimCopy(w, c, t)
  BY <1>0, <1>1, OrderClaim
<1>2. CASE \E c \in Copies : StoreEvent(c)
  BY <1>0, <1>2, OrderStore
<1>3. CASE \E w \in Workers, Expired \in SUBSET Copies : TakeSnapshot(w, Expired)
  BY <1>0, <1>3, OrderSnapshot
<1>4. ASSUME ~ \E w \in Workers, c \in Copies, t \in Tokens : ClaimCopy(w, c, t),
             UNCHANGED <<destination_seq, next_event_seq, passed_over>>,
             \A x \in Copies : status[x] = "absent" => status'[x] = "absent",
             \A v \in Workers : pc'[v] = "claiming" =>
               /\ pc[v] = "claiming" /\ view'[v] = view[v]
               /\ overlap'[v] = overlap[v],
             \A s \in Sweepers : \A c \in found'[s] :
               c \in found[s] \/ (c \in Copies /\ attempts[c] > 0)
      PROVE  Order'
  <2>1. \A x \in Copies : Moves(x)
    BY RowsMove
  <2>2. /\ UNCHANGED attempts
        /\ \A x \in Copies : status'[x] = "in_flight" => status[x] = "in_flight"
    BY <1>4, OnlyPickClaims
  <2> QED
    BY <1>0, <1>4, <2>1, <2>2, OrderRows
<1>5. ASSUME NEW w \in Workers, WorkerStep(w),
             ~ \E c \in Copies, t \in Tokens : ClaimCopy(w, c, t),
             ~ \E Expired \in SUBSET Copies : TakeSnapshot(w, Expired)
      PROVE  /\ UNCHANGED <<destination_seq, next_event_seq, passed_over, found>>
             /\ \A x \in Copies : status[x] = "absent" => status'[x] = "absent"
             /\ \A v \in Workers : pc'[v] = "claiming" =>
                  /\ pc[v] = "claiming" /\ view'[v] = view[v]
                  /\ overlap'[v] = overlap[v]
  <2>1. CASE ClaimNothing(w)
    BY <1>0, <2>1 DEF ClaimNothing, copyVars, destVars, sweepVars, TypeOK
  <2>2. CASE Heartbeat(w)
    BY <2>2 DEF Heartbeat, destVars, claimVars, sweepVars
  <2>3. ASSUME UNCHANGED <<destination_seq, next_event_seq, passed_over, found>>,
               \A x \in Copies : status[x] = "absent" => status'[x] = "absent",
               NEW p \in {"idle", "responded", "recording"},
               pc' = [pc EXCEPT ![w] = p], UNCHANGED <<view, overlap>>
        PROVE  \A v \in Workers : pc'[v] = "claiming" =>
                 /\ pc[v] = "claiming" /\ view'[v] = view[v]
                 /\ overlap'[v] = overlap[v]
    BY <1>0, <2>3 DEF TypeOK
  <2>4. CASE (\E r \in {"success", "failure"} : Deliver(w, r)) \/ RecordCheck(w)
               \/ WorkerDies(w)
    <3>1. /\ UNCHANGED <<destination_seq, next_event_seq, passed_over, found,
                         status, view, overlap>>
          /\ \E p \in {"idle", "responded", "recording"} : pc' = [pc EXCEPT ![w] = p]
      BY <2>4 DEF Deliver, RecordCheck, WorkerDies, GoIdle, copyVars, destVars, sweepVars
    <3> QED
      BY <2>3, <3>1
  <2>5. CASE RecordWrite(w)
    <3>1. /\ UNCHANGED <<passed_over, found, view, overlap>>
          /\ pc' = [pc EXCEPT ![w] = "idle"]
      BY <2>5 DEF RecordWrite, GoIdle, sweepVars
    <3>2. UNCHANGED next_event_seq
      BY <2>5 DEF RecordWrite, WriteSuccess, WriteCutoff, WriteUncharged,
                  WriteFailure, WriteRefused, destVars
    <3>3. /\ UNCHANGED destination_seq
          /\ \A x \in Copies : status[x] = "absent" => status'[x] = "absent"
      <4>1. CASE UNCHANGED <<destVars, copyVars>>
        BY <4>1 DEF copyVars
      <4>2. CASE ~UNCHANGED <<destVars, copyVars>>
        BY <1>0, <2>5, <4>2, WriteStatus DEF CloseClaim, TypeOK
      <4> QED
        BY <4>1, <4>2
    <3> QED
      BY <2>3, <3>1, <3>2, <3>3
  <2> QED
    BY <1>5, <2>1, <2>2, <2>4, <2>5 DEF WorkerStep, ClaimNextEvent
<1>6. ASSUME UNCHANGED <<destination_seq, next_event_seq, pc, view, overlap,
                         passed_over>>,
             ~ \E w \in Workers, c \in Copies, t \in Tokens : ClaimCopy(w, c, t),
             \A x \in Copies : status[x] = "absent" => status'[x] = "absent",
             \A s \in Sweepers : \A c \in found'[s] :
               c \in found[s] \/ (c \in Copies /\ attempts[c] > 0)
      PROVE  Order'
  BY <1>4, <1>6
<1>7. ASSUME NEW c \in Copies, CopyStep(c), ~StoreEvent(c)
      PROVE  /\ UNCHANGED <<destination_seq, next_event_seq, pc, view, overlap,
                            passed_over, found>>
             /\ \A x \in Copies : status[x] = "absent" => status'[x] = "absent"
  <2>1. UNCHANGED <<destination_seq, next_event_seq, pc, view, overlap,
                    passed_over, found>>
    BY <1>7 DEF CopyStep, IngestReceipt, Conclude, RequeueDelivery,
         Requeue, ReviveDeadLetter, BackToQueue, UpdateDeliverBy,
         BackoffElapses, CutoffPasses, LeaseExpires, processVars, workerVars,
         claimVars, sweepVars, destVars
  <2>2. CASE IngestReceipt(c)
    <3>1. status[c] = "delivered"
      BY <2>2 DEF IngestReceipt, Conclude, Reconciliation, AwaitedIsDelivered
    <3> QED
      BY <1>0, <2>1, <2>2, <3>1 DEF IngestReceipt, Conclude, TypeOK
  <2>3. CASE RequeueDelivery(c) \/ ReviveDeadLetter(c)
    BY <2>1, <2>3 DEF RequeueDelivery, Requeueable, Requeue, ReviveDeadLetter, BackToQueue
  <2>4. CASE UpdateDeliverBy(c) \/ BackoffElapses(c) \/ CutoffPasses(c) \/ LeaseExpires(c)
    BY <2>1, <2>4 DEF UpdateDeliverBy, BackoffElapses, CutoffPasses, LeaseExpires
  <2> QED
    BY <1>7, <2>2, <2>3, <2>4 DEF CopyStep
<1>8. ASSUME NEW d \in Dests, DestStep(d)
      PROVE  /\ UNCHANGED <<destination_seq, next_event_seq, pc, view, overlap,
                            passed_over, found>>
             /\ \A x \in Copies : status[x] = "absent" => status'[x] = "absent"
  <2>1. UNCHANGED <<destination_seq, next_event_seq, pc, view, overlap,
                    passed_over, found>>
    BY <1>8 DEF DestStep, RequeueUnreconciled, Requeue, BackToQueue, Relocate,
         RecoverDestination, PauseDestination, ResumeDestination,
         ConfirmDestination, QuarantineElapses, processVars, workerVars,
         claimVars, sweepVars, destVars, copyVars
  <2>2. \A x \in Copies : status[x] = "absent" => status'[x] = "absent"
    BY <1>8 DEF DestStep, RequeueUnreconciled, Requeueable, Requeue,
         BackToQueue, Relocate, RecoverDestination, PauseDestination,
         ResumeDestination, ConfirmDestination, QuarantineElapses, copyVars
  <2> QED
    BY <2>1, <2>2
<1>9. ASSUME NEW s \in Sweepers, NEW S \in SUBSET Copies, SweepSelect(s, S),
             ~ \E w \in Workers, c \in Copies, t \in Tokens : ClaimCopy(w, c, t)
      PROVE  Order'
  <2>1. UNCHANGED <<destination_seq, next_event_seq, pc, view, overlap,
                    passed_over, status>>
    BY <1>9 DEF SweepSelect, destVars, copyVars, workerVars, claimVars
  <2>2. \A c \in S : c \in Copies /\ attempts[c] > 0
    BY <1>9 DEF SweepSelect, Reconciliation, AwaitedIsDelivered, Order, Tried
  <2>3. \A r \in Sweepers : found'[r] = found[r] \/ found'[r] = S
    BY <1>0, <1>9 DEF SweepSelect, TypeOK
  <2> QED
    BY <1>6, <1>9, <2>1, <2>2, <2>3
<1>10. ASSUME NEW s \in Sweepers, SweepCommit(s),
             ~ \E w \in Workers, c \in Copies, t \in Tokens : ClaimCopy(w, c, t)
       PROVE  Order'
  <2>1. UNCHANGED <<destination_seq, next_event_seq, pc, view, overlap,
                    passed_over>>
    BY <1>10 DEF SweepCommit, destVars, workerVars, claimVars
  <2>2. \A c \in exhausted[s] : attempts[c] > 0
    BY <1>0 DEF ExhaustedFound, Order, Tried
  <2>3. \A x \in Copies : status[x] = "absent" => status'[x] = "absent"
    BY <1>0, <1>10, <2>2 DEF SweepCommit, Order, Tried
  <2>4. \A r \in Sweepers : \A c \in found'[r] : c \in found[r]
    BY <1>0, <1>10 DEF SweepCommit, TypeOK
  <2> QED
    BY <1>6, <1>10, <2>1, <2>3, <2>4
<1>11. ASSUME NEW S \in SUBSET Copies, ExpireDeliveryDeadlines(S)
       PROVE  /\ UNCHANGED <<destination_seq, next_event_seq, pc, view, overlap,
                             passed_over, found>>
              /\ \A x \in Copies : status[x] = "absent" => status'[x] = "absent"
  BY <1>11 DEF ExpireDeliveryDeadlines, processVars, workerVars, claimVars,
               sweepVars, destVars
<1>12. ASSUME UNCHANGED found
       PROVE  \A s \in Sweepers : \A c \in found'[s] : c \in found[s]
  BY <1>12
<1>13. CASE /\ ~ \E w \in Workers, c \in Copies, t \in Tokens : ClaimCopy(w, c, t)
            /\ ~ \E c \in Copies : StoreEvent(c)
            /\ ~ \E w \in Workers, Expired \in SUBSET Copies :
                    TakeSnapshot(w, Expired)
  <2>1. ASSUME NEW w \in Workers, WorkerStep(w) PROVE Order'
    BY <1>4, <1>5, <1>12, <1>13, <2>1
  <2>2. ASSUME NEW c \in Copies, CopyStep(c) PROVE Order'
    BY <1>6, <1>7, <1>12, <1>13, <2>2
  <2>3. ASSUME NEW d \in Dests, DestStep(d) PROVE Order'
    BY <1>6, <1>8, <1>12, <1>13, <2>3
  <2>4. ASSUME NEW S \in SUBSET Copies, ExpireDeliveryDeadlines(S) PROVE Order'
    BY <1>6, <1>11, <1>12, <1>13, <2>4
  <2> QED
    BY <1>9, <1>10, <1>13, <2>1, <2>2, <2>3, <2>4 DEF Next
<1> QED
  BY <1>1, <1>2, <1>3, <1>13

----------------------------------------------------------------------------
(***************************************************************************)
(* Cutoffs: what a late result means.                                      *)
(***************************************************************************)
\* What a thread holds was fanned out.
ClaimedExist ==
  \A w \in Workers : Busy(w) => status[claim[w].copy] # "absent"

\* A result is late only by a cutoff that its row still has.
LateByCutoff ==
  \A w \in Workers : late[w] => /\ Busy(w) /\ pc[w] # "sending"
                                /\ deliver_by[claim[w].copy] = "past"

Cutoffs == ClaimedExist /\ LateByCutoff

\* Threads that keep their claim and their result keep the cutoff they were
\* late by, unless it is moved.
LEMMA CutoffsFrame ==
  ASSUME Ownership, Reconciliation, Cutoffs, Next,
         UNCHANGED <<pc, claim, late>>,
         \A x \in Copies : deliver_by'[x] = deliver_by[x]
                             \/ deliver_by[x] # "past" \/ status[x] = "absent"
  PROVE  Cutoffs'
<1>1. \A w \in Workers : Busy(w) => claim[w].copy \in Copies
  BY DEF Ownership, ClaimsFit
<1>2. \A x \in Copies : status[x] # "absent" => status'[x] # "absent"
  BY RowsMove DEF Moves
<1>3. \A w \in Workers : Busy(w)' <=> Busy(w)
  BY DEF Busy
<1>4. ClaimedExist'
  BY <1>1, <1>2, <1>3 DEF Cutoffs, ClaimedExist
<1>5. LateByCutoff'
  BY <1>1, <1>3 DEF Cutoffs, ClaimedExist, LateByCutoff
<1> QED
  BY <1>4, <1>5 DEF Cutoffs

\* A step of one thread leaves the claims of the others alone.
LEMMA CutoffsThread ==
  ASSUME Ownership, Reconciliation, Cutoffs, Next, UNCHANGED deliver_by,
         NEW w \in Workers,
         \A v \in Workers \ {w} : /\ pc'[v] = pc[v] /\ claim'[v] = claim[v]
                                  /\ late'[v] = late[v],
         Busy(w)' => status'[claim'[w].copy] # "absent",
         late'[w] => /\ Busy(w)' /\ pc'[w] # "sending"
                     /\ deliver_by[claim'[w].copy] = "past"
  PROVE  Cutoffs'
<1>1. \A v \in Workers : Busy(v) => claim[v].copy \in Copies
  BY DEF Ownership, ClaimsFit
<1>2. \A x \in Copies : status[x] # "absent" => status'[x] # "absent"
  BY RowsMove DEF Moves
<1>3. ASSUME NEW v \in Workers, v # w
      PROVE  /\ Busy(v)' => status'[claim'[v].copy] # "absent"
             /\ late'[v] => /\ Busy(v)' /\ pc'[v] # "sending"
                            /\ deliver_by[claim'[v].copy] = "past"
  <2>1. Busy(v)' <=> Busy(v)
    BY <1>3 DEF Busy
  <2> QED
    BY <1>1, <1>2, <1>3, <2>1 DEF Cutoffs, ClaimedExist, LateByCutoff
<1>4. ClaimedExist'
  BY <1>3 DEF ClaimedExist
<1>5. LateByCutoff'
  BY <1>3 DEF LateByCutoff
<1> QED
  BY <1>4, <1>5 DEF Cutoffs

\* Every step keeps the cutoffs' meaning.
LEMMA CutoffsStep ==
  ASSUME Ownership, Reconciliation, Cutoffs, Next
  PROVE  Cutoffs'
<1>0. TypeOK /\ ClaimsFit
  BY DEF Ownership
<1>1. ASSUME NEW w \in Workers, WorkerStep(w) PROVE Cutoffs'
  <2>1. ASSUME UNCHANGED <<claim, late, deliver_by>>, ~Busy(w), ~Busy(w)',
               \A v \in Workers \ {w} : pc'[v] = pc[v]
        PROVE  Cutoffs'
    <3>1. ~late[w]
      BY <2>1 DEF Cutoffs, LateByCutoff
    <3> QED
      BY <2>1, <3>1, CutoffsThread
  <2>2. CASE \E Expired \in SUBSET Copies : TakeSnapshot(w, Expired)
    <3>1. /\ UNCHANGED <<claim, late, deliver_by>> /\ pc[w] = "idle"
          /\ UNCHANGED pc \/ pc' = [pc EXCEPT ![w] = "claiming"]
      BY <2>2 DEF TakeSnapshot, TidyRows, resultVars
    <3>2. /\ ~Busy(w) /\ ~Busy(w)'
          /\ \A v \in Workers \ {w} : pc'[v] = pc[v]
      BY <1>0, <3>1 DEF Busy, TypeOK
    <3> QED
      BY <2>1, <3>1, <3>2
  <2>3. CASE ClaimNothing(w)
    <3>1. /\ UNCHANGED <<claim, late, deliver_by>> /\ pc[w] = "claiming"
          /\ pc' = [pc EXCEPT ![w] = "idle"]
      BY <2>3 DEF ClaimNothing, copyVars, resultVars
    <3>2. /\ ~Busy(w) /\ ~Busy(w)'
          /\ \A v \in Workers \ {w} : pc'[v] = pc[v]
      BY <1>0, <3>1 DEF Busy, TypeOK
    <3> QED
      BY <2>1, <3>1, <3>2
  <2>4. ASSUME NEW c \in Copies, NEW t \in Tokens, ClaimCopy(w, c, t)
        PROVE  Cutoffs'
    <3>1. UNCHANGED <<late, deliver_by>> /\ pc[w] = "claiming"
      BY <2>4 DEF ClaimCopy, resultVars
    <3>2. ~late[w]
      BY <3>1 DEF Cutoffs, LateByCutoff, Busy
    <3>3. \A v \in Workers \ {w} : pc'[v] = pc[v] /\ claim'[v] = claim[v]
      BY <1>0, <2>4 DEF ClaimCopy, TypeOK
    <3>4. claim'[w].copy = c /\ status'[c] = "in_flight"
      BY <1>0, <2>4 DEF ClaimCopy, TypeOK
    <3> QED
      BY <3>1, <3>2, <3>3, <3>4, CutoffsThread
  <2>5. CASE Heartbeat(w)
    BY <2>5, CutoffsFrame DEF Heartbeat, claimVars
  <2>6. CASE \E r \in {"success", "failure"} : Deliver(w, r)
    <3>1. UNCHANGED <<claim, status, deliver_by>> /\ pc[w] = "sending"
      BY <2>6 DEF Deliver, copyVars
    <3>2. /\ late'[w] <=> deliver_by[claim[w].copy] = "past"
          /\ pc'[w] = "responded"
          /\ \A v \in Workers \ {w} : pc'[v] = pc[v] /\ late'[v] = late[v]
      BY <1>0, <2>6 DEF Deliver, TypeOK
    <3>3. status[claim[w].copy] # "absent"
      BY <3>1 DEF Cutoffs, ClaimedExist, Busy
    <3>4. Busy(w)'
      BY <3>2 DEF Busy
    <3> QED
      BY <3>1, <3>2, <3>3, <3>4, CutoffsThread
  <2>7. ASSUME GoIdle(w), UNCHANGED deliver_by PROVE Cutoffs'
    <3>1. pc'[w] = "idle" /\ ~late'[w]
      BY <1>0, <2>7 DEF GoIdle, TypeOK
    <3>2. \A v \in Workers \ {w} : /\ pc'[v] = pc[v] /\ claim'[v] = claim[v]
                                   /\ late'[v] = late[v]
      BY <1>0, <2>7 DEF GoIdle, TypeOK
    <3>3. ~Busy(w)'
      BY <3>1 DEF Busy
    <3> QED
      BY <2>7, <3>1, <3>2, <3>3, CutoffsThread
  <2>8. CASE RecordCheck(w)
    <3>1. UNCHANGED <<status, deliver_by>> /\ pc[w] = "responded"
      BY <2>8 DEF RecordCheck, copyVars
    <3>2. CASE GoIdle(w)
      BY <2>7, <3>1, <3>2
    <3>3. CASE ~GoIdle(w)
      <4>1. UNCHANGED <<claim, late>> /\ pc' = [pc EXCEPT ![w] = "recording"]
        BY <2>8, <3>3 DEF RecordCheck
      <4>2. pc'[w] = "recording" /\ \A v \in Workers \ {w} : pc'[v] = pc[v]
        BY <1>0, <4>1 DEF TypeOK
      <4>3. /\ status[claim[w].copy] # "absent"
            /\ late[w] => deliver_by[claim[w].copy] = "past"
        BY <3>1 DEF Cutoffs, ClaimedExist, LateByCutoff, Busy
      <4>4. Busy(w)'
        BY <4>2 DEF Busy
      <4> QED
        BY <3>1, <4>1, <4>2, <4>3, <4>4, CutoffsThread
    <3> QED
      BY <3>2, <3>3
  <2>9. CASE RecordWrite(w)
    <3>1. GoIdle(w) /\ UNCHANGED deliver_by
      BY <2>9 DEF RecordWrite, WriteSuccess, WriteCutoff, WriteUncharged,
                  WriteFailure, WriteRefused, CloseClaim, copyVars
    <3> QED
      BY <2>7, <3>1
  <2>10. CASE WorkerDies(w)
    BY <2>7, <2>10 DEF WorkerDies, copyVars
  <2> QED
    BY <1>1, <2>2, <2>3, <2>4, <2>5, <2>6, <2>8, <2>9, <2>10
    DEF WorkerStep, ClaimNextEvent
<1>2. ASSUME NEW c \in Copies, CopyStep(c) PROVE Cutoffs'
  <2>1. CASE StoreEvent(c)
    <3>1. UNCHANGED <<pc, claim, late>> /\ status[c] = "absent"
      BY <2>1 DEF StoreEvent, processVars, workerVars, claimVars, resultVars
    <3>2. \A x \in Copies : x # c => deliver_by'[x] = deliver_by[x]
      BY <1>0, <2>1 DEF StoreEvent, TypeOK
    <3> QED
      BY <3>1, <3>2, CutoffsFrame
  <2>2. CASE UpdateDeliverBy(c)
    <3>1. PICK v \in Instant, after \in BOOLEAN :
            /\ after => v = "past"
            /\ deliver_by' = [deliver_by EXCEPT ![c] = v]
            /\ late' = [w \in Workers |->
                          IF claim[w].copy = c /\ pc[w] # "sending" THEN after
                          ELSE late[w]]
      BY <2>2 DEF UpdateDeliverBy
    <3>2. UNCHANGED <<pc, claim, status>>
      BY <2>2 DEF UpdateDeliverBy, claimVars
    <3>3. \A w \in Workers : Busy(w)' <=> Busy(w)
      BY <3>2 DEF Busy
    <3>4. ClaimedExist'
      BY <3>2, <3>3 DEF Cutoffs, ClaimedExist
    <3>5. ASSUME NEW w \in Workers, late'[w]
          PROVE  /\ Busy(w) /\ pc[w] # "sending"
                 /\ deliver_by'[claim[w].copy] = "past"
      <4>1. CASE claim[w].copy = c /\ pc[w] # "sending"
        <5>1. after /\ deliver_by'[c] = "past"
          BY <1>0, <3>1, <3>5, <4>1 DEF TypeOK
        <5>2. c # Null /\ NoClaim.copy = Null
          BY QueueAssumption DEF NoClaim
        <5>3. Busy(w)
          BY <1>0, <4>1, <5>2 DEF ClaimsFit
        <5> QED
          BY <4>1, <5>1, <5>3
      <4>2. CASE ~(claim[w].copy = c /\ pc[w] # "sending")
        <5>1. late[w]
          BY <3>1, <3>5, <4>2
        <5>2. /\ Busy(w) /\ pc[w] # "sending"
              /\ deliver_by[claim[w].copy] = "past"
          BY <5>1 DEF Cutoffs, LateByCutoff
        <5> QED
          BY <1>0, <3>1, <4>2, <5>2 DEF TypeOK
      <4> QED
        BY <4>1, <4>2
    <3>6. LateByCutoff'
      BY <3>2, <3>3, <3>5 DEF LateByCutoff
    <3> QED
      BY <3>4, <3>6 DEF Cutoffs
  <2>3. CASE CutoffPasses(c)
    <3>1. UNCHANGED <<pc, claim, late>> /\ deliver_by[c] = "future"
      BY <2>3 DEF CutoffPasses, processVars, workerVars, claimVars, resultVars
    <3>2. \A x \in Copies : x # c => deliver_by'[x] = deliver_by[x]
      BY <1>0, <2>3 DEF CutoffPasses, TypeOK
    <3> QED
      BY <3>1, <3>2, CutoffsFrame
  <2>4. CASE IngestReceipt(c) \/ RequeueDelivery(c) \/ ReviveDeadLetter(c)
               \/ BackoffElapses(c) \/ LeaseExpires(c)
    <3>1. UNCHANGED <<pc, claim, late, deliver_by>>
      BY <2>4 DEF IngestReceipt, Conclude, RequeueDelivery, Requeue,
           ReviveDeadLetter, BackToQueue, BackoffElapses, LeaseExpires,
           processVars, workerVars, claimVars, resultVars
    <3> QED
      BY <3>1, CutoffsFrame
  <2> QED
    BY <1>2, <2>1, <2>2, <2>3, <2>4 DEF CopyStep
<1>3. ASSUME NEW d \in Dests, DestStep(d) PROVE Cutoffs'
  <2>1. UNCHANGED <<pc, claim, late, deliver_by>>
    BY <1>3 DEF DestStep, RequeueUnreconciled, Requeue, BackToQueue, Relocate,
         RecoverDestination, PauseDestination, ResumeDestination,
         ConfirmDestination, QuarantineElapses, copyVars, processVars,
         workerVars, claimVars, resultVars
  <2> QED
    BY <2>1, CutoffsFrame
<1>4. CASE \/ \E s \in Sweepers, S \in SUBSET Copies : SweepSelect(s, S)
           \/ \E s \in Sweepers : SweepCommit(s)
           \/ \E S \in SUBSET Copies : ExpireDeliveryDeadlines(S)
  <2>1. UNCHANGED <<pc, claim, late, deliver_by>>
    BY <1>4 DEF SweepSelect, SweepCommit, ExpireDeliveryDeadlines, copyVars,
         processVars, workerVars, claimVars, resultVars
  <2> QED
    BY <2>1, CutoffsFrame
<1> QED
  BY <1>1, <1>2, <1>3, <1>4 DEF Next

----------------------------------------------------------------------------
(***************************************************************************)
(* The inductive invariant and what follows from it.                       *)
(***************************************************************************)
IInv == /\ Ownership
        /\ Reconciliation
        /\ ActiveIsBelowThreshold
        /\ Streaks
        /\ Order
        /\ Cutoffs

\* The empty queue satisfies the inductive invariant.
LEMMA InitIInv == Init => IInv
<1> SUFFICES ASSUME Init PROVE IInv
  OBVIOUS
<1>0. FailureThreshold \in Nat \ {0} /\ MaxDeliveryAttempts \in Nat \ {0}
      /\ DestOf \in [Copies -> Dests]
  BY QueueAssumption
<1>1. \A w \in Workers : pc[w] = "idle" /\ ~Busy(w)
  BY DEF Init, Busy
<1>2. Ownership
  BY <1>1, InitType DEF Init, Ownership, ClaimsFit, TokensDiffer, ExhaustedFound
<1>3. Reconciliation
  BY DEF Init, Reconciliation, CountdownOnlyAfterDelivery, AwaitedIsDelivered
<1>4. ActiveIsBelowThreshold
  BY <1>0 DEF Init, ActiveIsBelowThreshold
<1>5. Streaks
  BY <1>0, <1>1 DEF Init, Streaks, OwnersStreak, StreakReset, AttemptsLeftInQueue
<1>6. Order
  <2>1. ViewsFit /\ OverlapsKnown
    BY <1>1 DEF ViewsFit, OverlapsKnown
  <2>2. Numbered /\ Tried /\ NoOvertaking
    BY <1>0 DEF Init, Numbered, Tried, NoOvertaking
  <2>3. FreshQueueIsSerial
    BY DEF Init, FreshQueueIsSerial, InFlight
  <2> QED
    BY <2>1, <2>2, <2>3 DEF Order
<1>7. Cutoffs
  BY <1>1 DEF Init, Cutoffs, ClaimedExist, LateByCutoff
<1> QED
  BY <1>2, <1>3, <1>4, <1>5, <1>6, <1>7 DEF IInv

\* No committed transaction breaks the inductive invariant.
LEMMA NextIInv == IInv /\ [Next]_vars => IInv'
<1> SUFFICES ASSUME IInv, [Next]_vars PROVE IInv'
  OBVIOUS
<1>1. CASE Next
  <2>1. Ownership' /\ Reconciliation' /\ ActiveIsBelowThreshold'
    BY <1>1, OwnershipStep, ReconciliationStep, IsolationStep DEF IInv
  <2>2. Streaks' /\ Order' /\ Cutoffs'
    BY <1>1, StreaksStep, OrderStep, CutoffsStep DEF IInv
  <2> QED
    BY <2>1, <2>2 DEF IInv
<1>2. CASE UNCHANGED vars
  <2>1. /\ UNCHANGED <<status, destination_seq, attempts, consecutive_failures,
                       claim_token, deliver_by, reconcile_state, next_event_seq,
                       dest_status, failure_count, recoverable_at>>
        /\ UNCHANGED <<pc, view, claim, overlap, late, found, exhausted,
                       passed_over>>
    BY <1>2 DEF vars, destVars, copyVars, processVars, workerVars, claimVars,
                resultVars, sweepVars, boundVars
  <2>2. TypeOK'
    BY <1>2 DEF IInv, Ownership, TypeOK, vars, destVars, copyVars, processVars,
                workerVars, claimVars, resultVars, sweepVars, boundVars
  <2>3. Ownership'
    BY <2>1, <2>2, OwnershipFrame DEF IInv
  <2>4. Reconciliation' /\ ActiveIsBelowThreshold'
    BY <2>1 DEF IInv, Reconciliation, CountdownOnlyAfterDelivery,
                AwaitedIsDelivered, ActiveIsBelowThreshold
  <2>5. Streaks' /\ Cutoffs'
    BY <2>1 DEF IInv, Streaks, OwnersStreak, StreakReset, AttemptsLeftInQueue,
                Owns, Busy, Cutoffs, ClaimedExist, LateByCutoff
  <2>6. Order'
    BY <2>1 DEF IInv, Order, Numbered, Tried, ViewsFit, OverlapsKnown, Fresh,
                NoOvertaking, FreshQueueIsSerial, InFlight
  <2> QED
    BY <2>3, <2>4, <2>5, <2>6 DEF IInv
<1> QED
  BY <1>1, <1>2

\* The inductive invariant holds in every reachable state.
THEOREM QueueInvariant == Spec => []IInv
BY InitIInv, NextIInv, PTL DEF Spec

\* Two copies of a destination are in flight only if the older one was in
\* flight before, or was locked when a claim came past it.
THEOREM FirstFlightsAreSerial == Spec => []FreshQueueIsSerial
<1>1. IInv => FreshQueueIsSerial
  BY DEF IInv, Order
<1> QED
  BY <1>1, QueueInvariant, PTL

\* At most one thread passes still_owns_lease for a copy.
THEOREM OwnersAreExclusive == Spec => []OneOwnerPerCopy
<1>1. IInv => OneOwnerPerCopy
  BY DEF IInv, Ownership, ClaimsFit, TokensDiffer, Owns, Busy, OneOwnerPerCopy
<1> QED
  BY <1>1, QueueInvariant, PTL

\* First attempts follow destination_seq, but for copies that were locked.
THEOREM QueueOrder == Spec => []NoOvertaking
<1>1. IInv => NoOvertaking
  BY DEF IInv, Order
<1> QED
  BY <1>1, QueueInvariant, PTL

\* FAILURE_SQL parks a copy exactly at MaxDeliveryAttempts.
THEOREM ParkedInTime == Spec => []AttemptsLeftInQueue
<1>1. IInv => AttemptsLeftInQueue
  BY DEF IInv, Streaks
<1> QED
  BY <1>1, QueueInvariant, PTL

\* An active destination is below its threshold, with no recovery time left.
THEOREM ActiveMeansBelow == Spec => []ActiveIsBelowThreshold
<1>1. IInv => ActiveIsBelowThreshold
  BY DEF IInv
<1> QED
  BY <1>1, QueueInvariant, PTL

\* Only delivered copies wait for a receipt or have the receiver's verdict.
THEOREM CountdownIsAfterDelivery == Spec => []CountdownOnlyAfterDelivery
<1>1. IInv => CountdownOnlyAfterDelivery
  BY DEF IInv, Reconciliation
<1> QED
  BY <1>1, QueueInvariant, PTL

\* A copy is claimed beside another only after that one was claimed in the
\* course of the same statement.
LEMMA PickStep ==
  ASSUME IInv, Next, NEW w \in Workers,
         pc[w] = "claiming", pc'[w] = "sending"
  PROVE  \A b \in InFlight : DestOf[b] = DestOf[claim'[w].copy]
                               => b \in overlap[w]
<1>0. TypeOK /\ OverlapsKnown
  BY DEF IInv, Ownership, Order
<1>1. ASSUME NEW v \in Workers, WorkerStep(v)
      PROVE  \E c \in Copies, t \in Tokens : ClaimCopy(w, c, t)
  <2>1. ASSUME NEW c \in Copies, NEW t \in Tokens, ClaimCopy(v, c, t)
        PROVE  v = w
    BY <1>0, <2>1 DEF ClaimCopy, TypeOK
  <2>2. ~ \E Expired \in SUBSET Copies : TakeSnapshot(v, Expired)
    <3>1. ASSUME NEW Expired \in SUBSET Copies, TakeSnapshot(v, Expired)
          PROVE  FALSE
      <4>1. UNCHANGED pc \/ pc' = [pc EXCEPT ![v] = "claiming"]
        BY <3>1 DEF TakeSnapshot
      <4> QED
        BY <1>0, <4>1 DEF TypeOK
    <3> QED
      BY <3>1
  <2>3. ~ClaimNothing(v)
    BY <1>0 DEF ClaimNothing, TypeOK
  <2>4. ~Heartbeat(v)
    BY DEF Heartbeat, claimVars
  <2>5. ~ \E r \in {"success", "failure"} : Deliver(v, r)
    BY <1>0 DEF Deliver, TypeOK
  <2>6. ~RecordCheck(v)
    BY <1>0 DEF RecordCheck, GoIdle, TypeOK
  <2>7. ~RecordWrite(v)
    BY <1>0 DEF RecordWrite, GoIdle, TypeOK
  <2>8. ~WorkerDies(v)
    BY <1>0 DEF WorkerDies, GoIdle, TypeOK
  <2> QED
    BY <1>1, <2>1, <2>2, <2>3, <2>4, <2>5, <2>6, <2>7, <2>8
    DEF WorkerStep, ClaimNextEvent
<1>2. ASSUME NEW o \in Copies, CopyStep(o) PROVE UNCHANGED pc
  BY <1>2 DEF CopyStep, StoreEvent, IngestReceipt, Conclude, RequeueDelivery,
       Requeue, ReviveDeadLetter, BackToQueue, UpdateDeliverBy, BackoffElapses,
       CutoffPasses, LeaseExpires, processVars, workerVars, claimVars
<1>3. ASSUME NEW d \in Dests, DestStep(d) PROVE UNCHANGED pc
  BY <1>3 DEF DestStep, RequeueUnreconciled, Requeue, BackToQueue, Relocate,
       RecoverDestination, PauseDestination, ResumeDestination,
       ConfirmDestination, QuarantineElapses, processVars, workerVars, claimVars
<1>4. ASSUME \/ \E s \in Sweepers, S \in SUBSET Copies : SweepSelect(s, S)
             \/ \E s \in Sweepers : SweepCommit(s)
             \/ \E S \in SUBSET Copies : ExpireDeliveryDeadlines(S)
      PROVE  UNCHANGED pc
  BY <1>4 DEF SweepSelect, SweepCommit, ExpireDeliveryDeadlines, processVars,
       workerVars, claimVars
<1>5. PICK c \in Copies, t \in Tokens : ClaimCopy(w, c, t)
  BY <1>1, <1>2, <1>3, <1>4 DEF Next
<1>6. claim'[w].copy = c /\ c \in view[w]
  BY <1>0, <1>5 DEF ClaimCopy, TypeOK
<1> QED
  BY <1>0, <1>6 DEF OverlapsKnown

\* A second flight to a destination comes from an overlap of two statements.
THEOREM SecondFlightsOverlap == Spec => SecondFlightOnlyByOverlap
<1>1. IInv /\ [Next]_vars =>
        [\A w \in Workers : pc[w] = "claiming" /\ pc'[w] = "sending" =>
           \A b \in InFlight : DestOf[b] = DestOf[claim'[w].copy]
                                 => b \in overlap[w]]_vars
  BY PickStep
<1> QED
  BY <1>1, QueueInvariant, PTL DEF Spec, SecondFlightOnlyByOverlap

\* A closed copy stays closed, or a sweep that had found it is over.
LEMMA ClosedStep ==
  ASSUME IInv, Next, NEW c \in Copies, Closed(c)
  PROVE  Closed(c)' \/ \E s \in Sweepers : SweptBy(s, c)
<1>0. TypeOK /\ ClaimsFit /\ Reconciliation /\ ExhaustedFound /\ Ownership
  BY DEF IInv, Ownership
<1>1. /\ reconcile_state[c] = "acknowledged" => status[c] = "delivered"
      /\ status[c] \notin {"absent", "pending", "in_flight", "dead_lettered"}
  BY <1>0 DEF Closed, Reconciliation, AwaitedIsDelivered
<1>2. ASSUME status'[c] = status[c], reconcile_state'[c] = reconcile_state[c]
      PROVE  Closed(c)'
  BY <1>2 DEF Closed
<1>3. ASSUME NEW w \in Workers, WorkerStep(w)
      PROVE  status'[c] = status[c] /\ reconcile_state'[c] = reconcile_state[c]
  <2>1. CASE \E Expired \in SUBSET Copies : TakeSnapshot(w, Expired)
    <3>1. PICK Expired \in SUBSET Copies : TakeSnapshot(w, Expired)
      BY <2>1
    <3>2. TidyRows(Expired) /\ Expired \subseteq Overdue
      BY <3>1 DEF TakeSnapshot
    <3>3. c \notin Queued
      BY <1>1 DEF Queued, Reaped
    <3>4. status'[c] = status[c]
      BY <1>0, <3>2, <3>3, TidyStatus
    <3> QED
      BY <3>2, <3>4 DEF TidyRows
  <2>2. CASE ClaimNextEvent(w)
    BY <1>0, <1>1, <2>2 DEF ClaimNextEvent, ClaimCopy, ClaimNothing, copyVars, TypeOK
  <2>3. CASE RecordWrite(w)
    <3>1. CASE UNCHANGED <<destVars, copyVars>>
      BY <3>1 DEF copyVars
    <3>2. CASE ~UNCHANGED <<destVars, copyVars>>
      <4>1. claim[w].copy # c
        BY <1>0, <1>1, <2>3, <3>2, WriteStatus
      <4>2. status'[c] = status[c]
        <5>1. PICK s : CloseClaim(claim[w].copy, s)
          BY <1>0, <2>3, <3>2, WriteStatus
        <5> QED
          BY <1>0, <4>1, <5>1 DEF CloseClaim, TypeOK
      <4>3. reconcile_state'[c] = reconcile_state[c]
        BY <1>0, <2>3, <4>1 DEF RecordWrite, WriteSuccess, WriteCutoff,
             WriteUncharged, WriteFailure, WriteRefused, copyVars, TypeOK
      <4> QED
        BY <4>2, <4>3
    <3> QED
      BY <3>1, <3>2
  <2>4. CASE Heartbeat(w) \/ (\E r \in {"success", "failure"} : Deliver(w, r))
               \/ RecordCheck(w) \/ WorkerDies(w)
    BY <2>4 DEF Heartbeat, Deliver, RecordCheck, WorkerDies, copyVars
  <2> QED
    BY <1>3, <2>1, <2>2, <2>3, <2>4 DEF WorkerStep
<1>4. ASSUME NEW S, BackToQueue(S), c \notin S
      PROVE  status'[c] = status[c] /\ reconcile_state'[c] = reconcile_state[c]
  BY <1>4 DEF BackToQueue
<1>5. ~Requeueable(c) \/ reconcile_state[c] # "acknowledged"
  BY DEF Requeueable
<1>6. ~Requeueable(c)
  BY <1>1, <1>5 DEF Requeueable, Closed
<1>7. ASSUME NEW o \in Copies, CopyStep(o) PROVE Closed(c)'
  <2>1. CASE StoreEvent(o)
    BY <1>0, <1>1, <1>2, <2>1 DEF StoreEvent, TypeOK
  <2>2. CASE IngestReceipt(o)
    <3>1. reconcile_state[o] = "awaiting"
      BY <2>2 DEF IngestReceipt, Conclude
    <3>2. o # c
      <4>1. status[o] = "delivered"
        BY <1>0, <3>1 DEF Reconciliation, AwaitedIsDelivered
      <4> QED
        BY <3>1, <4>1 DEF Closed
    <3> QED
      BY <1>0, <1>2, <2>2, <3>2 DEF IngestReceipt, Conclude, TypeOK
  <2>3. CASE RequeueDelivery(o)
    BY <1>2, <1>4, <1>6, <2>3 DEF RequeueDelivery, Requeue
  <2>4. CASE ReviveDeadLetter(o)
    BY <1>1, <1>2, <1>4, <2>4 DEF ReviveDeadLetter
  <2>5. CASE UpdateDeliverBy(o) \/ BackoffElapses(o) \/ CutoffPasses(o) \/ LeaseExpires(o)
    BY <1>2, <2>5 DEF UpdateDeliverBy, BackoffElapses, CutoffPasses, LeaseExpires
  <2> QED
    BY <1>7, <2>1, <2>2, <2>3, <2>4, <2>5 DEF CopyStep
<1>8. ASSUME NEW d \in Dests, DestStep(d) PROVE Closed(c)'
  <2>1. CASE RequeueUnreconciled(d)
    BY <1>2, <1>4, <1>6, <2>1 DEF RequeueUnreconciled, Requeue
  <2>2. CASE Relocate(d)
    BY <1>1, <1>2, <2>2 DEF Relocate
  <2>3. CASE RecoverDestination(d) \/ PauseDestination(d) \/ ResumeDestination(d)
               \/ ConfirmDestination(d) \/ QuarantineElapses(d)
    BY <1>2, <2>3 DEF RecoverDestination, PauseDestination, ResumeDestination,
                      ConfirmDestination, QuarantineElapses, copyVars
  <2> QED
    BY <1>8, <2>1, <2>2, <2>3 DEF DestStep
<1>9. ASSUME NEW s \in Sweepers, NEW S \in SUBSET Copies, SweepSelect(s, S)
      PROVE  Closed(c)'
  BY <1>2, <1>9 DEF SweepSelect, copyVars
<1>10. ASSUME NEW s \in Sweepers, SweepCommit(s)
       PROVE  Closed(c)' \/ SweptBy(s, c)
  <2>1. CASE c \in found[s]
    BY <1>0, <1>10, <2>1 DEF SweepCommit, SweptBy, TypeOK
  <2>2. CASE c \notin found[s]
    <3>1. c \notin exhausted[s]
      BY <1>0, <2>2 DEF ExhaustedFound
    <3> QED
      BY <1>2, <1>10, <2>2, <3>1 DEF SweepCommit
  <2> QED
    BY <2>1, <2>2
<1>11. ASSUME NEW S \in SUBSET Copies, ExpireDeliveryDeadlines(S)
       PROVE  Closed(c)'
  BY <1>1, <1>2, <1>11 DEF ExpireDeliveryDeadlines
<1> QED
  BY <1>2, <1>3, <1>7, <1>8, <1>9, <1>10, <1>11 DEF Next

\* Nothing but a sweep that had found it before reopens a closed copy.
THEOREM ClosedIsClosed == Spec => ClosedStaysClosed
<1>1. IInv /\ [Next]_vars =>
        [\A c \in Copies : Closed(c) =>
           Closed(c)' \/ \E s \in Sweepers : SweptBy(s, c)]_vars
  BY ClosedStep
<1> QED
  BY <1>1, QueueInvariant, PTL DEF Spec, ClosedStaysClosed

\* Only the pick puts a new token on a row, a row of its snapshot.
LEMMA TokenStep ==
  ASSUME IInv, Next, NEW c \in Copies,
         claim_token'[c] \notin {Null, claim_token[c]}
  PROVE  \E w \in Workers : c \in view[w]
<1>0. TypeOK /\ Ownership /\ Reconciliation
  BY DEF IInv, Ownership
<1>1. PICK w \in Workers, o \in Copies, t \in Tokens : ClaimCopy(w, o, t)
  BY <1>0, OnlyPickClaims
<1>2. c = o
  BY <1>0, <1>1 DEF ClaimCopy, TypeOK
<1> QED
  BY <1>1, <1>2 DEF ClaimCopy

\* Only a snapshot takes copies into a thread's view, none of them overdue.
LEMMA ViewStep ==
  ASSUME TypeOK, Next, NEW w \in Workers, NEW c \in view'[w] \ view[w]
  PROVE  deliver_by[c] # "past"
<1>1. ASSUME NEW v \in Workers, WorkerStep(v)
      PROVE  deliver_by[c] # "past"
  <2>1. CASE \E Expired \in SUBSET Copies : TakeSnapshot(v, Expired)
    <3>1. PICK Expired \in SUBSET Copies : TakeSnapshot(v, Expired)
      BY <2>1
    <3>2. PICK d \in Dests : view' = [view EXCEPT ![v] = Line(Expired, d)]
      BY <3>1 DEF TakeSnapshot
    <3>3. c \in Line(Expired, d)
      BY <3>2 DEF TypeOK
    <3> QED
      BY <3>3 DEF Line
  <2>2. CASE ClaimNextEvent(v)
    <3>1. view' = [view EXCEPT ![v] = {}]
      BY <2>2 DEF ClaimNextEvent, ClaimCopy, ClaimNothing
    <3> QED
      BY <3>1 DEF TypeOK
  <2>3. CASE Heartbeat(v) \/ (\E r \in {"success", "failure"} : Deliver(v, r))
               \/ RecordCheck(v) \/ RecordWrite(v) \/ WorkerDies(v)
    BY <2>3 DEF Heartbeat, Deliver, RecordCheck, RecordWrite, WorkerDies,
                GoIdle, claimVars
  <2> QED
    BY <1>1, <2>1, <2>2, <2>3 DEF WorkerStep
<1>2. ASSUME NEW o \in Copies, CopyStep(o) PROVE UNCHANGED view
  BY <1>2 DEF CopyStep, StoreEvent, IngestReceipt, Conclude, RequeueDelivery,
       Requeue, ReviveDeadLetter, BackToQueue, UpdateDeliverBy, BackoffElapses,
       CutoffPasses, LeaseExpires, processVars, workerVars, claimVars
<1>3. ASSUME NEW d \in Dests, DestStep(d) PROVE UNCHANGED view
  BY <1>3 DEF DestStep, RequeueUnreconciled, Requeue, BackToQueue, Relocate,
       RecoverDestination, PauseDestination, ResumeDestination,
       ConfirmDestination, QuarantineElapses, processVars, workerVars, claimVars
<1>4. ASSUME \/ \E s \in Sweepers, S \in SUBSET Copies : SweepSelect(s, S)
             \/ \E s \in Sweepers : SweepCommit(s)
             \/ \E S \in SUBSET Copies : ExpireDeliveryDeadlines(S)
      PROVE  UNCHANGED view
  BY <1>4 DEF SweepSelect, SweepCommit, ExpireDeliveryDeadlines, processVars,
       workerVars, claimVars
<1> QED
  BY <1>1, <1>2, <1>3, <1>4 DEF Next

\* No attempt starts on a snapshot that took the copy in after its cutoff.
THEOREM CutoffStopsAttempts == Spec => NoAttemptAfterCutoff
<1>1. IInv /\ [Next]_vars =>
        [\A c \in Copies :
           /\ claim_token'[c] \notin {Null, claim_token[c]}
                => \E w \in Workers : c \in view[w]
           /\ \A w \in Workers : c \in view'[w] \ view[w]
                => deliver_by[c] # "past"]_vars
  BY TokenStep, ViewStep DEF IInv, Ownership
<1> QED
  BY <1>1, QueueInvariant, PTL DEF Spec, NoAttemptAfterCutoff

\* How a copy in flight may leave its owner's hands.
LeavesOwner(c) ==
  \/ status'[c] = "in_flight" /\ claim_token'[c] = claim_token[c]
  \/ lease[c] = "past"
  \/ \E w \in Workers :
       /\ pc[w] = "recording" /\ pc'[w] = "idle"
       /\ claim[w].copy = c
       /\ \/ claim[w].token = claim_token[c]
          \/ status'[c] = "deadline_expired" /\ deliver_by[c] = "past"
  \/ /\ status'[c] = "dead_lettered"
     /\ \E s \in Sweepers : c \in exhausted[s] /\ SweptBy(s, c)

\* Of all steps only the reaper, a thread's own write and a sweep conclude a
\* flight.
LEMMA FlightStep ==
  ASSUME IInv, Next, NEW c \in Copies, status[c] = "in_flight"
  PROVE  LeavesOwner(c)
<1>0. TypeOK /\ ClaimsFit /\ Reconciliation /\ LateByCutoff /\ ExhaustedFound
  BY DEF IInv, Ownership, Cutoffs
<1>1. ASSUME NEW w \in Workers, WorkerStep(w) PROVE LeavesOwner(c)
  <2>1. CASE \E Expired \in SUBSET Copies : TakeSnapshot(w, Expired)
    <3>1. PICK Expired \in SUBSET Copies : TakeSnapshot(w, Expired)
      BY <2>1
    <3>2. TidyRows(Expired) /\ Expired \subseteq Overdue
      BY <3>1 DEF TakeSnapshot
    <3>3. CASE lease[c] = "past"
      BY <3>3 DEF LeavesOwner
    <3>4. CASE lease[c] # "past"
      <4>1. c \notin Queued
        BY <3>4 DEF Queued, Reaped
      <4>2. status'[c] = "in_flight"
        BY <1>0, <3>2, <4>1, TidyStatus
      <4>3. claim_token'[c] = claim_token[c]
        BY <3>2, <4>1 DEF TidyRows, Queued
      <4> QED
        BY <4>2, <4>3 DEF LeavesOwner
    <3> QED
      BY <3>3, <3>4
  <2>2. CASE ClaimNextEvent(w)
    <3>1. status'[c] = "in_flight" /\ claim_token'[c] = claim_token[c]
      BY <1>0, <2>2 DEF ClaimNextEvent, ClaimCopy, ClaimNothing, copyVars, TypeOK
    <3> QED
      BY <3>1 DEF LeavesOwner
  <2>3. CASE RecordWrite(w)
    <3>1. /\ pc[w] = "recording" /\ claim[w].copy \in Copies
          /\ pc' = [pc EXCEPT ![w] = "idle"]
      BY <1>0, <2>3, WriteStatus DEF RecordWrite, GoIdle
    <3>2. pc'[w] = "idle"
      BY <1>0, <3>1 DEF TypeOK
    <3>3. CASE claim[w].copy # c \/ WriteRefused(w)
      <4>1. UNCHANGED <<status, claim_token>> \/ \E s : CloseClaim(claim[w].copy, s)
        BY <1>0, <2>3, WriteStatus DEF copyVars
      <4>2. status'[c] = status[c] /\ claim_token'[c] = claim_token[c]
        BY <1>0, <3>3, <4>1 DEF CloseClaim, WriteRefused, copyVars, TypeOK
      <4> QED
        BY <4>2 DEF LeavesOwner
    <3>4. CASE claim[w].copy = c /\ WriteCutoff(w)
      <4>1. status'[c] = "deadline_expired"
        BY <1>0, <3>4 DEF WriteCutoff, CloseClaim, TypeOK
      <4>2. deliver_by[c] = "past"
        BY <1>0, <3>4 DEF WriteCutoff, LateByCutoff
      <4> QED
        BY <3>1, <3>2, <3>4, <4>1, <4>2 DEF LeavesOwner
    <3>5. CASE claim[w].copy = c
                 /\ (WriteSuccess(w) \/ WriteUncharged(w) \/ WriteFailure(w))
      <4>1. Owns(w)
        BY <3>5 DEF WriteSuccess, WriteUncharged, WriteFailure
      <4> QED
        BY <3>1, <3>2, <3>5, <4>1 DEF LeavesOwner, Owns
    <3> QED
      BY <2>3, <3>3, <3>4, <3>5 DEF RecordWrite
  <2>4. CASE Heartbeat(w) \/ (\E r \in {"success", "failure"} : Deliver(w, r))
               \/ RecordCheck(w) \/ WorkerDies(w)
    <3>1. UNCHANGED <<status, claim_token>>
      BY <2>4 DEF Heartbeat, Deliver, RecordCheck, WorkerDies, copyVars
    <3> QED
      BY <3>1 DEF LeavesOwner
  <2> QED
    BY <1>1, <2>1, <2>2, <2>3, <2>4 DEF WorkerStep
<1>2. ASSUME status'[c] = status[c], claim_token'[c] = claim_token[c]
      PROVE  LeavesOwner(c)
  BY <1>2 DEF LeavesOwner
<1>3. ASSUME NEW S, BackToQueue(S), c \notin S PROVE LeavesOwner(c)
  BY <1>2, <1>3 DEF BackToQueue, ReleaseClaims
<1>4. ASSUME NEW o \in Copies, CopyStep(o) PROVE LeavesOwner(c)
  <2>1. CASE StoreEvent(o)
    BY <1>0, <1>2, <2>1 DEF StoreEvent, TypeOK
  <2>2. CASE IngestReceipt(o)
    <3>1. reconcile_state[o] = "awaiting"
      BY <2>2 DEF IngestReceipt, Conclude
    <3>2. o # c
      BY <1>0, <3>1 DEF Reconciliation, AwaitedIsDelivered
    <3> QED
      BY <1>0, <1>2, <2>2, <3>2 DEF IngestReceipt, Conclude, TypeOK
  <2>3. CASE RequeueDelivery(o) \/ ReviveDeadLetter(o)
    BY <1>3, <2>3 DEF RequeueDelivery, Requeue, Requeueable, ReviveDeadLetter
  <2>4. CASE UpdateDeliverBy(o) \/ BackoffElapses(o) \/ CutoffPasses(o) \/ LeaseExpires(o)
    BY <1>2, <2>4 DEF UpdateDeliverBy, BackoffElapses, CutoffPasses, LeaseExpires
  <2> QED
    BY <1>4, <2>1, <2>2, <2>3, <2>4 DEF CopyStep
<1>5. ASSUME NEW d \in Dests, DestStep(d) PROVE LeavesOwner(c)
  <2>1. CASE RequeueUnreconciled(d)
    BY <1>3, <2>1 DEF RequeueUnreconciled, Requeueable, Requeue
  <2>2. CASE Relocate(d) \/ RecoverDestination(d) \/ PauseDestination(d)
               \/ ResumeDestination(d) \/ ConfirmDestination(d) \/ QuarantineElapses(d)
    BY <1>2, <2>2 DEF Relocate, RecoverDestination, PauseDestination,
         ResumeDestination, ConfirmDestination, QuarantineElapses, copyVars
  <2> QED
    BY <1>5, <2>1, <2>2 DEF DestStep
<1>6. ASSUME NEW s \in Sweepers, NEW S \in SUBSET Copies, SweepSelect(s, S)
      PROVE  LeavesOwner(c)
  BY <1>2, <1>6 DEF SweepSelect, copyVars
<1>7. ASSUME NEW s \in Sweepers, SweepCommit(s) PROVE LeavesOwner(c)
  <2>1. CASE c \in exhausted[s]
    <3>1. status'[c] = "dead_lettered" /\ c \in found[s] /\ found'[s] = {}
      BY <1>0, <1>7, <2>1 DEF SweepCommit, ExhaustedFound, TypeOK
    <3> QED
      BY <2>1, <3>1 DEF LeavesOwner, SweptBy
  <2>2. CASE c \notin exhausted[s]
    BY <1>2, <1>7, <2>2 DEF SweepCommit
  <2> QED
    BY <2>1, <2>2
<1>8. ASSUME NEW S \in SUBSET Copies, ExpireDeliveryDeadlines(S)
      PROVE  LeavesOwner(c)
  BY <1>2, <1>8 DEF ExpireDeliveryDeadlines
<1> QED
  BY <1>1, <1>4, <1>5, <1>6, <1>7, <1>8 DEF Next

\* A flight is concluded by its owner, by the reaper, at its cutoff or by a
\* sweep that came late.
THEOREM FlightsAreConcluded == Spec => OnlyOwnerConcludes
<1>1. IInv /\ [Next]_vars =>
        [\A c \in InFlight :
           \/ status'[c] = "in_flight" /\ claim_token'[c] = claim_token[c]
           \/ lease[c] = "past"
           \/ \E w \in Workers :
                /\ pc[w] = "recording" /\ pc'[w] = "idle"
                /\ claim[w].copy = c
                /\ \/ claim[w].token = claim_token[c]
                   \/ status'[c] = "deadline_expired" /\ deliver_by[c] = "past"
           \/ /\ status'[c] = "dead_lettered"
              /\ \E s \in Sweepers : c \in exhausted[s] /\ SweptBy(s, c)]_vars
  BY FlightStep DEF LeavesOwner, InFlight
<1> QED
  BY <1>1, QueueInvariant, PTL DEF Spec, OnlyOwnerConcludes
============================================================================
