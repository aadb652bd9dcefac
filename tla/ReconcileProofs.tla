-------------------------- MODULE ReconcileProofs --------------------------
(***************************************************************************)
(* Theorems about Reconcile, for every set of copies, requests and         *)
(* sweepers and every requeue budget.                                      *)
(***************************************************************************)
EXTENDS Reconcile, TLAPS

\* A copy that awaits its receipt has been delivered.
AwaitingIsDelivered ==
  \A c \in Copies : reconcile_state[c] = "awaiting" => status[c] = "delivered"

\* A delivered copy without a countdown (a legacy row) has no receipt yet.
LegacyIsFresh ==
  \A c \in Copies : reconcile_state[c] = "none" /\ status[c] = "delivered"
                      => applied[c] = 0

Verdicts == /\ AppliedOnce
            /\ LegacyIsFresh
            /\ AwaitingIsDelivered
            /\ AcknowledgedIsDelivered

IInv == TypeOK /\ Verdicts

\* The rows and the tally of receipts do not change.
LEMMA QuietKeepsVerdicts ==
  ASSUME Verdicts, UNCHANGED <<status, reconcile_state, applied>>
  PROVE  Verdicts'
BY DEF Verdicts, AppliedOnce, LegacyIsFresh, AwaitingIsDelivered,
     AcknowledgedIsDelivered

\* An idle request is well typed.
LEMMA NoReceiptType == NoReceipt \in Receipt
BY DEF NoReceipt, Receipt

\* The initial state satisfies the invariant.
LEMMA InitIInv == Init => IInv
<1> SUFFICES ASSUME Init PROVE IInv
  OBVIOUS
<1>1. TypeOK
  BY NoReceiptType DEF Init, TypeOK, ReconcileState
<1>2. Verdicts
  BY DEF Init, Verdicts, AppliedOnce, LegacyIsFresh, AwaitingIsDelivered,
       AcknowledgedIsDelivered
<1> QED
  BY <1>1, <1>2 DEF IInv

\* Transport, operator calls and the deadline.
LEMMA CopyStepKeepsIInv ==
  ASSUME IInv, NEW c \in Copies, CopyStep(c)
  PROVE  IInv'
<1>0. TypeOK /\ Verdicts
  BY DEF IInv
<1>1. CASE ClaimNextEvent(c)
  <2>1. TypeOK'
    BY <1>0, <1>1 DEF ClaimNextEvent, TypeOK, sweepVars, boundVars
  <2>2. Verdicts'
    BY <1>0, <1>1 DEF ClaimNextEvent, TypeOK, Verdicts, AppliedOnce,
         LegacyIsFresh, AwaitingIsDelivered, AcknowledgedIsDelivered
  <2> QED
    BY <2>1, <2>2 DEF IInv
<1>2. CASE EventSuccess(c)
  <2>1. receipt' \in [Requests -> Receipt]
    <3>1. ASSUME NEW r \in Requests PROVE receipt'[r] \in Receipt
      <4>1. PICK q \in Receipt : q = receipt[r]
        BY <1>0 DEF TypeOK
      <4>2. receipt'[r] \in {q, [q EXCEPT !.expired = FALSE]}
        BY <1>2, <4>1 DEF EventSuccess
      <4>3. [q EXCEPT !.expired = FALSE] \in Receipt
        BY DEF Receipt
      <4> QED
        BY <4>2, <4>3
    <3>2. receipt' = [r \in Requests |-> receipt'[r]]
      BY <1>2 DEF EventSuccess
    <3> QED
      BY <3>1, <3>2
  <2>2. TypeOK'
    BY <1>0, <1>2, <2>1 DEF EventSuccess, TypeOK, ReconcileState, sweepVars,
         boundVars
  <2>3. Verdicts'
    BY <1>0, <1>2 DEF EventSuccess, TypeOK, Verdicts, AppliedOnce,
         LegacyIsFresh, AwaitingIsDelivered, AcknowledgedIsDelivered
  <2> QED
    BY <2>2, <2>3 DEF IInv
<1>3. CASE EventFailure(c)
  <2>1. TypeOK'
    BY <1>0, <1>3 DEF EventFailure, TypeOK, sweepVars, boundVars
  <2>2. Verdicts'
    BY <1>0, <1>3 DEF EventFailure, TypeOK, Verdicts, AppliedOnce,
         LegacyIsFresh, AwaitingIsDelivered, AcknowledgedIsDelivered
  <2> QED
    BY <2>1, <2>2 DEF IInv
<1>4. CASE RequeueDelivery(c) \/ ReviveDeadLetter(c)
  <2>1. TypeOK'
    BY <1>0, <1>4 DEF RequeueDelivery, ReviveDeadLetter, OperatorCall, TypeOK,
         ReconcileState, sweepVars
  <2>2. Verdicts'
    BY <1>0, <1>4 DEF RequeueDelivery, ReviveDeadLetter, TypeOK, Verdicts,
         AppliedOnce, LegacyIsFresh, AwaitingIsDelivered,
         AcknowledgedIsDelivered
  <2> QED
    BY <2>1, <2>2 DEF IInv
<1>5. CASE DeadlinePasses(c)
  <2>1. TypeOK'
    BY <1>0, <1>5 DEF DeadlinePasses, TypeOK, sweepVars, boundVars
  <2>2. Verdicts'
    BY <1>0, <1>5, QuietKeepsVerdicts DEF DeadlinePasses
  <2> QED
    BY <2>1, <2>2 DEF IInv
<1> QED
  BY <1>1, <1>2, <1>3, <1>4, <1>5 DEF CopyStep

\* Receipts: the one that is applied finds the copy without a verdict.
LEMMA RequestStepKeepsIInv ==
  ASSUME IInv, NEW r \in Requests, RequestStep(r)
  PROVE  IInv'
<1>0. TypeOK /\ Verdicts
  BY DEF IInv
<1>1. CASE BeginReceipt(r) \/ RetryReceipt(r)
  <2>1. receipt' \in [Requests -> Receipt]
    <3>1. CASE BeginReceipt(r)
      <4>1. PICK c \in Copies, res \in {"success", "failure"} :
              receipt' = [receipt EXCEPT
                            ![r] = [copy |-> c, result |-> res,
                                    expired |-> reconcile_deadline[c] = "past"]]
        BY <3>1 DEF BeginReceipt
      <4>2. [copy |-> c, result |-> res,
             expired |-> reconcile_deadline[c] = "past"] \in Receipt
        BY DEF Receipt
      <4> QED
        BY <1>0, <4>1, <4>2 DEF TypeOK
    <3>2. CASE RetryReceipt(r)
      <4> DEFINE late == reconcile_deadline[receipt[r].copy] = "past"
      <4>1. receipt' = [receipt EXCEPT ![r].expired = late]
        BY <3>2 DEF RetryReceipt
      <4>2. receipt[r] \in Receipt
        BY <1>0 DEF TypeOK
      <4>3. [receipt[r] EXCEPT !.expired = late] \in Receipt
        BY <4>2 DEF Receipt
      <4> QED
        BY <1>0, <4>1, <4>3 DEF TypeOK
    <3> QED
      BY <1>1, <3>1, <3>2
  <2>2. TypeOK'
    BY <1>0, <1>1, <2>1 DEF BeginReceipt, RetryReceipt, TypeOK, copyVars,
         sweepVars, boundVars
  <2>3. Verdicts'
    BY <1>0, <1>1, QuietKeepsVerdicts DEF BeginReceipt, RetryReceipt, copyVars
  <2> QED
    BY <2>2, <2>3 DEF IInv
<1>2. CASE IngestReceipt(r)
  <2> DEFINE c == receipt[r].copy
  <2>1. c \in Copies
    BY <1>0, <1>2 DEF IngestReceipt, TypeOK, Receipt
  <2>2. /\ receipt' = [receipt EXCEPT ![r] = NoReceipt]
        /\ UNCHANGED <<reconcile_deadline, requeue_count, sweepVars, boundVars>>
    BY <1>2 DEF IngestReceipt
  <2>3. CASE ApplyReceipt(r)
    <3>1. applied[c] = 0 /\ status[c] = "delivered"
      BY <1>0, <2>1, <2>3 DEF ApplyReceipt, Applicable, Verdicts, AppliedOnce,
           LegacyIsFresh, AwaitingIsDelivered
    <3>2. /\ reconcile_state' = [reconcile_state EXCEPT
                                   ![c] = IF receipt[r].result = "success"
                                          THEN "acknowledged"
                                          ELSE "receipt_failed"]
          /\ status' = [status EXCEPT ![c] = IF Parks(r) THEN "dead_lettered"
                                             ELSE @]
          /\ applied' = [applied EXCEPT ![c] = @ + 1]
          /\ Parks(r) => receipt[r].result = "failure"
      BY <2>3 DEF ApplyReceipt, Parks
    <3>3. TypeOK'
      BY <1>0, <2>1, <2>2, <3>2, NoReceiptType DEF TypeOK, ReconcileState,
           sweepVars, boundVars
    <3>4. Verdicts'
      BY <1>0, <2>1, <3>1, <3>2 DEF TypeOK, Verdicts, AppliedOnce,
           LegacyIsFresh, AwaitingIsDelivered, AcknowledgedIsDelivered
    <3> QED
      BY <3>3, <3>4 DEF IInv
  <2>4. CASE MarkTimedOut(r)
    <3>1. TypeOK'
      BY <1>0, <2>1, <2>2, <2>4, NoReceiptType DEF MarkTimedOut, TypeOK,
           ReconcileState, sweepVars, boundVars
    <3>2. Verdicts'
      BY <1>0, <2>1, <2>4 DEF MarkTimedOut, TypeOK, Verdicts, AppliedOnce,
           LegacyIsFresh, AwaitingIsDelivered, AcknowledgedIsDelivered
    <3> QED
      BY <3>1, <3>2 DEF IInv
  <2>5. CASE LogReceipt(r)
    <3>1. TypeOK'
      BY <1>0, <2>2, <2>5, NoReceiptType DEF LogReceipt, TypeOK, sweepVars,
           boundVars
    <3>2. Verdicts'
      BY <1>0, <2>5, QuietKeepsVerdicts DEF LogReceipt
    <3> QED
      BY <3>1, <3>2 DEF IInv
  <2> QED
    BY <1>2, <2>3, <2>4, <2>5 DEF IngestReceipt
<1> QED
  BY <1>1, <1>2 DEF RequestStep

\* Sweeps, however old their snapshot is when they update a row.
LEMMA SweeperStepKeepsIInv ==
  ASSUME IInv, NEW s \in Sweepers, SweeperStep(s)
  PROVE  IInv'
<1>0. TypeOK /\ Verdicts
  BY DEF IInv
<1>1. CASE SweepSelect(s)
  <2>1. TypeOK'
    BY <1>0, <1>1 DEF SweepSelect, Overdue, TypeOK, copyVars, boundVars
  <2>2. Verdicts'
    BY <1>0, <1>1, QuietKeepsVerdicts DEF SweepSelect, copyVars
  <2> QED
    BY <2>1, <2>2 DEF IInv
<1>2. ASSUME NEW c \in Copies, SweepRow(s, c)
      PROVE  IInv'
  <2>1. TypeOK'
    BY <1>0, <1>2 DEF SweepRow, TypeOK, copyVars, boundVars
  <2>2. Verdicts'
    BY <1>0, <1>2, QuietKeepsVerdicts DEF SweepRow, copyVars
  <2> QED
    BY <2>1, <2>2 DEF IInv
<1>3. CASE SweepCommit(s)
  <2>1. TypeOK'
    BY <1>0, <1>3 DEF SweepCommit, EndSweep, TypeOK, ReconcileState, boundVars
  <2>2. Verdicts'
    BY <1>0, <1>3 DEF SweepCommit, TypeOK, Verdicts, AppliedOnce,
         LegacyIsFresh, AwaitingIsDelivered, AcknowledgedIsDelivered
  <2> QED
    BY <2>1, <2>2 DEF IInv
<1>4. CASE SweepFails(s)
  <2>1. TypeOK'
    BY <1>0, <1>4 DEF SweepFails, EndSweep, TypeOK, copyVars
  <2>2. Verdicts'
    BY <1>0, <1>4, QuietKeepsVerdicts DEF SweepFails, copyVars
  <2> QED
    BY <2>1, <2>2 DEF IInv
<1>5. ASSUME NEW o \in Sweepers, SweepDeadlocks(s, o)
      PROVE  IInv'
  <2>1. TypeOK'
    BY <1>0, <1>5 DEF SweepDeadlocks, TypeOK, copyVars, boundVars
  <2>2. Verdicts'
    BY <1>0, <1>5, QuietKeepsVerdicts DEF SweepDeadlocks, copyVars
  <2> QED
    BY <2>1, <2>2 DEF IInv
<1> QED
  BY <1>1, <1>2, <1>3, <1>4, <1>5 DEF SweeperStep

\* The invariant holds throughout, also under sweeps that overwrite verdicts.
THEOREM ReconcileInvariant == Spec => []IInv
<1>1. IInv /\ [Next]_vars => IInv'
  <2> SUFFICES ASSUME IInv, [Next]_vars PROVE IInv'
    OBVIOUS
  <2>1. CASE Next
    BY <2>1, CopyStepKeepsIInv, RequestStepKeepsIInv, SweeperStepKeepsIInv
       DEF Next
  <2>2. CASE UNCHANGED vars
    <3>1. TypeOK'
      BY <2>2 DEF IInv, vars, copyVars, sweepVars, boundVars, TypeOK
    <3>2. Verdicts'
      BY <2>2, QuietKeepsVerdicts DEF IInv, vars, copyVars
    <3> QED
      BY <3>1, <3>2 DEF IInv
  <2> QED
    BY <2>1, <2>2
<1> QED
  BY <1>1, InitIInv, PTL DEF Spec

\* All variables keep their types.
THEOREM ReconcileTypes == Spec => []TypeOK
<1>1. IInv => TypeOK
  BY DEF IInv
<1> QED
  BY <1>1, ReconcileInvariant, PTL

\* At most one receipt counts per delivery.
THEOREM ReceiptsApplyOnce == Spec => []AppliedOnce
<1>1. IInv => AppliedOnce
  BY DEF IInv, Verdicts
<1> QED
  BY <1>1, ReconcileInvariant, PTL

\* An acknowledged copy is not parked and not in the queue.
THEOREM AcknowledgedRests == Spec => []AcknowledgedIsDelivered
<1>1. IInv => AcknowledgedIsDelivered
  BY DEF IInv, Verdicts
<1> QED
  BY <1>1, ReconcileInvariant, PTL

\* No receipt reverses a timeout.
THEOREM TimeoutsStand == Spec => TimedOutIsNotReversed
<1>1. ASSUME TypeOK, Next, NEW c \in Copies, reconcile_state[c] = "timed_out"
      PROVE  reconcile_state'[c] \notin {"acknowledged", "receipt_failed"}
  <2>1. ASSUME NEW o \in Copies, CopyStep(o)
        PROVE  reconcile_state'[c] \notin {"acknowledged", "receipt_failed"}
    BY <1>1, <2>1 DEF CopyStep, ClaimNextEvent, EventSuccess, EventFailure,
         RequeueDelivery, ReviveDeadLetter, DeadlinePasses, TypeOK
  <2>2. ASSUME NEW r \in Requests, RequestStep(r)
        PROVE  reconcile_state'[c] \notin {"acknowledged", "receipt_failed"}
    BY <1>1, <2>2 DEF RequestStep, BeginReceipt, RetryReceipt, IngestReceipt,
         ApplyReceipt, Applicable, MarkTimedOut, LogReceipt, TypeOK, copyVars
  <2>3. ASSUME NEW s \in Sweepers, SweeperStep(s)
        PROVE  reconcile_state'[c] \notin {"acknowledged", "receipt_failed"}
    BY <1>1, <2>3 DEF SweeperStep, SweepSelect, SweepRow, SweepCommit,
         SweepFails, SweepDeadlocks, copyVars
  <2> QED
    BY <1>1, <2>1, <2>2, <2>3 DEF Next
<1>2. TypeOK /\ [Next]_vars =>
        [\A c \in Copies : reconcile_state[c] = "timed_out"
           => reconcile_state'[c] \notin {"acknowledged", "receipt_failed"}]_vars
  BY <1>1
<1> QED
  BY <1>2, ReconcileTypes, PTL DEF Spec, TimedOutIsNotReversed
============================================================================
