----------------------------- MODULE Reconcile -----------------------------
(***************************************************************************)
(* Reconciliation of delivered copies, statement by statement: the receipt *)
(* endpoint (app/receipts.py), the sweep of the reconciler processes       *)
(* (app/reconciler.py) and the operator calls that send a copy again       *)
(* (app/main.py).                                                          *)
(*                                                                         *)
(* Two facts about PostgreSQL at READ COMMITTED, external to the program,  *)
(* shape the actions.  now() is the start of the transaction, so a receipt *)
(* compares the deadline with a moment before it locked the row.  And the  *)
(* CTE of SWEEP_SQL reads a snapshot without locking: the UPDATE joined to *)
(* it by id locks each row later, sees the row's newest version, and does  *)
(* not test that version's reconcile_state again.                          *)
(*                                                                         *)
(* Every copy is at its destination's confirmed, current location.         *)
(***************************************************************************)
EXTENDS Integers

CONSTANTS
  Copies,            \* deliveries
  Legacy,            \* those delivered before reconciliation existed
  Requests,          \* concurrent POST /v1/receipts calls
  Sweepers,          \* reconciler processes
  Null,              \* SQL NULL
  MaxRequeueCycles,  \* settings.max_requeue_cycles
  MaxOperatorCalls,  \* bound: requeues and revives in a behaviour
  MaxFaults          \* bound: database errors in a behaviour

ASSUME ReconcileAssumption ==
  /\ Legacy \subseteq Copies
  /\ Null \notin Copies
  /\ MaxRequeueCycles \in Nat
  /\ MaxOperatorCalls \in Nat
  /\ MaxFaults \in Nat

VARIABLES
  \* deliveries
  status,
  reconcile_state,
  reconcile_deadline,  \* Null, "future" or "past"
  requeue_count,
  \* receipt requests: the transaction begun, and what it was asked
  receipt,             \* [copy, result, expired]; copy = Null when idle
  \* sweeps
  found,               \* the rows of the CTE expired
  exhausted,           \* those of them with exhausted = TRUE
  swept,               \* the rows updated, and locked, so far
  sweeping,            \* is SWEEP_SQL under way?
  \* history
  applied,             \* receipts applied since the last delivery
  \* bounds
  operator_calls,
  faults

copyVars == <<status, reconcile_state, reconcile_deadline, requeue_count>>
sweepVars == <<found, exhausted, swept, sweeping>>
boundVars == <<operator_calls, faults>>
vars == <<copyVars, receipt, sweepVars, applied, boundVars>>

ReconcileState == {"none", "awaiting", "acknowledged", "receipt_failed",
                   "timed_out"}
Receipt == [copy: Copies \cup {Null}, result: {"success", "failure"},
            expired: BOOLEAN]
NoReceipt == [copy |-> Null, result |-> "success", expired |-> FALSE]

TypeOK ==
  /\ status \in [Copies -> {"pending", "in_flight", "delivered",
                            "dead_lettered"}]
  /\ reconcile_state \in [Copies -> ReconcileState]
  /\ reconcile_deadline \in [Copies -> {Null, "future", "past"}]
  /\ requeue_count \in [Copies -> Nat]
  /\ receipt \in [Requests -> Receipt]
  /\ found \in [Sweepers -> SUBSET Copies]
  /\ exhausted \in [Sweepers -> SUBSET Copies]
  /\ swept \in [Sweepers -> SUBSET Copies]
  /\ sweeping \in [Sweepers -> BOOLEAN]
  /\ applied \in [Copies -> Nat]
  /\ operator_calls \in Nat
  /\ faults \in Nat

Init ==
  /\ status = [c \in Copies |-> IF c \in Legacy THEN "delivered" ELSE "pending"]
  /\ reconcile_state = [c \in Copies |-> "none"]
  /\ reconcile_deadline = [c \in Copies |-> Null]
  /\ requeue_count = [c \in Copies |-> 0]
  /\ receipt = [r \in Requests |-> NoReceipt]
  /\ found = [s \in Sweepers |-> {}]
  /\ exhausted = [s \in Sweepers |-> {}]
  /\ swept = [s \in Sweepers |-> {}]
  /\ sweeping = [s \in Sweepers |-> FALSE]
  /\ applied = [c \in Copies |-> 0]
  /\ operator_calls = 0
  /\ faults = 0

\* A row that a sweep has updated is locked until that sweep commits.
Free(c) == \A s \in Sweepers : c \notin swept[s]

----------------------------------------------------------------------------
(***************************************************************************)
(* The transport, from the reconciliation's point of view.                 *)
(***************************************************************************)
ClaimNextEvent(c) ==
  /\ Free(c)
  /\ status[c] = "pending"
  /\ status' = [status EXCEPT ![c] = "in_flight"]
  /\ UNCHANGED <<reconcile_state, reconcile_deadline, requeue_count, receipt,
                 sweepVars, applied, boundVars>>

\* A new deadline lies after the start of every transaction now open.
EventSuccess(c) ==
  /\ Free(c)
  /\ status[c] = "in_flight"
  /\ status' = [status EXCEPT ![c] = "delivered"]
  /\ reconcile_state' = [reconcile_state EXCEPT ![c] = "awaiting"]
  /\ reconcile_deadline' = [reconcile_deadline EXCEPT ![c] = "future"]
  /\ receipt' = [r \in Requests |->
                   IF receipt[r].copy = c
                   THEN [receipt[r] EXCEPT !.expired = FALSE]
                   ELSE receipt[r]]
  /\ applied' = [applied EXCEPT ![c] = 0]
  /\ UNCHANGED <<requeue_count, sweepVars, boundVars>>

\* FAILURE_SQL: back to the queue, or parked after the last attempt.
EventFailure(c) ==
  /\ Free(c)
  /\ status[c] = "in_flight"
  /\ \E s \in {"pending", "dead_lettered"} : status' = [status EXCEPT ![c] = s]
  /\ UNCHANGED <<reconcile_state, reconcile_deadline, requeue_count, receipt,
                 sweepVars, applied, boundVars>>

----------------------------------------------------------------------------
(***************************************************************************)
(* ingest_receipt.                                                         *)
(***************************************************************************)
\* The transaction starts: its now() is fixed.
BeginReceipt(r) ==
  /\ receipt[r].copy = Null
  /\ \E c \in Copies, res \in {"success", "failure"} :
       receipt' = [receipt EXCEPT
                     ![r] = [copy |-> c, result |-> res,
                             expired |-> reconcile_deadline[c] = "past"]]
  /\ UNCHANGED <<copyVars, sweepVars, applied, boundVars>>

\* Within the grace period a receipt for a copy in flight starts over.
RetryReceipt(r) ==
  LET c == receipt[r].copy IN
  /\ c # Null
  /\ Free(c)
  /\ status[c] = "in_flight" /\ reconcile_state[c] = "none"
  /\ receipt' = [receipt EXCEPT ![r].expired = reconcile_deadline[c] = "past"]
  /\ UNCHANGED <<copyVars, sweepVars, applied, boundVars>>

Exhausted(c) == requeue_count[c] >= MaxRequeueCycles

\* Fault: the last allowed cycle parks the copy whatever the receipt says.
ParksAnyReceipt(r) ==
  LET c == receipt[r].copy IN
  reconcile_state[c] = "awaiting" /\ status[c] = "delivered" /\ Exhausted(c)

\* PARK_FAILED_RECEIPT_SQL; the legacy branch never parks.
Parks(r) ==
  LET c == receipt[r].copy IN
  /\ reconcile_state[c] = "awaiting"
  /\ receipt[r].result = "failure"
  /\ status[c] = "delivered"
  /\ Exhausted(c)

\* Fault: a copy that the receiver failed may still be reconciled.
ApplicableTwice(r) ==
  LET c == receipt[r].copy IN
  \/ reconcile_state[c] \in {"awaiting", "receipt_failed"} /\ ~receipt[r].expired
  \/ reconcile_state[c] = "none" /\ status[c] = "delivered"

\* Fault: the sweeper's verdict is not final.
ApplicableAfterSweep(r) ==
  LET c == receipt[r].copy IN
  \/ reconcile_state[c] \in {"awaiting", "timed_out"} /\ ~receipt[r].expired
  \/ reconcile_state[c] = "none" /\ status[c] = "delivered"

Applicable(r) ==
  LET c == receipt[r].copy IN
  \/ reconcile_state[c] = "awaiting" /\ ~receipt[r].expired
  \/ reconcile_state[c] = "none" /\ status[c] = "delivered"

\* Disposition "applied".
ApplyReceipt(r) ==
  LET c == receipt[r].copy IN
  /\ Applicable(r)
  /\ reconcile_state' = [reconcile_state EXCEPT
                           ![c] = IF receipt[r].result = "success"
                                  THEN "acknowledged" ELSE "receipt_failed"]
  /\ status' = [status EXCEPT ![c] = IF Parks(r) THEN "dead_lettered" ELSE @]
  /\ applied' = [applied EXCEPT ![c] = @ + 1]

\* Disposition "late", before any sweep: MARK_TIMED_OUT_SQL.
MarkTimedOut(r) ==
  LET c == receipt[r].copy IN
  /\ reconcile_state[c] = "awaiting" /\ receipt[r].expired
  /\ reconcile_state' = [reconcile_state EXCEPT ![c] = "timed_out"]
  /\ UNCHANGED <<status, applied>>

\* Dispositions "duplicate", "late" after the verdict, and "premature".
LogReceipt(r) ==
  LET c == receipt[r].copy IN
  /\ ~Applicable(r)
  /\ ~(reconcile_state[c] = "awaiting" /\ receipt[r].expired)
  /\ UNCHANGED <<status, reconcile_state, applied>>

\* From FOR UPDATE to the commit the row is this transaction's.
IngestReceipt(r) ==
  /\ receipt[r].copy # Null
  /\ Free(receipt[r].copy)
  /\ ApplyReceipt(r) \/ MarkTimedOut(r) \/ LogReceipt(r)
  /\ receipt' = [receipt EXCEPT ![r] = NoReceipt]
  /\ UNCHANGED <<reconcile_deadline, requeue_count, sweepVars, boundVars>>

----------------------------------------------------------------------------
(***************************************************************************)
(* SWEEP_SQL.                                                              *)
(***************************************************************************)
\* Fault: only the copies that are to be parked are looked for.
OverdueExhausted == {c \in Copies : /\ reconcile_state[c] = "awaiting"
                                    /\ reconcile_deadline[c] = "past"
                                    /\ Exhausted(c)}

Overdue == {c \in Copies : /\ reconcile_state[c] = "awaiting"
                           /\ reconcile_deadline[c] = "past"}

\* The CTE expired, from the statement's snapshot.
SweepSelect(s) ==
  /\ ~sweeping[s]
  /\ sweeping' = [sweeping EXCEPT ![s] = TRUE]
  /\ found' = [found EXCEPT ![s] = Overdue]
  /\ exhausted' = [exhausted EXCEPT ![s] = {c \in Overdue : Exhausted(c)}]
  /\ UNCHANGED <<copyVars, receipt, swept, applied, boundVars>>

\* The UPDATE reaches a row of the CTE, locks it and joins on its id.
SweepRow(s, c) ==
  /\ c \in found[s]
  /\ Free(c)
  /\ swept' = [swept EXCEPT ![s] = @ \cup {c}]
  /\ UNCHANGED <<copyVars, receipt, found, exhausted, sweeping, applied,
                 boundVars>>

EndSweep(s) ==
  /\ sweeping' = [sweeping EXCEPT ![s] = FALSE]
  /\ found' = [found EXCEPT ![s] = {}]
  /\ exhausted' = [exhausted EXCEPT ![s] = {}]
  /\ swept' = [swept EXCEPT ![s] = {}]

SweepCommit(s) ==
  /\ sweeping[s]
  /\ swept[s] = found[s]
  /\ reconcile_state' = [c \in Copies |-> IF c \in swept[s] THEN "timed_out"
                                          ELSE reconcile_state[c]]
  /\ status' = [c \in Copies |-> IF c \in swept[s] \cap exhausted[s]
                                 THEN "dead_lettered" ELSE status[c]]
  /\ EndSweep(s)
  /\ UNCHANGED <<reconcile_deadline, requeue_count, receipt, applied,
                 boundVars>>

\* A database error: all is rolled back.
SweepFails(s) ==
  /\ sweeping[s]
  /\ faults < MaxFaults
  /\ faults' = faults + 1
  /\ EndSweep(s)
  /\ UNCHANGED <<copyVars, receipt, applied, operator_calls>>

\* Sweep s waits for rows that sweep o has locked, and for no others.
WaitsFor(s, o) == /\ found[s] # swept[s]
                  /\ found[s] \ swept[s] \subseteq swept[o]

\* Two sweeps that reach their rows in different orders: PostgreSQL fails
\* one of them and gives its rows to the other, which waits for them.
SweepDeadlocks(s, o) ==
  /\ WaitsFor(s, o) /\ WaitsFor(o, s)
  /\ sweeping' = [sweeping EXCEPT ![s] = FALSE]
  /\ found' = [found EXCEPT ![s] = {}]
  /\ exhausted' = [exhausted EXCEPT ![s] = {}]
  /\ swept' = [swept EXCEPT ![s] = {}, ![o] = found[o]]
  /\ UNCHANGED <<copyVars, receipt, applied, boundVars>>

----------------------------------------------------------------------------
(***************************************************************************)
(* Operator calls.  Their UPDATEs test the conditions on the locked row.   *)
(***************************************************************************)
OperatorCall == /\ operator_calls < MaxOperatorCalls
                /\ operator_calls' = operator_calls + 1
                /\ UNCHANGED faults

RequeueDelivery(c) ==
  /\ OperatorCall
  /\ Free(c)
  /\ status[c] = "delivered"
  /\ reconcile_state[c] \in {"timed_out", "receipt_failed"}
  /\ status' = [status EXCEPT ![c] = "pending"]
  /\ reconcile_state' = [reconcile_state EXCEPT ![c] = "none"]
  /\ reconcile_deadline' = [reconcile_deadline EXCEPT ![c] = Null]
  /\ requeue_count' = [requeue_count EXCEPT ![c] = @ + 1]
  /\ UNCHANGED <<receipt, sweepVars, applied>>

ReviveDeadLetter(c) ==
  /\ OperatorCall
  /\ Free(c)
  /\ status[c] = "dead_lettered"
  /\ status' = [status EXCEPT ![c] = "pending"]
  /\ reconcile_state' = [reconcile_state EXCEPT ![c] = "none"]
  /\ reconcile_deadline' = [reconcile_deadline EXCEPT ![c] = Null]
  /\ requeue_count' = [requeue_count EXCEPT ![c] = 0]
  /\ UNCHANGED <<receipt, sweepVars, applied>>

\* RECEIPT_TIMEOUT_SECONDS after the delivery.
DeadlinePasses(c) ==
  /\ reconcile_deadline[c] = "future"
  /\ reconcile_deadline' = [reconcile_deadline EXCEPT ![c] = "past"]
  /\ UNCHANGED <<status, reconcile_state, requeue_count, receipt, sweepVars,
                 applied, boundVars>>

CopyStep(c) ==
  \/ ClaimNextEvent(c)
  \/ EventSuccess(c)
  \/ EventFailure(c)
  \/ RequeueDelivery(c)
  \/ ReviveDeadLetter(c)
  \/ DeadlinePasses(c)

RequestStep(r) == BeginReceipt(r) \/ RetryReceipt(r) \/ IngestReceipt(r)

SweeperStep(s) ==
  \/ SweepSelect(s)
  \/ \E c \in Copies : SweepRow(s, c)
  \/ SweepCommit(s)
  \/ SweepFails(s)
  \/ \E o \in Sweepers : SweepDeadlocks(s, o)

Next ==
  \/ \E c \in Copies : CopyStep(c)
  \/ \E r \in Requests : RequestStep(r)
  \/ \E s \in Sweepers : SweeperStep(s)

Spec == Init /\ [][Next]_vars

(***************************************************************************)
(* The reconcilers sweep for ever, their statements end, deadlocks are     *)
(* found, and time passes.                                                 *)
(* Nothing is assumed of receivers or operators.                           *)
(***************************************************************************)
Fairness ==
  /\ \A s \in Sweepers :
       /\ WF_vars(SweepSelect(s))
       /\ WF_vars(\E c \in Copies : SweepRow(s, c))
       /\ WF_vars(SweepCommit(s))
  /\ WF_vars(\E s, o \in Sweepers : SweepDeadlocks(s, o))
  /\ \A c \in Copies : WF_vars(DeadlinePasses(c))

FairSpec == Spec /\ Fairness

----------------------------------------------------------------------------
\* One receipt counts per delivery: concurrent and repeated ones are logged
\* and change nothing, also when sweeps and requeues come in between.
AppliedOnce ==
  \A c \in Copies :
    /\ applied[c] <= 1
    /\ reconcile_state[c] = "awaiting" => applied[c] = 0
    /\ reconcile_state[c] \in {"acknowledged", "receipt_failed"}
         => applied[c] = 1

\* What a receiver acknowledged is neither in the queue nor parked.
AcknowledgedIsDelivered ==
  \A c \in Copies : reconcile_state[c] = "acknowledged"
                      => status[c] = "delivered"

\* A receipt that comes after the verdict "timed out" does not reverse it.
TimedOutIsNotReversed ==
  [][\A c \in Copies : reconcile_state[c] = "timed_out"
       => reconcile_state'[c] \notin {"acknowledged", "receipt_failed"}]_vars

\* An acknowledgement is the end: nothing turns it into a timeout.
AcknowledgedIsFinal ==
  [][\A c \in Copies : reconcile_state[c] = "acknowledged"
       => /\ reconcile_state'[c] = "acknowledged"
          /\ status'[c] = status[c]]_vars

\* No copy waits for its receipt for ever.
AwaitingEnds ==
  \A c \in Copies : reconcile_state[c] = "awaiting"
                      ~> reconcile_state[c] # "awaiting"
============================================================================
