----------------------------- MODULE EventOps -----------------------------
(***************************************************************************)
(* One event, several copies (app/main.py): the calls that treat an event  *)
(* as a whole (cancel, reschedule, deliver-by, requeue-unreconciled,       *)
(* corrections), the acknowledgement threshold, and the status that the    *)
(* API derives from the copies, against workers, receipts and reconciler   *)
(* that move each copy by itself.                                          *)
(*                                                                         *)
(* cancel, reschedule and requeue lock the event and its copies and then   *)
(* judge: each is two steps here, Begin and Finish, and in between a row   *)
(* it holds makes every other writer wait and the worker's claim (SKIP     *)
(* LOCKED) pass it over.  SWEEP_SQL selects without a lock and updates by  *)
(* id: SweepSelect and SweepCommit.  Every other action is one             *)
(* transaction.                                                            *)
(*                                                                         *)
(* An event is numbered by its place in the queues.  The destinations are  *)
(* confirmed, active and not paused, subscriptions have no filter, and     *)
(* leases, gates and chains are left to the other modules; so the counts   *)
(* of gated bodies, relay stations and withheld copies are zero.           *)
(***************************************************************************)
EXTENDS Integers, FiniteSets

CONSTANTS
  Events,              \* events and corrections, by queue position
  Ordinary,            \* those that a source submits; the others are
                       \* corrections
  Scheduled,           \* the ordinary ones with a not_before
  Deadlined,           \* the ordinary ones with a deliver_by
  Dests,               \* subscribers
  Thresholds,          \* acknowledgement thresholds that may be set
  Calls,               \* concurrent calls of cancel, reschedule and requeue
  Sweepers,            \* reconciler processes
  Null,                \* SQL NULL
  MaxDeliveryAttempts, \* settings.max_delivery_attempts
  MaxRequeueCycles,    \* settings.max_requeue_cycles
  MaxOperatorCalls     \* bound: operator calls in a behaviour

ASSUME EventAssumption ==
  /\ Events \subseteq Nat
  /\ Ordinary \subseteq Events
  /\ Scheduled \subseteq Ordinary
  /\ Deadlined \subseteq Ordinary
  /\ IsFiniteSet(Dests)
  /\ Thresholds \subseteq Nat \ {0}
  /\ Null \notin Events /\ Null \notin Nat
  /\ MaxDeliveryAttempts \in Nat \ {0}
  /\ MaxRequeueCycles \in Nat
  /\ MaxOperatorCalls \in Nat

VARIABLES
  \* configuration
  threshold,          \* event_type_ack_thresholds, or Null
  shadow,             \* destinations.observe_only
  \* events
  stored,             \* does the row exist?
  cancelled,          \* is cancelled_at set?
  required_ack_count,
  corrects,           \* corrects_event_id, or Null
  \* deliveries, by event and destination
  status,
  reconcile_state,
  delivered_at,       \* is delivered_at set?
  failures,           \* consecutive_failures
  requeue_count,      \* saturated at MaxRequeueCycles, its only comparison
  observe_only,       \* the snapshot of shadow
  not_before,         \* does it lie in the future?
  deliver_by,         \* Null, "future" or "past"
  old_location,       \* is confirmation_generation behind the destination's?
  \* reconcilers
  found,              \* the CTE expired of a sweep under way
  exhausted,          \* those of found that had no requeue cycles left
  \* API calls under way, and the bound
  call,               \* [op, event]; idle: op = Null
  operator_calls

configVars == <<threshold, shadow>>
eventVars == <<stored, cancelled, required_ack_count, corrects>>
gateVars == <<not_before, deliver_by>>
budgetVars == <<failures, requeue_count>>
copyVars == <<status, reconcile_state, delivered_at, budgetVars, observe_only,
              gateVars, old_location>>
sweepVars == <<found, exhausted>>
callVars == <<call, operator_calls>>
vars == <<configVars, eventVars, copyVars, sweepVars, callVars>>

Status == {"absent", "pending", "in_flight", "delivered", "cancelled",
           "superseded", "dead_lettered", "failed", "deadline_expired"}
ReconcileState == {"none", "awaiting", "acknowledged", "receipt_failed",
                   "timed_out"}
Copies == Events \X Dests
CopiesOf(e) == {c \in Copies : c[1] = e /\ status[c] # "absent"}
EventOp == {"cancel", "reschedule", "requeue"}
NoCall == [op |-> Null, event |-> Null]

TypeOK ==
  /\ threshold \in Thresholds \cup {Null}
  /\ shadow \in [Dests -> BOOLEAN]
  /\ stored \in [Events -> BOOLEAN]
  /\ cancelled \in [Events -> BOOLEAN]
  /\ required_ack_count \in [Events -> Nat]
  /\ corrects \in [Events -> Events \cup {Null}]
  /\ status \in [Copies -> Status]
  /\ reconcile_state \in [Copies -> ReconcileState]
  /\ delivered_at \in [Copies -> BOOLEAN]
  /\ failures \in [Copies -> Nat]
  /\ requeue_count \in [Copies -> Nat]
  /\ observe_only \in [Copies -> BOOLEAN]
  /\ not_before \in [Copies -> BOOLEAN]
  /\ deliver_by \in [Copies -> {Null, "future", "past"}]
  /\ old_location \in [Copies -> BOOLEAN]
  /\ found \in [Sweepers -> SUBSET Copies]
  /\ exhausted \in [Sweepers -> SUBSET Copies]
  /\ call \in [Calls -> [op: EventOp \cup {Null}, event: Events \cup {Null}]]
  /\ operator_calls \in Nat

Init ==
  /\ threshold = Null
  /\ shadow = [d \in Dests |-> FALSE]
  /\ stored = [e \in Events |-> FALSE]
  /\ cancelled = [e \in Events |-> FALSE]
  /\ required_ack_count = [e \in Events |-> 0]
  /\ corrects = [e \in Events |-> Null]
  /\ status = [c \in Copies |-> "absent"]
  /\ reconcile_state = [c \in Copies |-> "none"]
  /\ delivered_at = [c \in Copies |-> FALSE]
  /\ failures = [c \in Copies |-> 0]
  /\ requeue_count = [c \in Copies |-> 0]
  /\ observe_only = [c \in Copies |-> FALSE]
  /\ not_before = [c \in Copies |-> FALSE]
  /\ deliver_by = [c \in Copies |-> Null]
  /\ old_location = [c \in Copies |-> FALSE]
  /\ found = [s \in Sweepers |-> {}]
  /\ exhausted = [s \in Sweepers |-> {}]
  /\ call = [r \in Calls |-> NoCall]
  /\ operator_calls = 0

OperatorCall == /\ operator_calls < MaxOperatorCalls
                /\ operator_calls' = operator_calls + 1

----------------------------------------------------------------------------
(***************************************************************************)
(* What the API derives from the copies of an event.                       *)
(***************************************************************************)
Real(e) == {c \in CopiesOf(e) : ~observe_only[c]}
Shadows(e) == {c \in CopiesOf(e) : observe_only[c]}
In(C, S) == {c \in C : status[c] \in S}

\* event_response: what was superseded or expired is not live.
Live(C) == C \ In(C, {"superseded", "deadline_expired"})

AcknowledgedCount(e) ==
  Cardinality({c \in Real(e) : reconcile_state[c] = "acknowledged"})

AtMost(a, b) == IF a <= b THEN a ELSE b

\* event_response and event_reconcile_status: acknowledged_quorum.
Acknowledged(e) ==
  LET required == AtMost(required_ack_count[e], Cardinality(Live(Real(e))))
  IN  required > 0 /\ AcknowledgedCount(e) >= required

\* Fault: copies that will never be sent count as live.
StatusWithSuperseded(e) ==
  IF cancelled[e] THEN "cancelled"
  ELSE IF Real(e) = {} THEN "unrouted"
  ELSE IF In(Real(e), {"pending", "in_flight"}) # {} THEN "pending"
  ELSE IF In(Real(e), {"dead_lettered"}) # {} THEN "dead_lettered"
  ELSE IF In(Real(e), {"delivered"}) = Real(e) THEN "delivered"
  ELSE "pending"

\* event_status.
EventStatus(e) ==
  LET real == Live(Real(e))
      shadows == Live(Shadows(e))
      some(C, s) == In(C, s) # {}
  IN
  IF cancelled[e] THEN "cancelled"
  ELSE IF real # {} THEN
    IF some(real, {"pending", "in_flight"}) THEN "pending"
    ELSE IF some(Real(e), {"deadline_expired"}) THEN "deadline_expired"
    ELSE IF some(real, {"dead_lettered"}) THEN "dead_lettered"
    ELSE IF some(real, {"failed"}) THEN "failed"
    ELSE IF In(real, {"delivered"}) = real THEN "delivered"
    ELSE "pending"
  ELSE IF shadows # {} THEN
    IF some(shadows, {"pending", "in_flight"}) THEN "pending"
    ELSE IF some(shadows, {"delivered"})
    THEN IF In(shadows, {"delivered"}) = shadows THEN "delivered"
         ELSE "pending"
    ELSE IF some(Shadows(e), {"deadline_expired"}) THEN "deadline_expired"
    ELSE IF some(shadows, {"dead_lettered"}) THEN "dead_lettered"
    ELSE IF some(shadows, {"failed"}) THEN "failed"
    ELSE "pending"
  ELSE IF some(CopiesOf(e), {"superseded"}) THEN "superseded"
  ELSE IF some(Real(e), {"deadline_expired"}) THEN "deadline_expired"
  ELSE "unrouted"

----------------------------------------------------------------------------
(***************************************************************************)
(* Configuration, and the fan-out of events and corrections.               *)
(***************************************************************************)
SetAckThreshold(n) ==
  /\ OperatorCall
  /\ threshold' = n
  /\ UNCHANGED <<shadow, eventVars, copyVars, sweepVars, call>>

SetObserveOnly(d) ==
  /\ OperatorCall
  /\ shadow' = [shadow EXCEPT ![d] = ~@]
  /\ UNCHANGED <<threshold, eventVars, copyVars, sweepVars, call>>

Required(n) == IF threshold = Null THEN n ELSE AtMost(threshold, n)

\* One copy for each of C at the end of its queue; those in S are shadows.
FanOut(e, C, S) ==
  /\ ~stored[e]
  /\ \A f \in Events : f < e => stored[f]
  /\ stored' = [stored EXCEPT ![e] = TRUE]
  /\ status' = [c \in Copies |-> IF c \in C THEN "pending" ELSE status[c]]
  /\ observe_only' = [c \in Copies |-> IF c \in C THEN c \in S
                                       ELSE observe_only[c]]
  /\ required_ack_count' = [required_ack_count EXCEPT
                              ![e] = Required(Cardinality(C \ S))]
  /\ UNCHANGED <<configVars, cancelled, reconcile_state, delivered_at,
                 budgetVars, old_location, sweepVars, call>>

\* store_event.
StoreEvent(e) ==
  LET C == {e} \X Dests IN
  /\ e \in Ordinary
  /\ FanOut(e, C, {c \in C : shadow[c[2]]})
  /\ not_before' = [c \in Copies |-> IF c \in C THEN e \in Scheduled
                                     ELSE not_before[c]]
  /\ deliver_by' = [c \in Copies |-> IF c \in C /\ e \in Deadlined
                                     THEN "future" ELSE deliver_by[c]]
  /\ UNCHANGED <<corrects, operator_calls>>

\* create_correction: for the addresses that the original has reached.
CreateCorrection(k, e) ==
  LET C == {c \in Copies : c[1] = k /\ delivered_at[<<e, c[2]>>]} IN
  /\ OperatorCall
  /\ k \notin Ordinary
  /\ \A r \in Calls : call[r].event # e
  /\ C # {}
  /\ FanOut(k, C, {c \in C : observe_only[<<e, c[2]>>]})
  /\ corrects' = [corrects EXCEPT ![k] = e]
  /\ UNCHANGED gateVars

----------------------------------------------------------------------------
(***************************************************************************)
(* Row locks, and the worker.                                              *)
(***************************************************************************)
\* LOCK_EVENT_DELIVERIES_SQL; the requeue locks for-real copies only.
Locks(r, c) ==
  /\ call[r].event = c[1]
  /\ IF call[r].op = "requeue"
     THEN ~observe_only[c] /\ status[c] # "superseded"
     ELSE status[c] # "cancelled"

Free(c) == \A r \in Calls : ~Locks(r, c)

InQueue(c) == status[c] \in {"pending", "in_flight"} /\ deliver_by[c] # "past"

Ready(c) == status[c] = "pending" /\ deliver_by[c] # "past" /\ ~not_before[c]

(***************************************************************************)
(* CLAIM_SQL takes the first row of a destination that it can lock.  Apart *)
(* from the calls of this module, receipts, sweeps and other claims lock   *)
(* rows as well, and the statement's snapshot may be old (DeliveryQueue):  *)
(* here any copy that may go may be claimed, and the head of a destination *)
(* that nothing is in flight to is claimed in the end (Fairness).          *)
(***************************************************************************)
Claim(c) ==
  /\ Ready(c) /\ Free(c)
  /\ status' = [status EXCEPT ![c] = "in_flight"]
  /\ UNCHANGED <<configVars, eventVars, reconcile_state, delivered_at,
                 budgetVars, observe_only, gateVars, old_location, sweepVars,
                 callVars>>

IsHead(c) ==
  /\ \A x \in Copies : x[2] = c[2] => status[x] # "in_flight"
  /\ \A x \in Copies : x[2] = c[2] /\ x[1] < c[1] => ~InQueue(x)

\* record_result.  A correction that fails is not sent again.
RecordResult(c, success) ==
  LET late == deliver_by[c] = "past"
      s == IF success THEN IF late THEN "deadline_expired" ELSE "delivered"
           ELSE IF old_location[c] THEN "superseded"
           ELSE IF corrects[c[1]] # Null THEN "failed"
           ELSE IF late THEN "deadline_expired"
           ELSE IF failures[c] + 1 >= MaxDeliveryAttempts THEN "dead_lettered"
           ELSE "pending"
  IN
  /\ status[c] = "in_flight"
  /\ Free(c)
  /\ status' = [status EXCEPT ![c] = s]
  /\ reconcile_state' = [reconcile_state EXCEPT
                           ![c] = IF s = "delivered" THEN "awaiting" ELSE @]
  /\ delivered_at' = [delivered_at EXCEPT ![c] = @ \/ s = "delivered"]
  /\ failures' = [failures EXCEPT
                    ![c] = IF s = "delivered" THEN 0
                           ELSE IF s \in {"pending", "dead_lettered", "failed"}
                           THEN @ + 1 ELSE @]
  /\ UNCHANGED <<configVars, eventVars, requeue_count, observe_only, gateVars,
                 old_location, sweepVars, callVars>>

----------------------------------------------------------------------------
(***************************************************************************)
(* Receipts and the reconciler.                                            *)
(***************************************************************************)
Exhausted(c) == requeue_count[c] >= MaxRequeueCycles

Conclude(c, outcome, parked) ==
  /\ reconcile_state[c] = "awaiting"
  /\ Free(c)
  /\ reconcile_state' = [reconcile_state EXCEPT ![c] = outcome]
  /\ status' = [status EXCEPT ![c] = IF parked THEN "dead_lettered" ELSE @]
  /\ UNCHANGED <<configVars, eventVars, delivered_at, budgetVars, observe_only,
                 gateVars, old_location, sweepVars, callVars>>

IngestReceipt(c) ==
  \/ Conclude(c, "acknowledged", FALSE)
  \/ Conclude(c, "receipt_failed", Exhausted(c))
  \/ Conclude(c, "timed_out", FALSE)

Awaiting == {c \in Copies : reconcile_state[c] = "awaiting"}

\* The CTE expired: those whose deadline has passed, not locked.
SweepSelect(s, S) ==
  /\ found[s] = {}
  /\ S # {} /\ S \subseteq Awaiting
  /\ found' = [found EXCEPT ![s] = S]
  /\ exhausted' = [exhausted EXCEPT ![s] = {c \in S : Exhausted(c)}]
  /\ UNCHANGED <<configVars, eventVars, copyVars, callVars>>

\* The UPDATE waits for the rows, joins on the id alone and does not look at
\* what has become of them since.
SweepCommit(s) ==
  /\ found[s] # {}
  /\ \A c \in found[s] : Free(c)
  /\ reconcile_state' = [c \in Copies |-> IF c \in found[s] THEN "timed_out"
                                          ELSE reconcile_state[c]]
  /\ status' = [c \in Copies |-> IF c \in exhausted[s] THEN "dead_lettered"
                                 ELSE status[c]]
  /\ found' = [found EXCEPT ![s] = {}]
  /\ exhausted' = [exhausted EXCEPT ![s] = {}]
  /\ UNCHANGED <<configVars, eventVars, delivered_at, budgetVars, observe_only,
                 gateVars, old_location, callVars>>

\* expire_due_deliveries, in the worker and in the reconciler: it too passes
\* over rows that are locked.
Overdue == {c \in Copies : /\ status[c] = "pending" /\ deliver_by[c] = "past"
                           /\ Free(c)}

ExpireDueDeliveries(S) ==
  /\ S # {} /\ S \subseteq Overdue
  /\ status' = [c \in Copies |-> IF c \in S THEN "deadline_expired"
                                 ELSE status[c]]
  /\ UNCHANGED <<configVars, eventVars, reconcile_state, delivered_at,
                 budgetVars, observe_only, gateVars, old_location, sweepVars,
                 callVars>>

----------------------------------------------------------------------------
(***************************************************************************)
(* Calls for a whole event.                                                *)
(***************************************************************************)
\* The event row and the copies are locked.
BeginCall(r) ==
  /\ call[r] = NoCall
  /\ OperatorCall
  /\ \E op \in EventOp, e \in Events :
       /\ stored[e]
       /\ \A q \in Calls : call[q].event # e
       /\ call' = [call EXCEPT ![r] = [op |-> op, event |-> e]]
  /\ UNCHANGED <<configVars, eventVars, copyVars, sweepVars>>

EndCall(r) == call' = [call EXCEPT ![r] = NoCall]

\* Fault: a copy in flight is overlooked.
StillQueuedOrInFlight(e) ==
  CopiesOf(e) = In(CopiesOf(e), {"pending", "in_flight", "cancelled"})

\* not event_has_irreversible_delivery.
StillQueued(e) == CopiesOf(e) = In(CopiesOf(e), {"pending", "cancelled"})

\* Fault: any delivered copy will do.
RequeueableOnceDelivered(c) == status[c] = "delivered" /\ ~old_location[c]

\* REQUEUEABLE_WHERE.
Requeueable(c) == /\ status[c] = "delivered"
                  /\ reconcile_state[c] \in {"timed_out", "receipt_failed"}
                  /\ ~old_location[c]

\* Fault: the threshold of the type is forgotten.
PullListWithoutThreshold(e) ==
  LET live == Real(e) \ In(Real(e), {"superseded"})
  IN  IF AcknowledgedCount(e) >= Cardinality(live) THEN {}
      ELSE {c \in Real(e) : Requeueable(c)}

\* The copies that requeue_event_unreconciled sends again: none once the
\* event has its acknowledgements.  It counts expired copies as live.
PullList(e) ==
  LET live == Real(e) \ In(Real(e), {"superseded"})
      required == AtMost(required_ack_count[e], Cardinality(live))
  IN  IF required > 0 /\ AcknowledgedCount(e) >= required THEN {}
      ELSE {c \in Real(e) : Requeueable(c)}

SendAgain(C) ==
  /\ status' = [c \in Copies |-> IF c \in C THEN "pending" ELSE status[c]]
  /\ reconcile_state' = [c \in Copies |-> IF c \in C THEN "none"
                                          ELSE reconcile_state[c]]

\* REQUEUE_SET_SQL.
Requeue(C) ==
  /\ SendAgain(C)
  /\ requeue_count' = [c \in Copies |->
                         IF c \in C
                         THEN AtMost(requeue_count[c] + 1, MaxRequeueCycles)
                         ELSE requeue_count[c]]
  /\ UNCHANGED failures

FinishCancel(r) ==
  LET e == call[r].event
      accepted == ~cancelled[e] /\ StillQueued(e)
  IN
  /\ call[r].op = "cancel"
  /\ cancelled' = [cancelled EXCEPT ![e] = @ \/ accepted]
  /\ status' = [c \in Copies |->
                  IF accepted /\ c[1] = e /\ status[c] = "pending"
                  THEN "cancelled" ELSE status[c]]
  /\ EndCall(r)
  /\ UNCHANGED <<configVars, stored, required_ack_count, corrects,
                 reconcile_state, delivered_at, budgetVars, observe_only,
                 gateVars, old_location, sweepVars, operator_calls>>

FinishReschedule(r) ==
  LET e == call[r].event
      accepted == ~cancelled[e] /\ StillQueued(e)
  IN
  /\ call[r].op = "reschedule"
  /\ \E later \in BOOLEAN :
       not_before' = [c \in Copies |->
                        IF accepted /\ c[1] = e /\ status[c] = "pending"
                        THEN later ELSE not_before[c]]
  /\ EndCall(r)
  /\ UNCHANGED <<configVars, eventVars, status, reconcile_state, delivered_at,
                 budgetVars, observe_only, deliver_by, old_location, sweepVars,
                 operator_calls>>

FinishRequeue(r) ==
  /\ call[r].op = "requeue"
  /\ Requeue(PullList(call[r].event))
  /\ EndCall(r)
  /\ UNCHANGED <<configVars, eventVars, delivered_at, observe_only, gateVars,
                 old_location, sweepVars, operator_calls>>

FinishCall(r) == FinishCancel(r) \/ FinishReschedule(r) \/ FinishRequeue(r)

\* update_event_deliver_by: what was delivered before keeps its cutoff.
UpdateDeliverBy(e, by) ==
  /\ OperatorCall
  /\ stored[e] /\ ~cancelled[e]
  /\ \A r \in Calls : call[r].event # e
  /\ deliver_by' = [c \in Copies |->
                      IF /\ c[1] = e /\ ~delivered_at[c]
                         /\ status[c] \in {"pending", "in_flight"}
                      THEN by ELSE deliver_by[c]]
  /\ UNCHANGED <<configVars, eventVars, status, reconcile_state, delivered_at,
                 budgetVars, observe_only, not_before, old_location, sweepVars,
                 call>>

----------------------------------------------------------------------------
(***************************************************************************)
(* Calls for one copy or one destination.                                  *)
(***************************************************************************)
\* requeue_delivery, and requeue_unreconciled for the whole of d.
RequeueDelivery(c) ==
  /\ OperatorCall
  /\ Requeueable(c) /\ Free(c)
  /\ Requeue({c})
  /\ UNCHANGED <<configVars, eventVars, delivered_at, observe_only, gateVars,
                 old_location, sweepVars, call>>

RequeueUnreconciled(d) ==
  LET C == {c \in Copies : c[2] = d /\ Requeueable(c)} IN
  /\ OperatorCall
  /\ C # {} /\ \A c \in C : Free(c)
  /\ Requeue(C)
  /\ UNCHANGED <<configVars, eventVars, delivered_at, observe_only, gateVars,
                 old_location, sweepVars, call>>

ReviveDeadLetter(c) ==
  /\ OperatorCall
  /\ status[c] = "dead_lettered" /\ ~old_location[c] /\ Free(c)
  /\ SendAgain({c})
  /\ failures' = [failures EXCEPT ![c] = 0]
  /\ requeue_count' = [requeue_count EXCEPT ![c] = 0]
  /\ UNCHANGED <<configVars, eventVars, delivered_at, observe_only, gateVars,
                 old_location, sweepVars, call>>

\* arm_round with a new url, and the handshake that confirms it.
Relocate(d) ==
  LET here == {c \in Copies : c[2] = d /\ status[c] # "absent"} IN
  /\ OperatorCall
  /\ here # {}
  /\ \A c \in here : status[c] = "pending" => Free(c)
  /\ status' = [c \in Copies |-> IF c \in here /\ status[c] = "pending"
                                 THEN "superseded" ELSE status[c]]
  /\ old_location' = [c \in Copies |-> old_location[c] \/ c \in here]
  /\ UNCHANGED <<configVars, eventVars, reconcile_state, delivered_at,
                 budgetVars, observe_only, gateVars, sweepVars, call>>

\* The passing of time.
NotBeforePasses(e) ==
  /\ \E c \in CopiesOf(e) : not_before[c]
  /\ not_before' = [c \in Copies |-> not_before[c] /\ c[1] # e]
  /\ UNCHANGED <<configVars, eventVars, status, reconcile_state, delivered_at,
                 budgetVars, observe_only, deliver_by, old_location, sweepVars,
                 callVars>>

CutoffPasses(e) ==
  /\ \E c \in CopiesOf(e) : deliver_by[c] = "future"
  /\ deliver_by' = [c \in Copies |->
                      IF c[1] = e /\ deliver_by[c] = "future" THEN "past"
                      ELSE deliver_by[c]]
  /\ UNCHANGED <<configVars, eventVars, status, reconcile_state, delivered_at,
                 budgetVars, observe_only, not_before, old_location, sweepVars,
                 callVars>>

----------------------------------------------------------------------------
CallStep(r) == BeginCall(r) \/ FinishCall(r)

EventStep(e) ==
  \/ StoreEvent(e)
  \/ \E f \in Events : CreateCorrection(e, f)
  \/ \E by \in {Null, "future"} : UpdateDeliverBy(e, by)
  \/ NotBeforePasses(e)
  \/ CutoffPasses(e)

CopyStep(c) ==
  \/ Claim(c)
  \/ \E success \in BOOLEAN : RecordResult(c, success)
  \/ IngestReceipt(c)
  \/ RequeueDelivery(c)
  \/ ReviveDeadLetter(c)

DestStep(d) ==
  \/ RequeueUnreconciled(d)
  \/ Relocate(d)
  \/ SetObserveOnly(d)

SweepStep(s) ==
  \/ \E S \in SUBSET Awaiting : SweepSelect(s, S)
  \/ SweepCommit(s)

Next ==
  \/ \E n \in Thresholds \cup {Null} : SetAckThreshold(n)
  \/ \E r \in Calls : CallStep(r)
  \/ \E e \in Events : EventStep(e)
  \/ \E c \in Copies : CopyStep(c)
  \/ \E d \in Dests : DestStep(d)
  \/ \E s \in Sweepers : SweepStep(s)
  \/ \E S \in SUBSET Overdue : ExpireDueDeliveries(S)

Spec == Init /\ [][Next]_vars

(***************************************************************************)
(* Workers and reconciler loop for ever, calls to receivers and to the API *)
(* end, time passes, and no row is locked at every claim for ever.         *)
(* Nothing is assumed of receivers and operators.                          *)
(***************************************************************************)
Fairness ==
  /\ WF_vars(\E c \in Copies : IsHead(c) /\ Claim(c))
  /\ WF_vars(\E c \in Copies, success \in BOOLEAN : RecordResult(c, success))
  /\ WF_vars(\E S \in SUBSET Overdue : ExpireDueDeliveries(S))
  /\ WF_vars(\E r \in Calls : FinishCall(r))
  /\ WF_vars(\E e \in Events : NotBeforePasses(e))

FairSpec == Spec /\ Fairness

----------------------------------------------------------------------------
\* A sweep writes to a copy that has moved on since it was found.
SweptLate(c) == \E s \in Sweepers : /\ c \in found[s] /\ found'[s] = {}
                                    /\ reconcile_state[c] # "awaiting"

\* An event that has its acknowledgements keeps them, whatever becomes of its
\* other copies: "认够是终态" (README 4).  A late sweep is the only way to lose
\* one.
AcknowledgedForGood ==
  [][\A e \in Events : Acknowledged(e) =>
       Acknowledged(e)' \/ \E c \in Real(e) : SweptLate(c)]_vars

\* Once the API shows an event as acknowledged, requeue-unreconciled finds
\* nothing to send, although the two count the live copies differently.
NothingToPullOnceAcknowledged ==
  \A e \in Events : Acknowledged(e) => PullList(e) = {}

\* A cancellation takes all copies of the event out of the queue, and neither
\* it nor they come back, unless a late sweep parks a cancelled copy, where
\* an operator may find it and revive it.
CancelledForGood ==
  [][\A e \in Events :
       /\ cancelled[e] => cancelled'[e]
       /\ cancelled'[e] => \A c \in CopiesOf(e) :
            \/ status'[c] = "cancelled"
            \/ SweptLate(c)
            \/ cancelled[e] /\ status[c] # "cancelled"]_vars

\* A for-real event does not read "pending" for ever: its copies come to an
\* end, and the counts that event_status adds up do too.
ForRealPending(e) == Live(Real(e)) # {} /\ EventStatus(e) = "pending"

EventsSettle == \A e \in Events : ForRealPending(e) ~> ~ForRealPending(e)
============================================================================
