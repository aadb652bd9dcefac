---------------------------- MODULE PreviewGate ----------------------------
(***************************************************************************)
(* The preview-consent gate (app/release.py): an event of a gated type     *)
(* gives its subscriber a pair of copies, a preview and behind it a body   *)
(* that is held until the same address has received the preview and nodded *)
(* in time.  The worker (app/worker.py), the consent and void endpoints,   *)
(* the consent sweep of the reconciler, deliver_by and a relocation all    *)
(* move the pair.                                                          *)
(*                                                                         *)
(* Two transactions hold one row while they wait for another: the decision *)
(* locks the body and then the preview, the worker's result locks the      *)
(* preview and then the body.  Each is two steps here; every other action  *)
(* is one transaction, enabled when the rows it would wait for are free.   *)
(*                                                                         *)
(* The module is one destination and its queue, in which a gate is         *)
(* numbered by its place, and each event has this one subscriber.  The     *)
(* destination is confirmed, active and not paused, and the wait before a  *)
(* retry is not modelled: DeliveryQueue has both.  Which delivered copies  *)
(* turn out unreconciled is left open.                                     *)
(***************************************************************************)
EXTENDS Integers

CONSTANTS
  Gates,               \* preview/body pairs, by queue position
  Deadlined,           \* the pairs of events with a deliver_by
  Workers,             \* worker threads
  Requests,            \* concurrent POST .../consent calls
  Null,                \* SQL NULL
  MaxDeliveryAttempts, \* settings.max_delivery_attempts
  MaxOperatorCalls,    \* bound: operator calls in a behaviour
  MaxFaults            \* bound: worker deaths, rollbacks and lapsed live
                       \* leases

ASSUME GateAssumption ==
  /\ Gates \subseteq Nat
  /\ Deadlined \subseteq Gates
  /\ Null \notin Gates
  /\ Null \notin Workers
  /\ Null \notin {"future", "past", "approve", "deny"}
  /\ Null \notin {"release_voided", "deadline_expired"}
  /\ MaxDeliveryAttempts \in Nat \ {0}
  /\ MaxOperatorCalls \in Nat
  /\ MaxFaults \in Nat

Phases == {"preview", "body"}

VARIABLES
  \* deliveries, by gate and phase
  status,
  owner,             \* the thread whose claim_token the row carries
  lapsed,            \* has its lease_until passed?
  failures,          \* consecutive_failures
  delivered_at,      \* is delivered_at set?
  \* deliveries, by gate
  release_state,     \* of the body
  consent_deadline,  \* of the body: Null, "future" or "past"
  deliver_by,        \* of both: Null, "future" or "past"
  old_location,      \* is confirmation_generation behind the destination's?
  \* release_gate_decisions: the row that carries the body's delivery_id
  answer,            \* Null, "approve" or "deny"
  \* worker threads
  pc,                \* "idle", "sending", "recording" or "locked": with the
                     \* preview updated and the transaction open
  job,               \* <<gate, phase>> claimed, or Null
  result,            \* "success" or "failure"
  late,              \* did the call finish at or after deliver_by?
  stale,             \* record_result's stale_generation
  \* consent calls
  request,           \* [gate, decision, expired, locked]; idle: gate = Null
  \* bounds
  operator_calls,
  faults

rowVars == <<status, owner, lapsed, failures, delivered_at>>
gateVars == <<release_state, consent_deadline, deliver_by, old_location,
              answer>>
workerVars == <<pc, job, result, late, stale>>
boundVars == <<operator_calls, faults>>
vars == <<rowVars, gateVars, workerVars, request, boundVars>>

Status == {"absent", "pending", "in_flight", "delivered", "superseded",
           "dead_lettered", "cancelled", "deadline_expired",
           "release_denied", "release_expired", "release_voided"}
ReleaseState == {"held", "released", "release_denied", "release_expired",
                 "release_voided", "deadline_expired"}
Instant == {Null, "future", "past"}
Rows == Gates \X Phases
Request == [gate: Gates \cup {Null}, decision: {"approve", "deny"},
            expired: BOOLEAN, locked: BOOLEAN]
NoRequest == [gate |-> Null, decision |-> "approve", expired |-> FALSE,
              locked |-> FALSE]

TypeOK ==
  /\ status \in [Rows -> Status]
  /\ owner \in [Rows -> Workers \cup {Null}]
  /\ lapsed \in [Rows -> BOOLEAN]
  /\ failures \in [Rows -> Nat]
  /\ delivered_at \in [Rows -> BOOLEAN]
  /\ release_state \in [Gates -> ReleaseState]
  /\ consent_deadline \in [Gates -> Instant]
  /\ deliver_by \in [Gates -> Instant]
  /\ old_location \in [Gates -> BOOLEAN]
  /\ answer \in [Gates -> {Null, "approve", "deny"}]
  /\ pc \in [Workers -> {"idle", "sending", "recording", "locked"}]
  /\ job \in [Workers -> Rows \cup {Null}]
  /\ result \in [Workers -> {"success", "failure"}]
  /\ late \in [Workers -> BOOLEAN]
  /\ stale \in [Workers -> BOOLEAN]
  /\ request \in [Requests -> Request]
  /\ operator_calls \in Nat
  /\ faults \in Nat

Init ==
  /\ status = [x \in Rows |-> "absent"]
  /\ owner = [x \in Rows |-> Null]
  /\ lapsed = [x \in Rows |-> FALSE]
  /\ failures = [x \in Rows |-> 0]
  /\ delivered_at = [x \in Rows |-> FALSE]
  /\ release_state = [g \in Gates |-> "held"]
  /\ consent_deadline = [g \in Gates |-> Null]
  /\ deliver_by = [g \in Gates |-> Null]
  /\ old_location = [g \in Gates |-> FALSE]
  /\ answer = [g \in Gates |-> Null]
  /\ pc = [w \in Workers |-> "idle"]
  /\ job = [w \in Workers |-> Null]
  /\ result = [w \in Workers |-> "failure"]
  /\ late = [w \in Workers |-> FALSE]
  /\ stale = [w \in Workers |-> FALSE]
  /\ request = [r \in Requests |-> NoRequest]
  /\ operator_calls = 0
  /\ faults = 0

Preview(g) == <<g, "preview">>
Body(g) == <<g, "body">>
Held(g) == status[Body(g)] = "pending" /\ release_state[g] = "held"

\* The rows that open transactions have locked.
PreviewFree(g) == \A w \in Workers : ~(pc[w] = "locked" /\ job[w] = Preview(g))
BodyFree(g) == \A r \in Requests : ~(request[r].gate = g /\ request[r].locked)

----------------------------------------------------------------------------
(***************************************************************************)
(* fan_out_gated_event: two consecutive places at the end of the queue.    *)
(***************************************************************************)
FanOutGatedEvent(g) ==
  /\ status[Preview(g)] = "absent"
  /\ \A h \in Gates : h < g => status[Preview(h)] # "absent"
  /\ status' = [status EXCEPT ![Preview(g)] = "pending", ![Body(g)] = "pending"]
  /\ release_state' = [release_state EXCEPT ![g] = "held"]
  /\ deliver_by' = [deliver_by EXCEPT
                      ![g] = IF g \in Deadlined THEN "future" ELSE Null]
  /\ UNCHANGED <<owner, lapsed, failures, delivered_at, consent_deadline,
                 old_location, answer, workerVars, request, boundVars>>

----------------------------------------------------------------------------
(***************************************************************************)
(* claim_next_event: reap, close what missed its deliver_by, supersede     *)
(* what belongs to an old location, and claim the head of a queue.         *)
(***************************************************************************)
Pending == {x \in Rows : status[x] = "pending"}

\* REAP_SQL.
Reaped == {x \in Rows : status[x] = "in_flight" /\ lapsed[x]}

Queued == Pending \cup Reaped

\* expire_due_deliveries skips the rows that a decision has locked.
Missed(Q) == {x \in Q : deliver_by[x[1]] = "past"
                          /\ (x[2] = "body" => BodyFree(x[1]))}

\* An overdue preview takes its body along.
Expired(Q) == Missed(Q) \cup {x \in Q : /\ x[2] = "body"
                                        /\ Preview(x[1]) \in Missed(Q)}

\* SUPERSEDE_STALE_SQL.
Superseded == {x \in Queued \ Expired(Queued) : old_location[x[1]]}

Waiting == Queued \ (Expired(Queued) \cup Superseded)

\* Fault: the claim does not look at release_state.
DeliverableUnreleased(x) == x \in Waiting

Deliverable(x) ==
  x \in Waiting /\ (x[2] = "body" => release_state[x[1]] = "released")

Before(x, y) == x[1] < y[1] \/ (x[1] = y[1] /\ x[2] = "preview" /\ y[2] = "body")

Claimable(x) ==
  /\ Deliverable(x)
  /\ \A y \in Rows : /\ ~(Deliverable(y) /\ Before(y, x))
                     /\ ~(status[y] = "in_flight" /\ y \notin Reaped)

TidyRows(Claimed, w) ==
  /\ status' = [x \in Rows |-> IF x \in Claimed THEN "in_flight"
                               ELSE IF x \in Expired(Queued) THEN "deadline_expired"
                               ELSE IF x \in Superseded THEN "superseded"
                               ELSE IF x \in Waiting THEN "pending"
                               ELSE status[x]]
  /\ release_state' = [g \in Gates |-> IF Body(g) \in Expired(Queued)
                                       THEN "deadline_expired"
                                       ELSE release_state[g]]
  /\ owner' = [x \in Rows |-> IF x \in Claimed THEN w
                              ELSE IF x \in Queued THEN Null ELSE owner[x]]
  /\ lapsed' = [x \in Rows |-> lapsed[x] /\ x \notin Queued]

ClaimNextEvent(w) ==
  /\ pc[w] = "idle"
  /\ \A g \in Gates :
       /\ Preview(g) \in Reaped => PreviewFree(g)
       /\ Body(g) \in Expired(Queued) => BodyFree(g)
  /\ \/ \E x \in Rows : /\ Claimable(x)
                        /\ TidyRows({x}, w)
                        /\ pc' = [pc EXCEPT ![w] = "sending"]
                        /\ job' = [job EXCEPT ![w] = x]
     \/ /\ \A x \in Rows : ~Claimable(x)
        /\ TidyRows({}, w)
        /\ UNCHANGED <<pc, job>>
  /\ UNCHANGED <<failures, delivered_at, consent_deadline, deliver_by,
                 old_location, answer, result, late, stale,
                 request, boundVars>>

----------------------------------------------------------------------------
\* The owner's token is on the row only while the row is in flight.
Owns(w) == status[job[w]] = "in_flight" /\ owner[job[w]] = w

GoIdle(w) ==
  /\ pc' = [pc EXCEPT ![w] = "idle"]
  /\ job' = [job EXCEPT ![w] = Null]
  /\ result' = [result EXCEPT ![w] = "failure"]
  /\ late' = [late EXCEPT ![w] = FALSE]
  /\ stale' = [stale EXCEPT ![w] = FALSE]

\* deliver(), then what record_result reads before it writes: a lost lease
\* ends here, an owner goes on with the generation it saw.
Deliver(w, r) ==
  /\ pc[w] = "sending"
  /\ \/ /\ Owns(w)
        /\ pc' = [pc EXCEPT ![w] = "recording"]
        /\ result' = [result EXCEPT ![w] = r]
        /\ late' = [late EXCEPT ![w] = deliver_by[job[w][1]] = "past"]
        /\ stale' = [stale EXCEPT ![w] = old_location[job[w][1]]]
        /\ UNCHANGED job
     \/ ~Owns(w) /\ GoIdle(w)
  /\ UNCHANGED <<rowVars, gateVars, request, boundVars>>

\* Where record_result sends the copy.
Outcome(w) ==
  IF result[w] = "success" /\ ~late[w] THEN "delivered"
  ELSE IF result[w] = "failure" /\ stale[w] THEN "superseded"
  ELSE IF late[w] THEN "deadline_expired"
  ELSE IF failures[job[w]] + 1 >= MaxDeliveryAttempts THEN "dead_lettered"
  ELSE "pending"

\* Every write names the token but mark_preview_delivered and
\* expire_in_flight_delivery, which take a row in flight for anyone.
Matches(w) ==
  \/ Owns(w)
  \/ /\ status[job[w]] = "in_flight"
     /\ \/ Outcome(w) = "deadline_expired"
        \/ Outcome(w) = "delivered" /\ job[w][2] = "preview"

\* StaleClaimError, or a preview found closed by its deliver_by.
Refuse(w) ==
  /\ pc[w] = "recording"
  /\ ~Matches(w)
  /\ GoIdle(w)
  /\ UNCHANGED <<rowVars, gateVars, request, boundVars>>

\* The first write of a preview's result: the row is this transaction's.
LockPreview(w) ==
  /\ pc[w] = "recording"
  /\ job[w][2] = "preview"
  /\ PreviewFree(job[w][1])
  /\ Matches(w)
  /\ pc' = [pc EXCEPT ![w] = "locked"]
  /\ UNCHANGED <<rowVars, gateVars, job, result, late, stale, request,
                 boundVars>>

\* Fault: a preview that is parked leaves its body behind.
VoidsBodyIfSuperseded(g, s) == s = "superseded" /\ Held(g)

\* void_body_after_preview_failure: the preview never arrives.
VoidsBody(g, s) == s \in {"superseded", "dead_lettered"} /\ Held(g)

ExpiresBody(g, s) == s = "deadline_expired" /\ status[Body(g)] = "pending"

\* mark_preview_delivered: the body waits for the nod from now on.
OpensWindow(g, s) == s = "delivered" /\ Held(g)

WriteRow(x, s) ==
  /\ owner' = [owner EXCEPT ![x] = Null]
  /\ lapsed' = [lapsed EXCEPT ![x] = FALSE]
  /\ failures' = [failures EXCEPT ![x] =
                    IF s = "delivered" THEN 0
                    ELSE IF s \in {"dead_lettered", "pending"} THEN @ + 1
                    ELSE @]
  /\ delivered_at' = [delivered_at EXCEPT ![x] = @ \/ s = "delivered"]

\* The rest of a preview's result, and the commit.  A new deadline lies
\* after the start of every decision under way.
RecordPreview(w) ==
  LET g == job[w][1]
      s == Outcome(w)
      closed == IF VoidsBody(g, s) THEN "release_voided"
                ELSE IF ExpiresBody(g, s) THEN "deadline_expired"
                ELSE Null
  IN
  /\ pc[w] = "locked"
  /\ closed # Null \/ OpensWindow(g, s) => BodyFree(g)
  /\ WriteRow(Preview(g), s)
  /\ status' = [status EXCEPT ![Preview(g)] = s,
                              ![Body(g)] = IF closed # Null THEN closed ELSE @]
  /\ release_state' = [release_state EXCEPT
                         ![g] = IF closed # Null THEN closed ELSE @]
  /\ consent_deadline' = [consent_deadline EXCEPT
                            ![g] = IF OpensWindow(g, s) THEN "future" ELSE @]
  /\ request' = [r \in Requests |->
                   IF OpensWindow(g, s) /\ request[r].gate = g
                   THEN [request[r] EXCEPT !.expired = FALSE]
                   ELSE request[r]]
  /\ GoIdle(w)
  /\ UNCHANGED <<deliver_by, old_location, answer, boundVars>>

RecordBody(w) ==
  LET g == job[w][1]
      s == Outcome(w)
  IN
  /\ pc[w] = "recording"
  /\ job[w][2] = "body"
  /\ Matches(w)
  /\ WriteRow(Body(g), s)
  /\ status' = [status EXCEPT ![Body(g)] = s]
  /\ release_state' = [release_state EXCEPT
                         ![g] = IF s = "deadline_expired" THEN s ELSE @]
  /\ GoIdle(w)
  /\ UNCHANGED <<consent_deadline, deliver_by, old_location, answer, request,
                 boundVars>>

\* The thread dies or its transaction is rolled back; the row keeps the
\* claim until the lease runs out.
WorkerDies(w) ==
  /\ pc[w] # "idle"
  /\ faults < MaxFaults
  /\ faults' = faults + 1
  /\ GoIdle(w)
  /\ UNCHANGED <<rowVars, gateVars, request, operator_calls>>

----------------------------------------------------------------------------
(***************************************************************************)
(* ingest_decision.                                                        *)
(***************************************************************************)
EndRequest(r) == request' = [request EXCEPT ![r] = NoRequest]

\* The transaction starts: its now() is fixed.
BeginDecision(r) ==
  /\ request[r].gate = Null
  /\ \E g \in Gates, d \in {"approve", "deny"} :
       /\ status[Body(g)] # "absent"
       /\ request' = [request EXCEPT
                        ![r] = [gate |-> g, decision |-> d,
                                expired |-> consent_deadline[g] = "past",
                                locked |-> FALSE]]
  /\ UNCHANGED <<rowVars, gateVars, workerVars, boundVars>>

\* Fault: the state of the body is not looked at.
DecidableWhenClosed(g) == status[Body(g)] # "absent"

\* Nothing is decided unless the body still waits.
Decidable(g) == Held(g)

\* Dispositions "duplicate", "conflict" and "late_ignored": an audit row.
IgnoreDecision(r) ==
  LET g == request[r].gate IN
  /\ g # Null /\ ~request[r].locked
  /\ BodyFree(g)
  /\ ~Decidable(g)
  /\ EndRequest(r)
  /\ UNCHANGED <<rowVars, gateVars, workerVars, boundVars>>

LockBody(r) ==
  LET g == request[r].gate IN
  /\ g # Null /\ ~request[r].locked
  /\ BodyFree(g)
  /\ Decidable(g)
  /\ request' = [request EXCEPT ![r].locked = TRUE]
  /\ UNCHANGED <<rowVars, gateVars, workerVars, boundVars>>

InTime(r) == consent_deadline[request[r].gate] # Null /\ ~request[r].expired

\* The preview row is locked too; the decision and its audit row commit.
Decide(r) ==
  LET g == request[r].gate
      s == IF ~InTime(r) THEN "release_expired"
           ELSE IF request[r].decision = "deny" THEN "release_denied"
           ELSE "released"
  IN
  /\ g # Null /\ request[r].locked
  /\ PreviewFree(g)
  /\ \/ /\ ~delivered_at[Preview(g)]
        /\ UNCHANGED <<status, release_state, answer>>
     \/ /\ delivered_at[Preview(g)]
        /\ release_state' = [release_state EXCEPT ![g] = s]
        /\ status' = [status EXCEPT ![Body(g)] = IF s = "released" THEN @ ELSE s]
        /\ answer' = [answer EXCEPT
                        ![g] = IF InTime(r) THEN request[r].decision ELSE @]
  /\ EndRequest(r)
  /\ UNCHANGED <<owner, lapsed, failures, delivered_at, consent_deadline,
                 deliver_by, old_location, workerVars, boundVars>>

\* The worker holds the preview and waits for the body, the decision holds
\* the body and waits for the preview: PostgreSQL rolls one of the two back.
Deadlocked(w, r) ==
  /\ pc[w] = "locked" /\ job[w] = Preview(request[r].gate)
  /\ request[r].locked
  /\ Outcome(w) # "pending"

BreakDeadlock(w, r) ==
  /\ Deadlocked(w, r)
  /\ \/ WorkerDies(w)
     \/ EndRequest(r) /\ UNCHANGED <<rowVars, gateVars, workerVars, boundVars>>

----------------------------------------------------------------------------
(***************************************************************************)
(* The reconciler.                                                         *)
(***************************************************************************)
\* Fault: the sweep forgets release_state = 'held'.
OverdueReleased == {g \in Gates : /\ status[Body(g)] = "pending"
                                  /\ consent_deadline[g] = "past"
                                  /\ BodyFree(g)}

\* Fault: only gates that are answered before the sweep comes are found.
OverdueDelivered == {g \in Gates : /\ status[Body(g)] = "delivered"
                                   /\ release_state[g] = "held"
                                   /\ consent_deadline[g] = "past"}

Overdue == {g \in Gates : Held(g) /\ consent_deadline[g] = "past" /\ BodyFree(g)}

SweepExpiredGates ==
  /\ Overdue # {}
  /\ status' = [x \in Rows |-> IF x[2] = "body" /\ x[1] \in Overdue
                               THEN "release_expired" ELSE status[x]]
  /\ release_state' = [g \in Gates |-> IF g \in Overdue THEN "release_expired"
                                       ELSE release_state[g]]
  /\ UNCHANGED <<owner, lapsed, failures, delivered_at, consent_deadline,
                 deliver_by, old_location, answer, workerVars, request,
                 boundVars>>

ExpireDueDeliveries ==
  /\ Expired(Pending) # {}
  /\ \A g \in Gates : Body(g) \in Expired(Pending) => BodyFree(g)
  /\ status' = [x \in Rows |-> IF x \in Expired(Pending)
                               THEN "deadline_expired" ELSE status[x]]
  /\ release_state' = [g \in Gates |-> IF Body(g) \in Expired(Pending)
                                       THEN "deadline_expired"
                                       ELSE release_state[g]]
  /\ UNCHANGED <<owner, lapsed, failures, delivered_at, consent_deadline,
                 deliver_by, old_location, answer, workerVars, request,
                 boundVars>>

\* A body whose receipt failed or timed out once too often is parked.
ParkBody(g) ==
  /\ status[Body(g)] = "delivered"
  /\ status' = [status EXCEPT ![Body(g)] = "dead_lettered"]
  /\ UNCHANGED <<owner, lapsed, failures, delivered_at, gateVars, workerVars,
                 request, boundVars>>

----------------------------------------------------------------------------
(***************************************************************************)
(* Operator calls.                                                         *)
(***************************************************************************)
OperatorCall == /\ operator_calls < MaxOperatorCalls
                /\ operator_calls' = operator_calls + 1
                /\ UNCHANGED faults

\* void_gated_body.
VoidGatedBody(g) ==
  /\ OperatorCall
  /\ BodyFree(g)
  /\ status[Body(g)] \notin {"absent", "in_flight", "delivered",
                             "release_denied", "release_expired",
                             "release_voided", "deadline_expired"}
  /\ status' = [status EXCEPT ![Body(g)] = "release_voided"]
  /\ release_state' = [release_state EXCEPT ![g] = "release_voided"]
  /\ UNCHANGED <<owner, lapsed, failures, delivered_at, consent_deadline,
                 deliver_by, old_location, answer, workerVars, request>>

\* cancel_event: every copy is still, or again, in the queue.
CancelEvent(g) ==
  /\ OperatorCall
  /\ BodyFree(g)
  /\ \A p \in Phases : status[<<g, p>>] = "pending"
  /\ status' = [status EXCEPT ![Preview(g)] = "cancelled",
                              ![Body(g)] = "cancelled"]
  /\ release_state' = [release_state EXCEPT
                         ![g] = IF @ = "held" THEN "release_voided" ELSE @]
  /\ UNCHANGED <<owner, lapsed, failures, delivered_at, consent_deadline,
                 deliver_by, old_location, answer, workerVars, request>>

\* requeue_delivery.  A failed receipt is accepted for a preview as well.
RequeueDelivery(x) ==
  /\ OperatorCall
  /\ status[x] = "delivered"
  /\ ~old_location[x[1]]
  /\ status' = [status EXCEPT ![x] = "pending"]
  /\ UNCHANGED <<owner, lapsed, failures, delivered_at, gateVars, workerVars,
                 request>>

ReviveDeadLetter(x) ==
  /\ OperatorCall
  /\ status[x] = "dead_lettered"
  /\ ~old_location[x[1]]
  /\ status' = [status EXCEPT ![x] = "pending"]
  /\ failures' = [failures EXCEPT ![x] = 0]
  /\ UNCHANGED <<owner, lapsed, delivered_at, gateVars, workerVars, request>>

\* arm_round with a new url: relocate_held_bodies, then the other copies.
Relocate ==
  LET here(g) == status[Preview(g)] # "absent" IN
  /\ OperatorCall
  /\ \A g \in Gates : here(g) => BodyFree(g)
  /\ old_location' = [g \in Gates |-> old_location[g] \/ here(g)]
  /\ status' = [x \in Rows |->
                  IF ~here(x[1]) \/ status[x] # "pending" THEN status[x]
                  ELSE IF x[2] = "body" /\ release_state[x[1]] = "held"
                  THEN "release_voided" ELSE "superseded"]
  /\ release_state' = [g \in Gates |-> IF here(g) /\ Held(g)
                                       THEN "release_voided"
                                       ELSE release_state[g]]
  /\ UNCHANGED <<owner, lapsed, failures, delivered_at, consent_deadline,
                 deliver_by, answer, workerVars, request>>

----------------------------------------------------------------------------
\* The passing of time.
ConsentDeadlinePasses(g) ==
  /\ consent_deadline[g] = "future"
  /\ consent_deadline' = [consent_deadline EXCEPT ![g] = "past"]
  /\ UNCHANGED <<rowVars, release_state, deliver_by, old_location, answer,
                 workerVars, request, boundVars>>

CutoffPasses(g) ==
  /\ deliver_by[g] = "future"
  /\ deliver_by' = [deliver_by EXCEPT ![g] = "past"]
  /\ UNCHANGED <<rowVars, release_state, consent_deadline, old_location,
                 answer, workerVars, request, boundVars>>

\* Of an abandoned row, or as a fault of a live thread.
LeaseLapses(x) ==
  LET held == \E w \in Workers : job[w] = x /\ owner[x] = w IN
  /\ status[x] = "in_flight" /\ ~lapsed[x]
  /\ held => faults < MaxFaults
  /\ faults' = IF held THEN faults + 1 ELSE faults
  /\ lapsed' = [lapsed EXCEPT ![x] = TRUE]
  /\ UNCHANGED <<status, owner, failures, delivered_at, gateVars, workerVars,
                 request, operator_calls>>

WorkerStep(w) ==
  \/ ClaimNextEvent(w)
  \/ \E r \in {"success", "failure"} : Deliver(w, r)
  \/ Refuse(w)
  \/ LockPreview(w)
  \/ RecordPreview(w)
  \/ RecordBody(w)

RequestStep(r) == IgnoreDecision(r) \/ LockBody(r) \/ Decide(r)

GateStep(g) ==
  \/ FanOutGatedEvent(g)
  \/ ParkBody(g)
  \/ VoidGatedBody(g)
  \/ CancelEvent(g)
  \/ ConsentDeadlinePasses(g)
  \/ CutoffPasses(g)

RowStep(x) == RequeueDelivery(x) \/ ReviveDeadLetter(x) \/ LeaseLapses(x)

Next ==
  \/ \E w \in Workers : WorkerStep(w) \/ WorkerDies(w)
  \/ \E r \in Requests : BeginDecision(r) \/ RequestStep(r)
  \/ \E w \in Workers, r \in Requests : BreakDeadlock(w, r)
  \/ \E g \in Gates : GateStep(g)
  \/ \E x \in Rows : RowStep(x)
  \/ Relocate
  \/ SweepExpiredGates
  \/ ExpireDueDeliveries

Spec == Init /\ [][Next]_vars

(***************************************************************************)
(* Workers and reconcilers loop for ever, transactions end, and time       *)
(* passes.  PostgreSQL serves the waiters of a row lock in turn, so a      *)
(* transaction that waits again and again gets its row (SF).  Nothing is   *)
(* assumed of receivers, operators or faults.                              *)
(***************************************************************************)
Fairness ==
  /\ \A w \in Workers : SF_vars(WorkerStep(w))
  /\ \A r \in Requests : WF_vars(RequestStep(r))
  /\ WF_vars(\E w \in Workers, r \in Requests : BreakDeadlock(w, r))
  /\ WF_vars(SweepExpiredGates)
  /\ \A g \in Gates : WF_vars(ConsentDeadlinePasses(g))
  /\ \A x \in Rows : WF_vars(LeaseLapses(x))

FairSpec == Spec /\ Fairness

----------------------------------------------------------------------------
\* A body leaves the house only after its own preview arrived and its own
\* address approved, whatever is requeued, revived, reaped or taken over in
\* between (README 1.5).
BodyOnlyAfterNod ==
  \A g \in Gates :
    \/ status[Body(g)] \in {"in_flight", "delivered", "dead_lettered"}
    \/ delivered_at[Body(g)]
    => delivered_at[Preview(g)] /\ answer[g] = "approve"

\* The one effective answer and the state of the gate tell the same story,
\* in whichever order nods, sweeps, voids and cutoffs came.
AnswerMatchesGate ==
  \A g \in Gates :
    /\ release_state[g] = "released" => answer[g] = "approve"
    /\ release_state[g] = "release_denied" <=> answer[g] = "deny"
    /\ release_state[g] \in {"held", "release_expired"} => answer[g] = Null
    /\ release_state[g] = "release_expired" => consent_deadline[g] # "future"

\* A held body is never forgotten: its preview is still on its way, or the
\* consent window is open and will close it.
HeldHasAWayOut ==
  \A g \in Gates : Held(g) =>
    \/ status[Preview(g)] \in {"pending", "in_flight"}
    \/ consent_deadline[g] # Null

\* A denied, expired or voided body is gone for good: a late nod does not
\* revive it, and neither do a requeue, a revive or a late result.
ClosedForGood ==
  [][\A g \in Gates : release_state[g] \notin {"held", "released"} =>
       /\ release_state'[g] = release_state[g]
       /\ status'[Body(g)] \notin {"pending", "in_flight", "delivered"}]_vars

\* What the destination notices of a gate.
GateOf(g) == IF release_state[g] \in {"held", "released"} THEN release_state[g]
             ELSE "shut"
IsOut(g) == status[Body(g)] \in {"in_flight", "delivered"}

Consent == INSTANCE ConsentGate WITH
             gate <- [g \in Gates |-> GateOf(g)],
             shown <- [g \in Gates |-> delivered_at[Preview(g)]],
             out <- [g \in Gates |-> IsOut(g)]

\* With all its threads, calls, sweeps and locks the gate does nothing but what
\* ConsentGate allows: the first answer in time to a preview that arrived is the
\* only one that counts, no later answer or sweep turns it round, and the body
\* leaves only while the gate stands open.
ActsAsConsentGate == Consent!Spec

\* Every held body is released or closed in the end.
HeldEnds == \A g \in Gates : Held(g) ~> ~Held(g)
============================================================================
