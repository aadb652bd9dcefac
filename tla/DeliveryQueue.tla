--------------------------- MODULE DeliveryQueue ---------------------------
(***************************************************************************)
(* The delivery queue: the rows of `destinations` and `deliveries` that    *)
(* the worker processes share, and the worker threads that claim a copy,   *)
(* call the receiver over HTTP and record the result (app/worker.py), with *)
(* the operator calls of app/main.py and app/confirmation.py that change   *)
(* the same rows.                                                          *)
(*                                                                         *)
(* One action is one committed database transaction, with three exceptions *)
(* where a transaction decides on rows it has not locked and writes later. *)
(* CLAIM_SQL finds its destination on the statement's snapshot and picks   *)
(* the copy under SKIP LOCKED: TakeSnapshot and ClaimNextEvent.  SWEEP_SQL *)
(* selects without a lock and updates by id: SweepSelect and SweepCommit.  *)
(* record_result reads the ownership and the generation first: RecordCheck *)
(* and RecordWrite.  A clock is never modelled: a timestamp that the code  *)
(* compares with now() is "future" until the action that lets it pass      *)
(* makes it "past".                                                        *)
(*                                                                         *)
(* Every event of this module has one subscriber; previews, relay stations *)
(* and event-wide operations are other components of the plan.             *)
(***************************************************************************)
EXTENDS Integers

CONSTANTS
  Dests,               \* destinations
  Copies,              \* deliveries
  Workers,             \* worker threads, of one process or of several
  Sweepers,            \* reconciler processes
  Tokens,              \* claim tokens (uuid4 values)
  Null,                \* SQL NULL
  DestOf,              \* the destination of a copy
  Corrections,         \* the copies of correction events
  Deadlined,           \* the copies with a deliver_by
  Pausable,            \* destinations an operator may pause
  FailureThreshold,    \* settings.failure_threshold
  MaxDeliveryAttempts, \* settings.max_delivery_attempts
  MaxRequeueCycles,    \* settings.max_requeue_cycles
  PickedHasDeliverBy,  \* does the subquery `picked` of CLAIM_SQL select
                       \* deliver_by, which line 219 reads?  Not in the
                       \* repository: see README
  MaxOperatorCalls,    \* bound: operator calls in a behaviour
  MaxFaults            \* bound: worker deaths and lapsed live leases

ASSUME QueueAssumption ==
  /\ DestOf \in [Copies -> Dests]
  /\ Corrections \subseteq Copies
  /\ Deadlined \subseteq Copies
  /\ Pausable \subseteq Dests
  /\ Null \notin Copies
  /\ Null \notin Tokens
  /\ Null \notin {"future", "past"}
  /\ FailureThreshold \in Nat \ {0}
  /\ MaxDeliveryAttempts \in Nat \ {0}
  /\ MaxRequeueCycles \in Nat
  /\ PickedHasDeliverBy \in BOOLEAN
  /\ MaxOperatorCalls \in Nat
  /\ MaxFaults \in Nat

VARIABLES
  \* destinations
  dest_status,     \* "active" or "isolated"
  failure_count,
  recoverable_at,  \* Null, "future" or "past"
  confirmed,       \* confirmation_state = 'confirmed'
  generation,      \* confirmation_generation; it numbers the urls as well
  paused,          \* is now() inside the paused_from/paused_until window?
  next_event_seq,
  \* deliveries
  status,
  destination_seq,
  copy_generation, \* deliveries.confirmation_generation
  attempts,        \* saturated above FailureThreshold, its only comparison
  consecutive_failures,
  claim_token,
  lease,           \* lease_until: Null, "future" or "past"
  due,             \* next_attempt_at and not_before are both past
  deliver_by,      \* Null, "future" or "past"
  delivered_at,    \* is delivered_at set?
  reconcile_state,
  requeue_count,   \* saturated at MaxRequeueCycles, its only comparison
  \* worker threads
  pc,              \* "idle", "claiming", "sending", "responded", "recording"
  view,            \* the line in the snapshot of a claim statement
  claim,           \* the row CLAIM_SQL returned
  lost,            \* LeaseHeartbeat.lost
  result,          \* the HTTP outcome: "none", "success" or "failure"
  late,            \* did the call finish at or after deliver_by?
  stale,           \* record_result's stale_generation
  \* reconcilers
  found,           \* the CTE expired of a sweep under way
  exhausted,       \* those of them with its flag exhausted
  \* history: what the row locks let happen
  passed_over,     \* copies that a SKIP LOCKED statement passed over
  overlap,         \* the copies claimed since a claim statement's snapshot
  \* bounds
  operator_calls,
  faults

destVars == <<dest_status, failure_count, recoverable_at, confirmed,
              generation, paused, next_event_seq>>
copyVars == <<status, destination_seq, copy_generation, attempts,
              consecutive_failures, claim_token, lease, due, deliver_by,
              delivered_at, reconcile_state, requeue_count>>
claimVars == <<pc, view, claim, overlap>>
resultVars == <<lost, result, late, stale>>
workerVars == <<claimVars, resultVars>>
sweepVars == <<found, exhausted>>
processVars == <<workerVars, sweepVars, passed_over>>
boundVars == <<operator_calls, faults>>
vars == <<destVars, copyVars, processVars, boundVars>>

----------------------------------------------------------------------------
\* "absent" is a copy whose event has not been fanned out yet.
Status == {"absent", "pending", "in_flight", "delivered", "superseded",
           "dead_lettered", "failed", "deadline_expired"}
ReconcileState == {"none", "awaiting", "acknowledged", "receipt_failed",
                   "timed_out"}
Instant == {Null, "future", "past"}

\* url is the generation whose location the HTTP call goes to.
Claim == [copy: Copies \cup {Null}, token: Tokens \cup {Null},
          attempts: Nat, failures: Nat, url: Nat]
NoClaim == [copy |-> Null, token |-> Null, attempts |-> 0, failures |-> 0,
            url |-> 0]

TypeOK ==
  /\ dest_status \in [Dests -> {"active", "isolated"}]
  /\ failure_count \in [Dests -> Nat]
  /\ recoverable_at \in [Dests -> Instant]
  /\ confirmed \in [Dests -> BOOLEAN]
  /\ generation \in [Dests -> Nat]
  /\ paused \in [Dests -> BOOLEAN]
  /\ next_event_seq \in [Dests -> Nat]
  /\ status \in [Copies -> Status]
  /\ destination_seq \in [Copies -> Nat]
  /\ copy_generation \in [Copies -> Nat]
  /\ attempts \in [Copies -> Nat]
  /\ consecutive_failures \in [Copies -> Nat]
  /\ claim_token \in [Copies -> Tokens \cup {Null}]
  /\ lease \in [Copies -> Instant]
  /\ due \in [Copies -> BOOLEAN]
  /\ deliver_by \in [Copies -> Instant]
  /\ delivered_at \in [Copies -> BOOLEAN]
  /\ reconcile_state \in [Copies -> ReconcileState]
  /\ requeue_count \in [Copies -> Nat]
  /\ pc \in [Workers -> {"idle", "claiming", "sending", "responded",
                         "recording"}]
  /\ view \in [Workers -> SUBSET Copies]
  /\ overlap \in [Workers -> SUBSET Copies]
  /\ claim \in [Workers -> Claim]
  /\ lost \in [Workers -> BOOLEAN]
  /\ result \in [Workers -> {"none", "success", "failure"}]
  /\ late \in [Workers -> BOOLEAN]
  /\ stale \in [Workers -> BOOLEAN]
  /\ found \in [Sweepers -> SUBSET Copies]
  /\ exhausted \in [Sweepers -> SUBSET Copies]
  /\ passed_over \in SUBSET Copies
  /\ operator_calls \in Nat
  /\ faults \in Nat

Init ==
  /\ dest_status = [d \in Dests |-> "active"]
  /\ failure_count = [d \in Dests |-> 0]
  /\ recoverable_at = [d \in Dests |-> Null]
  /\ confirmed = [d \in Dests |-> TRUE]
  /\ generation = [d \in Dests |-> 1]
  /\ paused = [d \in Dests |-> FALSE]
  /\ next_event_seq = [d \in Dests |-> 0]
  /\ status = [c \in Copies |-> "absent"]
  /\ destination_seq = [c \in Copies |-> 0]
  /\ copy_generation = [c \in Copies |-> 0]
  /\ attempts = [c \in Copies |-> 0]
  /\ consecutive_failures = [c \in Copies |-> 0]
  /\ claim_token = [c \in Copies |-> Null]
  /\ lease = [c \in Copies |-> Null]
  /\ due = [c \in Copies |-> FALSE]
  /\ deliver_by = [c \in Copies |-> Null]
  /\ delivered_at = [c \in Copies |-> FALSE]
  /\ reconcile_state = [c \in Copies |-> "none"]
  /\ requeue_count = [c \in Copies |-> 0]
  /\ pc = [w \in Workers |-> "idle"]
  /\ claim = [w \in Workers |-> NoClaim]
  /\ lost = [w \in Workers |-> FALSE]
  /\ result = [w \in Workers |-> "none"]
  /\ late = [w \in Workers |-> FALSE]
  /\ stale = [w \in Workers |-> FALSE]
  /\ view = [w \in Workers |-> {}]
  /\ overlap = [w \in Workers |-> {}]
  /\ found = [s \in Sweepers |-> {}]
  /\ exhausted = [s \in Sweepers |-> {}]
  /\ passed_over = {}
  /\ operator_calls = 0
  /\ faults = 0

Smaller(m, n) == IF m < n THEN m ELSE n

----------------------------------------------------------------------------
(***************************************************************************)
(* Fan-out of an event to one confirmed subscriber: a fresh place at the   *)
(* end of the destination's queue, under its current generation.  A copy   *)
(* with a not_before starts out not due.                                   *)
(***************************************************************************)
StoreEvent(c) ==
  LET d == DestOf[c] IN
  /\ status[c] = "absent"
  /\ confirmed[d]
  /\ next_event_seq' = [next_event_seq EXCEPT ![d] = @ + 1]
  /\ status' = [status EXCEPT ![c] = "pending"]
  /\ destination_seq' = [destination_seq EXCEPT ![c] = next_event_seq[d] + 1]
  /\ copy_generation' = [copy_generation EXCEPT ![c] = generation[d]]
  /\ \E scheduled \in BOOLEAN : due' = [due EXCEPT ![c] = ~scheduled]
  /\ deliver_by' = [deliver_by EXCEPT
                      ![c] = IF c \in Deadlined THEN "future" ELSE Null]
  /\ UNCHANGED <<dest_status, failure_count, recoverable_at, confirmed,
                 generation, paused, attempts, consecutive_failures,
                 claim_token, lease, delivered_at, reconcile_state,
                 requeue_count, processVars, boundVars>>

----------------------------------------------------------------------------
(***************************************************************************)
(* claim_next_event is one transaction of four statements.  The first      *)
(* three tidy the queue; these sets say what each of them finds.  A row    *)
(* that another transaction holds is passed over by expire_due_deliveries, *)
(* so Expired is some of the overdue copies.                               *)
(***************************************************************************)
\* Fault: the reaper does not look at lease_until.
ReapedEarly == {c \in Copies : status[c] = "in_flight"}

\* REAP_SQL: in flight under a lease that ran out.
Reaped == {c \in Copies : status[c] = "in_flight" /\ lease[c] = "past"}

\* What is pending once the reaper has run.
Queued == {c \in Copies : status[c] = "pending"} \cup Reaped

\* expire_due_deliveries: the promised latest delivery time is gone.
Overdue == {c \in Queued : deliver_by[c] = "past"}

\* SUPERSEDE_STALE_SQL: the destination moved after the fan-out.
Superseded(Expired) == {c \in Queued \ Expired :
                          copy_generation[c] < generation[DestOf[c]]}

Waiting(Expired) == Queued \ (Expired \cup Superseded(Expired))

InFlight == {c \in Copies : status[c] = "in_flight"}

TidyRows(Expired) ==
  /\ status' = [c \in Copies |->
                  IF c \in Expired THEN "deadline_expired"
                  ELSE IF c \in Superseded(Expired) THEN "superseded"
                  ELSE IF c \in Reaped THEN "pending"
                  ELSE status[c]]
  /\ lease' = [c \in Copies |-> IF c \in Reaped THEN Null ELSE lease[c]]
  /\ claim_token' = [c \in Copies |->
                       IF c \in Reaped THEN Null ELSE claim_token[c]]
  /\ due' = [c \in Copies |-> due[c] \/ c \in Reaped \cup Expired]
  /\ UNCHANGED <<destination_seq, copy_generation, attempts,
                 consecutive_failures, deliver_by, delivered_at,
                 reconcile_state, requeue_count>>

(***************************************************************************)
(* CLAIM_SQL, first half: a destination that may receive, that nothing is  *)
(* in flight to and whose oldest waiting copy is due, all on the snapshot  *)
(* of the statement.  ORDER BY delivery_due_at picks one of those that     *)
(* qualify; here any of them may be picked.                                *)
(***************************************************************************)
InLine(Expired) == Waiting(Expired) \cup (InFlight \ Reaped)

\* Fault: the claim leaves the cutoff to the sweeper.
LineWithOverdue(Expired, d) == {c \in InLine(Expired) : DestOf[c] = d}

\* Fault: a copy that is not due yet does not hold the later ones back.
LineOfDue(Expired, d) == {c \in InLine(Expired) :
                            /\ DestOf[c] = d /\ deliver_by[c] # "past"
                            /\ due[c] \/ c \in Reaped}

\* The copies of d waiting or in flight, those past their cutoff left out.
Line(Expired, d) == {c \in InLine(Expired) :
                       DestOf[c] = d /\ deliver_by[c] # "past"}

\* Fault: the gates of every destination are asked, not only its own.
MayReceiveAllOpen(d) == \A o \in Dests : /\ \/ dest_status[o] = "active"
                                            \/ recoverable_at[o] = "past"
                                         /\ confirmed[d] /\ confirmed[o]

MayReceive(d) == /\ \/ dest_status[d] = "active"
                    \/ recoverable_at[d] = "past"
                 /\ confirmed[d]

HeadIsDue(Expired, d) ==
  \E h \in Line(Expired, d) \cap Queued :
    /\ \A o \in Line(Expired, d) : destination_seq[h] <= destination_seq[o]
    /\ due[h] \/ h \in Reaped

\* Fault: no NOT EXISTS (other_in_flight).
CandidateBesideAnother(Expired, d) == /\ HeadIsDue(Expired, d)
                                      /\ MayReceive(d)
                                      /\ ~paused[d]

Candidate(Expired, d) == /\ HeadIsDue(Expired, d)
                         /\ MayReceive(d)
                         /\ ~paused[d]
                         /\ \A o \in InFlight \ Reaped : DestOf[o] # d

(***************************************************************************)
(* The housekeeping and the snapshot.  A transaction that then claims      *)
(* nothing commits the housekeeping alone, so that committing it here adds *)
(* no behaviour.                                                           *)
(***************************************************************************)
TakeSnapshot(w, Expired) ==
  /\ pc[w] = "idle"
  /\ PickedHasDeliverBy
  /\ Expired \subseteq Overdue
  /\ TidyRows(Expired)
  /\ passed_over' = passed_over \cup (Overdue \ Expired)
  /\ \/ \E d \in Dests : /\ Candidate(Expired, d)
                         /\ pc' = [pc EXCEPT ![w] = "claiming"]
                         /\ view' = [view EXCEPT ![w] = Line(Expired, d)]
     \/ /\ \A d \in Dests : ~Candidate(Expired, d)
        /\ UNCHANGED <<pc, view>>
  /\ UNCHANGED <<claim, overlap, resultVars, destVars, sweepVars, boundVars>>

(***************************************************************************)
(* CLAIM_SQL, second half.  The destination's row is locked, and looked at *)
(* again if it changed; so are the copies of the snapshot, the oldest      *)
(* first.  One that has left the queue is dropped; one that another        *)
(* transaction holds is passed over; the first that remains is claimed if  *)
(* it is pending and due.  (The code compares with the now() at which the  *)
(* transaction began, this action with the moment of the pick: it also     *)
(* claims copies whose backoff ended while the statement ran.)             *)
(***************************************************************************)
UsedTokens == {claim_token[c] : c \in Copies}
                \cup {claim[w].token : w \in Workers}

\* Fault: the pick looks at pending copies only.
PassedIfPending(w, c) == {o \in view[w] :
                            /\ status[o] = "pending"
                            /\ destination_seq[o] < destination_seq[c]}

\* The copies that must be locked by others for w to get as far as c.
Passed(w, c) == {o \in view[w] :
                   /\ status[o] \in {"pending", "in_flight"}
                   /\ destination_seq[o] < destination_seq[c]}

\* A fresh token, one more attempt, and an isolated destination whose
\* quarantine is over becomes active again.
ClaimCopy(w, c, t) ==
  LET d == DestOf[c] IN
  /\ pc[w] = "claiming"
  /\ c \in view[w]
  /\ status[c] = "pending" /\ due[c]
  /\ MayReceive(d)
  /\ copy_generation[c] = generation[d]
  /\ t \in Tokens \ UsedTokens
  /\ status' = [status EXCEPT ![c] = "in_flight"]
  /\ lease' = [lease EXCEPT ![c] = "future"]
  /\ claim_token' = [claim_token EXCEPT ![c] = t]
  /\ attempts' = [attempts EXCEPT ![c] = Smaller(@ + 1, FailureThreshold + 1)]
  /\ dest_status' = [dest_status EXCEPT ![d] = "active"]
  /\ failure_count' = [failure_count EXCEPT
                         ![d] = IF dest_status[d] = "isolated" THEN 0 ELSE @]
  /\ recoverable_at' = [recoverable_at EXCEPT
                          ![d] = IF dest_status[d] = "isolated" THEN Null
                                 ELSE @]
  /\ pc' = [pc EXCEPT ![w] = "sending"]
  /\ view' = [view EXCEPT ![w] = {}]
  /\ claim' = [claim EXCEPT
                 ![w] = [copy |-> c, token |-> t, attempts |-> attempts'[c],
                         failures |-> consecutive_failures[c],
                         url |-> generation[d]]]
  /\ passed_over' = passed_over \cup Passed(w, c)
  /\ overlap' = [v \in Workers |-> IF v # w /\ pc[v] = "claiming"
                                   THEN overlap[v] \cup {c} ELSE {}]
  /\ UNCHANGED <<destination_seq, copy_generation, consecutive_failures, due,
                 deliver_by, delivered_at, reconcile_state, requeue_count,
                 confirmed, generation, paused, next_event_seq, resultVars,
                 sweepVars, boundVars>>

\* The row of the destination is held or no longer qualifies, or so is every
\* copy; or the statement fails.
ClaimNothing(w) ==
  /\ pc[w] = "claiming"
  /\ pc' = [pc EXCEPT ![w] = "idle"]
  /\ view' = [view EXCEPT ![w] = {}]
  /\ overlap' = [overlap EXCEPT ![w] = {}]
  /\ UNCHANGED <<claim, resultVars, destVars, copyVars, sweepVars,
                 passed_over, boundVars>>

ClaimNextEvent(w) ==
  \/ \E c \in Copies, t \in Tokens : ClaimCopy(w, c, t)
  \/ ClaimNothing(w)

----------------------------------------------------------------------------
\* Fault: the WHERE clause forgets claim_token.
OwnsAnyFlight(w) == status[claim[w].copy] = "in_flight"

Owns(w) == /\ status[claim[w].copy] = "in_flight"
           /\ claim_token[claim[w].copy] = claim[w].token

\* The thread gives the claim up; what it did not commit is gone.
GoIdle(w) ==
  /\ pc' = [pc EXCEPT ![w] = "idle"]
  /\ claim' = [claim EXCEPT ![w] = NoClaim]
  /\ lost' = [lost EXCEPT ![w] = FALSE]
  /\ result' = [result EXCEPT ![w] = "none"]
  /\ late' = [late EXCEPT ![w] = FALSE]
  /\ stale' = [stale EXCEPT ![w] = FALSE]
  /\ UNCHANGED <<view, overlap>>

(***************************************************************************)
(* LeaseHeartbeat: renews the lease of a copy that is still this thread's, *)
(* even one that ran out and was not reaped yet; otherwise it notes the    *)
(* loss.                                                                   *)
(***************************************************************************)
Heartbeat(w) ==
  /\ pc[w] = "sending"
  /\ ~lost[w]
  /\ \/ /\ Owns(w)
        /\ lease' = [lease EXCEPT ![claim[w].copy] = "future"]
        /\ UNCHANGED lost
     \/ /\ ~Owns(w)
        /\ lost' = [lost EXCEPT ![w] = TRUE]
        /\ UNCHANGED lease
  /\ UNCHANGED <<destVars, status, destination_seq, copy_generation, attempts,
                 consecutive_failures, claim_token, due, deliver_by,
                 delivered_at, reconcile_state, requeue_count, claimVars,
                 result, late, stale, sweepVars, passed_over, boundVars>>

\* deliver(): the receiver answers 2xx or it does not (an error status, a
\* refused connection, a timeout).  finished_at is read here.
Deliver(w, r) ==
  /\ pc[w] = "sending"
  /\ pc' = [pc EXCEPT ![w] = "responded"]
  /\ result' = [result EXCEPT ![w] = r]
  /\ late' = [late EXCEPT ![w] = deliver_by[claim[w].copy] = "past"]
  /\ UNCHANGED <<destVars, copyVars, view, claim, overlap, lost, stale,
                 sweepVars, passed_over, boundVars>>

(***************************************************************************)
(* record_result up to its first write: a lost lease leaves an audit row   *)
(* and nothing else; an owner reads the destination's generation.          *)
(***************************************************************************)
RecordCheck(w) ==
  /\ pc[w] = "responded"
  /\ \/ /\ lost[w] \/ ~Owns(w)
        /\ GoIdle(w)
     \/ /\ ~lost[w] /\ Owns(w)
        /\ pc' = [pc EXCEPT ![w] = "recording"]
        /\ stale' = [stale EXCEPT
                       ![w] = generation[DestOf[claim[w].copy]]
                                # copy_generation[claim[w].copy]]
        /\ UNCHANGED <<view, claim, overlap, lost, result, late>>
  /\ UNCHANGED <<destVars, copyVars, sweepVars, passed_over, boundVars>>

----------------------------------------------------------------------------
(***************************************************************************)
(* record_result's writes.  Each closes the claim of the row it updates.   *)
(***************************************************************************)
CloseClaim(c, s) ==
  /\ status' = [status EXCEPT ![c] = s]
  /\ claim_token' = [claim_token EXCEPT ![c] = Null]
  /\ lease' = [lease EXCEPT ![c] = Null]
  /\ UNCHANGED <<destination_seq, copy_generation, attempts, deliver_by,
                 requeue_count>>

\* EVENT_SUCCESS_SQL and DESTINATION_SUCCESS_SQL.
WriteSuccess(w) ==
  LET c == claim[w].copy IN
  /\ result[w] = "success" /\ ~late[w] /\ Owns(w)
  /\ CloseClaim(c, "delivered")
  /\ consecutive_failures' = [consecutive_failures EXCEPT ![c] = 0]
  /\ delivered_at' = [delivered_at EXCEPT ![c] = TRUE]
  /\ reconcile_state' = [reconcile_state EXCEPT ![c] = "awaiting"]
  /\ failure_count' = [failure_count EXCEPT ![DestOf[c]] = 0]
  /\ UNCHANGED <<due, dest_status, recoverable_at, confirmed, generation,
                 paused, next_event_seq>>

\* expire_in_flight_delivery: its WHERE clause does not name the token.
WriteCutoff(w) ==
  LET c == claim[w].copy IN
  /\ result[w] = "success" \/ (~stale[w] /\ c \notin Corrections)
  /\ late[w] /\ status[c] = "in_flight"
  /\ CloseClaim(c, "deadline_expired")
  /\ due' = [due EXCEPT ![c] = TRUE]
  /\ UNCHANGED <<consecutive_failures, delivered_at, reconcile_state,
                 destVars>>

\* SUPERSEDE_FAILED_SQL, and CORRECTION_FAILURE_SQL: no retry, no charge.
WriteUncharged(w) ==
  LET c == claim[w].copy IN
  /\ result[w] = "failure" /\ Owns(w)
  /\ \/ stale[w] /\ CloseClaim(c, "superseded")
     \/ ~stale[w] /\ c \in Corrections /\ CloseClaim(c, "failed")
  /\ UNCHANGED <<due, consecutive_failures, delivered_at, reconcile_state,
                 destVars>>

(***************************************************************************)
(* FAILURE_SQL.  The dead-letter decision and the recovery time come from  *)
(* the claimed row, the counters from the current rows.                    *)
(***************************************************************************)
\* Fault: parks the copy one failure too late.
DeadLettersLate(w) == claim[w].failures >= MaxDeliveryAttempts

ShouldDeadLetter(w) == claim[w].failures + 1 >= MaxDeliveryAttempts

\* Fault: compares the tally before this failure.
ThresholdOffByOne(d) == failure_count[d] >= FailureThreshold

ReachesThreshold(d) == failure_count[d] + 1 >= FailureThreshold

RecoverableAt(w) ==
  IF claim[w].attempts >= FailureThreshold THEN "future" ELSE Null

WriteFailure(w) ==
  LET c == claim[w].copy
      d == DestOf[c]
      dead_letter == ShouldDeadLetter(w)
      isolate == ReachesThreshold(d)
  IN
  /\ result[w] = "failure" /\ ~stale[w] /\ c \notin Corrections
  /\ ~late[w] /\ Owns(w)
  /\ CloseClaim(c, IF dead_letter THEN "dead_lettered" ELSE "pending")
  /\ consecutive_failures' = [consecutive_failures EXCEPT ![c] = @ + 1]
  /\ due' = [due EXCEPT ![c] = FALSE]
  /\ failure_count' = [failure_count EXCEPT
                         ![d] = IF dead_letter THEN 0 ELSE @ + 1]
  /\ dest_status' = [dest_status EXCEPT
                       ![d] = IF dead_letter THEN "active"
                              ELSE IF isolate THEN "isolated" ELSE @]
  /\ recoverable_at' = [recoverable_at EXCEPT
                          ![d] = IF dead_letter THEN Null
                                 ELSE IF isolate THEN RecoverableAt(w)
                                 ELSE @]
  /\ UNCHANGED <<delivered_at, reconcile_state, confirmed, generation,
                 paused, next_event_seq>>

\* StaleClaimError: the row is no longer this thread's; all is rolled back.
WriteRefused(w) ==
  /\ ~Owns(w)
  /\ ~(/\ late[w] /\ status[claim[w].copy] = "in_flight"
       /\ result[w] = "success"
            \/ (~stale[w] /\ claim[w].copy \notin Corrections))
  /\ UNCHANGED <<destVars, copyVars>>

RecordWrite(w) ==
  /\ pc[w] = "recording"
  /\ \/ WriteSuccess(w)
     \/ WriteCutoff(w)
     \/ WriteUncharged(w)
     \/ WriteFailure(w)
     \/ WriteRefused(w)
  /\ GoIdle(w)
  /\ UNCHANGED <<sweepVars, passed_over, boundVars>>

\* The process dies, or a database error rolls the transaction back: the row
\* keeps the claim until its lease runs out.  (One that dies while it claims
\* has claimed nothing.)
WorkerDies(w) ==
  /\ pc[w] \notin {"idle", "claiming"}
  /\ faults < MaxFaults
  /\ faults' = faults + 1
  /\ GoIdle(w)
  /\ UNCHANGED <<destVars, copyVars, sweepVars, passed_over, operator_calls>>

----------------------------------------------------------------------------
(***************************************************************************)
(* Reconciliation of a delivered copy: the receiver's receipt, or the      *)
(* sweep after the reconcile deadline.  Whether the deadline has passed is *)
(* left open: a receipt is applied or late, the sweep may come first.      *)
(***************************************************************************)
Exhausted(c) == requeue_count[c] >= MaxRequeueCycles

Conclude(c, outcome, parked) ==
  /\ reconcile_state[c] = "awaiting"
  /\ reconcile_state' = [reconcile_state EXCEPT ![c] = outcome]
  /\ status' = [status EXCEPT ![c] = IF parked THEN "dead_lettered" ELSE @]
  /\ UNCHANGED <<destination_seq, copy_generation, attempts,
                 consecutive_failures, claim_token, lease, due, deliver_by,
                 delivered_at, requeue_count, destVars, processVars,
                 boundVars>>

IngestReceipt(c) ==
  \/ Conclude(c, "acknowledged", FALSE)
  \/ Conclude(c, "receipt_failed", Exhausted(c))
  \/ Conclude(c, "timed_out", FALSE)

\* The CTE expired: copies whose deadline has passed, not locked.
SweepSelect(s, S) ==
  /\ found[s] = {}
  /\ S # {}
  /\ \A c \in S : reconcile_state[c] = "awaiting"
  /\ found' = [found EXCEPT ![s] = S]
  /\ exhausted' = [exhausted EXCEPT ![s] = {c \in S : Exhausted(c)}]
  /\ UNCHANGED <<destVars, copyVars, workerVars, passed_over, boundVars>>

\* The UPDATE joins on the id alone, whatever the row has become since.
SweepCommit(s) ==
  /\ found[s] # {}
  /\ reconcile_state' = [c \in Copies |-> IF c \in found[s] THEN "timed_out"
                                          ELSE reconcile_state[c]]
  /\ status' = [c \in Copies |-> IF c \in exhausted[s] THEN "dead_lettered"
                                 ELSE status[c]]
  /\ found' = [found EXCEPT ![s] = {}]
  /\ exhausted' = [exhausted EXCEPT ![s] = {}]
  /\ UNCHANGED <<destination_seq, copy_generation, attempts,
                 consecutive_failures, claim_token, lease, due, deliver_by,
                 delivered_at, requeue_count, destVars, workerVars,
                 passed_over, boundVars>>

\* The reconciler closes overdue queued copies as well, between two claims;
\* it too passes over the rows that are locked.
ExpireDeliveryDeadlines(S) ==
  /\ S # {}
  /\ \A c \in S : status[c] = "pending" /\ deliver_by[c] = "past"
  /\ status' = [c \in Copies |->
                  IF c \in S THEN "deadline_expired" ELSE status[c]]
  /\ due' = [c \in Copies |-> due[c] \/ c \in S]
  /\ UNCHANGED <<destination_seq, copy_generation, attempts,
                 consecutive_failures, claim_token, lease, deliver_by,
                 delivered_at, reconcile_state, requeue_count, destVars,
                 processVars, boundVars>>

----------------------------------------------------------------------------
\* Operator calls.
OperatorCall == /\ operator_calls < MaxOperatorCalls
                /\ operator_calls' = operator_calls + 1
                /\ UNCHANGED faults

AtCurrentLocation(c) == /\ confirmed[DestOf[c]]
                        /\ copy_generation[c] = generation[DestOf[c]]

\* Fault: any verdict will do.
RequeueableAfterAnyVerdict(c) == /\ status[c] = "delivered"
                                 /\ reconcile_state[c] # "awaiting"
                                 /\ AtCurrentLocation(c)

\* REQUEUEABLE_WHERE
Requeueable(c) == /\ status[c] = "delivered"
                  /\ reconcile_state[c] \in {"timed_out", "receipt_failed"}
                  /\ AtCurrentLocation(c)

\* A copy that a sweep parked in flight still has the columns of its claim.
ReleaseClaims(S) ==
  /\ claim_token' = [c \in Copies |->
                       IF c \in S THEN Null ELSE claim_token[c]]
  /\ lease' = [c \in Copies |-> IF c \in S THEN Null ELSE lease[c]]

\* Fault: the reconciliation columns are not cleared.
BackToQueueStillCounting(S) ==
  /\ status' = [c \in Copies |-> IF c \in S THEN "pending" ELSE status[c]]
  /\ due' = [c \in Copies |-> due[c] \/ c \in S]
  /\ ReleaseClaims(S)
  /\ UNCHANGED <<destination_seq, copy_generation, attempts, deliver_by,
                 delivered_at, reconcile_state, destVars, processVars>>

BackToQueue(S) ==
  /\ status' = [c \in Copies |-> IF c \in S THEN "pending" ELSE status[c]]
  /\ reconcile_state' = [c \in Copies |->
                           IF c \in S THEN "none" ELSE reconcile_state[c]]
  /\ due' = [c \in Copies |-> due[c] \/ c \in S]
  /\ ReleaseClaims(S)
  /\ UNCHANGED <<destination_seq, copy_generation, attempts, deliver_by,
                 delivered_at, destVars, processVars>>

\* Requeue of one copy, or of every requeueable copy of a destination.
Requeue(S) ==
  /\ OperatorCall
  /\ S # {}
  /\ BackToQueue(S)
  /\ requeue_count' = [c \in Copies |->
                         IF c \in S
                         THEN Smaller(requeue_count[c] + 1, MaxRequeueCycles)
                         ELSE requeue_count[c]]
  /\ UNCHANGED consecutive_failures

RequeueDelivery(c) == Requeueable(c) /\ Requeue({c})

RequeueUnreconciled(d) ==
  Requeue({c \in Copies : DestOf[c] = d /\ Requeueable(c)})

ReviveDeadLetter(c) ==
  /\ OperatorCall
  /\ status[c] = "dead_lettered"
  /\ AtCurrentLocation(c)
  /\ BackToQueue({c})
  /\ requeue_count' = [requeue_count EXCEPT ![c] = 0]
  /\ consecutive_failures' = [consecutive_failures EXCEPT ![c] = 0]

\* A scheduled copy keeps its not_before; only a retry's wait is cut short.
RecoverDestination(d) ==
  /\ OperatorCall
  /\ dest_status[d] = "isolated"
  /\ dest_status' = [dest_status EXCEPT ![d] = "active"]
  /\ failure_count' = [failure_count EXCEPT ![d] = 0]
  /\ recoverable_at' = [recoverable_at EXCEPT ![d] = Null]
  /\ due' = [c \in Copies |->
               due[c] \/ /\ DestOf[c] = d
                         /\ status[c] = "pending"
                         /\ attempts[c] > 0]
  /\ UNCHANGED <<confirmed, generation, paused, next_event_seq, status,
                 destination_seq, copy_generation, attempts,
                 consecutive_failures, claim_token, lease, deliver_by,
                 delivered_at, reconcile_state, requeue_count, processVars>>

\* The operator's window is in effect from here until it ends or is cleared.
PauseDestination(d) ==
  /\ OperatorCall
  /\ d \in Pausable
  /\ ~paused[d]
  /\ paused' = [paused EXCEPT ![d] = TRUE]
  /\ UNCHANGED <<dest_status, failure_count, recoverable_at, confirmed,
                 generation, next_event_seq, copyVars, processVars>>

ResumeDestination(d) ==
  /\ paused[d]
  /\ paused' = [paused EXCEPT ![d] = FALSE]
  /\ UNCHANGED <<dest_status, failure_count, recoverable_at, confirmed,
                 generation, next_event_seq, copyVars, processVars, boundVars>>

\* PATCH with a new url: arm_round(bump_generation=True).
Relocate(d) ==
  /\ OperatorCall
  /\ generation' = [generation EXCEPT ![d] = @ + 1]
  /\ confirmed' = [confirmed EXCEPT ![d] = FALSE]
  /\ status' = [c \in Copies |->
                  IF DestOf[c] = d /\ status[c] = "pending"
                  THEN "superseded" ELSE status[c]]
  /\ UNCHANGED <<dest_status, failure_count, recoverable_at, paused,
                 next_event_seq, destination_seq, copy_generation, attempts,
                 consecutive_failures, claim_token, lease, due, deliver_by,
                 delivered_at, reconcile_state, requeue_count, processVars>>

\* PATCH .../deliver-by, to any time or none.  A call that has finished is
\* late or not by the new cutoff; a cutoff in the past may be on either side.
UpdateDeliverBy(c) ==
  /\ OperatorCall
  /\ c \in Deadlined
  /\ status[c] \in {"pending", "in_flight"}
  /\ ~delivered_at[c]
  /\ \E v \in Instant, after \in BOOLEAN :
       /\ after => v = "past"
       /\ deliver_by' = [deliver_by EXCEPT ![c] = v]
       /\ late' = [w \in Workers |->
                     IF claim[w].copy = c /\ pc[w] # "sending" THEN after
                     ELSE late[w]]
  /\ UNCHANGED <<destVars, status, destination_seq, copy_generation, attempts,
                 consecutive_failures, claim_token, lease, due, delivered_at,
                 reconcile_state, requeue_count, claimVars, lost, result,
                 stale, sweepVars, passed_over>>

\* apply_echo: the new location answered its challenge.
ConfirmDestination(d) ==
  /\ ~confirmed[d]
  /\ confirmed' = [confirmed EXCEPT ![d] = TRUE]
  /\ UNCHANGED <<dest_status, failure_count, recoverable_at, generation,
                 paused, next_event_seq, copyVars, processVars, boundVars>>

----------------------------------------------------------------------------
\* The passing of time.
BackoffElapses(c) ==
  /\ status[c] = "pending"
  /\ ~due[c]
  /\ due' = [due EXCEPT ![c] = TRUE]
  /\ UNCHANGED <<destVars, status, destination_seq, copy_generation, attempts,
                 consecutive_failures, claim_token, lease, deliver_by,
                 delivered_at, reconcile_state, requeue_count, processVars,
                 boundVars>>

QuarantineElapses(d) ==
  /\ recoverable_at[d] = "future"
  /\ recoverable_at' = [recoverable_at EXCEPT ![d] = "past"]
  /\ UNCHANGED <<dest_status, failure_count, confirmed, generation, paused,
                 next_event_seq, copyVars, processVars, boundVars>>

CutoffPasses(c) ==
  /\ deliver_by[c] = "future"
  /\ deliver_by' = [deliver_by EXCEPT ![c] = "past"]
  /\ UNCHANGED <<destVars, status, destination_seq, copy_generation, attempts,
                 consecutive_failures, claim_token, lease, due,
                 delivered_at, reconcile_state, requeue_count, processVars,
                 boundVars>>

\* A lease that a live thread should have renewed counts as a fault (its
\* heartbeats failed for a whole lease); an orphan's lease just runs out.
LeaseExpires(c) ==
  LET held == \E w \in Workers : claim[w].copy = c /\ Owns(w) IN
  /\ status[c] = "in_flight"
  /\ lease[c] = "future"
  /\ lease' = [lease EXCEPT ![c] = "past"]
  /\ held => faults < MaxFaults
  /\ faults' = IF held THEN faults + 1 ELSE faults
  /\ UNCHANGED <<destVars, status, destination_seq, copy_generation, attempts,
                 consecutive_failures, claim_token, due, deliver_by,
                 delivered_at, reconcile_state, requeue_count, processVars,
                 operator_calls>>

----------------------------------------------------------------------------
WorkerStep(w) ==
  \/ \E Expired \in SUBSET Copies : TakeSnapshot(w, Expired)
  \/ ClaimNextEvent(w)
  \/ Heartbeat(w)
  \/ \E r \in {"success", "failure"} : Deliver(w, r)
  \/ RecordCheck(w)
  \/ RecordWrite(w)
  \/ WorkerDies(w)

CopyStep(c) ==
  \/ StoreEvent(c)
  \/ IngestReceipt(c)
  \/ RequeueDelivery(c)
  \/ ReviveDeadLetter(c)
  \/ UpdateDeliverBy(c)
  \/ BackoffElapses(c)
  \/ CutoffPasses(c)
  \/ LeaseExpires(c)

DestStep(d) ==
  \/ RequeueUnreconciled(d)
  \/ RecoverDestination(d)
  \/ PauseDestination(d)
  \/ ResumeDestination(d)
  \/ Relocate(d)
  \/ ConfirmDestination(d)
  \/ QuarantineElapses(d)

Next ==
  \/ \E w \in Workers : WorkerStep(w)
  \/ \E c \in Copies : CopyStep(c)
  \/ \E d \in Dests : DestStep(d)
  \/ \E s \in Sweepers, S \in SUBSET Copies : SweepSelect(s, S)
  \/ \E s \in Sweepers : SweepCommit(s)
  \/ \E S \in SUBSET Copies : ExpireDeliveryDeadlines(S)

Spec == Init /\ [][Next]_vars

(***************************************************************************)
(* worker_loop and the reconciler poll for ever, httpx bounds every call   *)
(* by its timeout, and time passes: each of these steps is taken if it     *)
(* stays possible.  Row locks are held for one short transaction: a row is *)
(* not locked at every pick and at every sweep for ever.  Nothing is       *)
(* assumed of operators, receivers or faults.                              *)
(***************************************************************************)
ClaimHead(w) ==
  \E c \in Copies, t \in Tokens : Passed(w, c) = {} /\ ClaimCopy(w, c, t)

Fairness ==
  /\ \A w \in Workers :
       /\ WF_vars(\E Expired \in SUBSET Copies : TakeSnapshot(w, Expired))
       /\ WF_vars(ClaimNextEvent(w))
       /\ SF_vars(ClaimHead(w))
       /\ WF_vars(\E r \in {"success", "failure"} : Deliver(w, r))
       /\ WF_vars(RecordCheck(w))
       /\ WF_vars(RecordWrite(w))
  /\ \A c \in Copies :
       /\ WF_vars(BackoffElapses(c))
       /\ WF_vars(LeaseExpires(c))
       /\ WF_vars(\E S \in SUBSET Copies : c \in S /\ ExpireDeliveryDeadlines(S))
  /\ \A d \in Dests : WF_vars(QuarantineElapses(d))

FairSpec == Spec /\ Fairness

----------------------------------------------------------------------------
(***************************************************************************)
(* Safety.                                                                 *)
(***************************************************************************)
\* What the comment at CLAIM_SQL promises: never two copies of a destination
\* in flight.  The snapshot and SKIP LOCKED do not give it (see README).
OneInFlightPerDestination ==
  \A a, b \in InFlight : DestOf[a] = DestOf[b] => a = b

\* What they do give, first: two copies of a destination are in flight only
\* if the older one had been in flight before, or was locked by another
\* transaction when a claim came past it.
FreshQueueIsSerial ==
  \A a, b \in InFlight :
    /\ DestOf[a] = DestOf[b]
    /\ destination_seq[a] < destination_seq[b]
    => a \in passed_over \/ attempts[a] > 1

\* Second: a copy is claimed beside one in flight only if that one was claimed
\* while the claim statement ran, after its snapshot.
SecondFlightOnlyByOverlap ==
  [][\A w \in Workers : pc[w] = "claiming" /\ pc'[w] = "sending" =>
       \A b \in InFlight : DestOf[b] = DestOf[claim'[w].copy]
                             => b \in overlap[w]]_vars

\* Two threads that both pass still_owns_lease work on two copies, even when
\* one of them lost its lease and came back.
OneOwnerPerCopy ==
  \A v, w \in Workers :
    /\ pc[v] \notin {"idle", "claiming"} /\ pc[w] \notin {"idle", "claiming"}
    /\ Owns(v) /\ Owns(w)
    /\ claim[v].copy = claim[w].copy
    => v = w

\* First attempts follow the queue: a copy is not tried before an older one
\* of its destination that is still to be tried for the first time, unless
\* that one was locked by another transaction when a claim came past it.
NoOvertaking ==
  \A a, b \in Copies :
    /\ DestOf[a] = DestOf[b]
    /\ destination_seq[a] < destination_seq[b]
    /\ status[a] = "pending" /\ attempts[a] = 0
    /\ attempts[b] > 0
    => a \in passed_over

\* A copy in the queue has transport attempts left: FAILURE_SQL decides on
\* the streak read at claim time and must park it exactly at the limit.
AttemptsLeftInQueue ==
  \A c \in Copies : status[c] \in {"pending", "in_flight"}
                      => consecutive_failures[c] < MaxDeliveryAttempts

\* An active destination is below its threshold and has no recovery time left
\* over, whichever of two flights wrote its result last; so a destination at
\* its threshold is isolated, and one that is released starts afresh.
ActiveIsBelowThreshold ==
  \A d \in Dests : dest_status[d] = "active"
                     => /\ failure_count[d] < FailureThreshold
                        /\ recoverable_at[d] = Null

\* The receipt countdown runs for delivered copies only, and so do the
\* receiver's verdicts stand: a copy that waits in the queue or is being sent
\* again carries at most the timed_out of a sweep that came late.
CountdownOnlyAfterDelivery ==
  \A c \in Copies :
    reconcile_state[c] \in {"awaiting", "acknowledged", "receipt_failed"}
      => status[c] \in {"delivered", "dead_lettered"}

\* The sweep s is over, and c was among the copies it had found.
SweptBy(s, c) == c \in found[s] /\ found'[s] = {}

\* Nothing brings a closed copy back, neither a late result, nor the reaper,
\* nor an operator's requeue or revive; except that a sweep which had found it
\* before it was closed still writes its verdict.
Closed(c) == \/ status[c] \in {"superseded", "failed", "deadline_expired"}
             \/ reconcile_state[c] = "acknowledged"
ClosedStaysClosed ==
  [][\A c \in Copies : Closed(c) => Closed(c)' \/ \E s \in Sweepers : SweptBy(s, c)]_vars

\* A copy in flight leaves its owner's hands in four ways only: the owner
\* records its result; the reaper takes the copy after the lease ran out; a
\* thread that held it before closes it at a cutoff that is over
\* (expire_in_flight_delivery does not ask for the token); or a sweep parks it
\* that had found it, with its cycles spent, before it was sent again.  The
\* comments at record_result and still_owns_lease have the first two.
OnlyOwnerConcludes ==
  [][\A c \in InFlight :
       \/ status'[c] = "in_flight" /\ claim_token'[c] = claim_token[c]
       \/ lease[c] = "past"
       \/ \E w \in Workers :
            /\ pc[w] = "recording" /\ pc'[w] = "idle"
            /\ claim[w].copy = c
            /\ \/ claim[w].token = claim_token[c]
               \/ status'[c] = "deadline_expired" /\ deliver_by[c] = "past"
       \/ /\ status'[c] = "dead_lettered"
          /\ \E s \in Sweepers : c \in exhausted[s] /\ SweptBy(s, c)]_vars

\* No attempt starts once the promised latest delivery time is over, also
\* for a copy that was reaped, requeued or revived after its cutoff and that
\* the sweeper passed over: it is claimed from a snapshot, and a snapshot does
\* not take it in.
NoAttemptAfterCutoff ==
  [][\A c \in Copies :
       /\ claim_token'[c] \notin {Null, claim_token[c]}
            => \E w \in Workers : c \in view[w]
       /\ \A w \in Workers : c \in view'[w] \ view[w]
            => deliver_by[c] # "past"]_vars

----------------------------------------------------------------------------
(***************************************************************************)
(* Liveness.                                                               *)
(***************************************************************************)
\* Every queued copy leaves the queue, unless its destination is isolated
\* without a recovery time or paused.
QueueDrains ==
  \A c \in Copies :
    status[c] = "pending" ~>
      \/ status[c] \notin {"pending", "in_flight"}
      \/ dest_status[DestOf[c]] = "isolated" /\ recoverable_at[DestOf[c]] = Null
      \/ paused[DestOf[c]]
============================================================================
