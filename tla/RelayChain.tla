---------------------------- MODULE RelayChain ----------------------------
(***************************************************************************)
(* Relay chains (app/relay.py): an event of a chained type gives one copy  *)
(* to each station of the chain, and the worker may send station k only    *)
(* once station k - 1 has acknowledged.  A station that stops closes every *)
(* later one for good.                                                     *)
(*                                                                         *)
(* A station can stop in the worker (app/worker.py), in the receipt        *)
(* endpoint (app/receipts.py), in the reconciler (app/reconciler.py) and   *)
(* in a relocation (app/confirmation.py), and each of them has to call     *)
(* cascade_after_stop.  One action is one transaction, except that         *)
(* SWEEP_SQL selects without a lock and updates by id: SweepSelect and     *)
(* SweepCommit.  Threads, tokens and leases are in DeliveryQueue, so a     *)
(* copy in flight is here simply answered, or lost and reaped.             *)
(* Whether a copy has requeue cycles left is left open.                    *)
(*                                                                         *)
(* The fan-out locks all its destinations in id order, so it is one step,  *)
(* and of two runs one comes first in every queue they share.              *)
(***************************************************************************)
EXTENDS Integers, Sequences

CONSTANTS
  Events,              \* events of chained types
  Dests,               \* destinations
  Chains,              \* by event: the station lists its type may have
  Deadlined,           \* the events with a deliver_by
  Sweepers,            \* reconciler processes
  Null,                \* SQL NULL
  MaxStations,         \* bound: stations of a chain
  MaxDeliveryAttempts, \* settings.max_delivery_attempts
  MaxOperatorCalls     \* bound: operator calls in a behaviour

\* define_chain refuses an empty list and a destination that comes twice.
ASSUME RelayAssumption ==
  /\ \A e \in Events : \A c \in Chains[e] :
       /\ c \in Seq(Dests)
       /\ Len(c) \in 1..MaxStations
       /\ \A i, j \in 1..Len(c) : c[i] = c[j] => i = j
  /\ Deadlined \subseteq Events
  /\ MaxStations \in Nat \ {0}
  /\ MaxDeliveryAttempts \in Nat \ {0}
  /\ MaxOperatorCalls \in Nat

VARIABLES
  \* events and their copies, by event and station number
  route,         \* the chain of relay_chain_id, or <<>> before the fan-out
  queue,         \* by destination: its copies in the order of destination_seq
  deliver_by,    \* by event: Null, "future" or "past"
  status,
  reconcile_state,
  delivered_at,  \* is delivered_at set?
  failures,      \* consecutive_failures
  old_location,  \* is confirmation_generation behind the destination's?
  \* reconcilers
  found,         \* the CTE expired of a sweep under way
  \* history
  acked,         \* has a success receipt been applied to the copy?
  \* bound
  operator_calls

copyVars == <<status, reconcile_state, delivered_at, failures, old_location>>
receiptVars == <<found, acked>>
vars == <<route, queue, deliver_by, copyVars, receiptVars, operator_calls>>

Status == {"absent", "pending", "in_flight", "delivered", "dead_lettered",
           "superseded", "deadline_expired", "cancelled", "relay_skipped"}
ReconcileState == {"none", "awaiting", "acknowledged", "receipt_failed",
                   "timed_out"}
Rows == Events \X (1..MaxStations)

TypeOK ==
  /\ route \in [Events -> (UNION {Chains[e] : e \in Events}) \cup {<<>>}]
  /\ queue \in [Dests -> Seq(Rows)]
  /\ deliver_by \in [Events -> {Null, "future", "past"}]
  /\ status \in [Rows -> Status]
  /\ reconcile_state \in [Rows -> ReconcileState]
  /\ delivered_at \in [Rows -> BOOLEAN]
  /\ failures \in [Rows -> Nat]
  /\ old_location \in [Rows -> BOOLEAN]
  /\ found \in [Sweepers -> SUBSET Rows]
  /\ acked \in [Rows -> BOOLEAN]
  /\ operator_calls \in Nat

Init ==
  /\ route = [e \in Events |-> <<>>]
  /\ queue = [d \in Dests |-> <<>>]
  /\ deliver_by = [e \in Events |-> Null]
  /\ status = [x \in Rows |-> "absent"]
  /\ reconcile_state = [x \in Rows |-> "none"]
  /\ delivered_at = [x \in Rows |-> FALSE]
  /\ failures = [x \in Rows |-> 0]
  /\ old_location = [x \in Rows |-> FALSE]
  /\ found = [s \in Sweepers |-> {}]
  /\ acked = [x \in Rows |-> FALSE]
  /\ operator_calls = 0

----------------------------------------------------------------------------
OperatorCall == /\ operator_calls < MaxOperatorCalls
                /\ operator_calls' = operator_calls + 1

\* The fan-out along c, the chain of the event's type that is active when the
\* event comes in (Ingest has its definitions).
FanOutRelayEvent(e, c) ==
  /\ route[e] = <<>>
  /\ route' = [route EXCEPT ![e] = c]
  /\ queue' = [d \in Dests |->
                 IF \E k \in 1..Len(c) : c[k] = d
                 THEN Append(queue[d],
                             <<e, CHOOSE k \in 1..Len(c) : c[k] = d>>)
                 ELSE queue[d]]
  /\ deliver_by' = [deliver_by EXCEPT
                      ![e] = IF e \in Deadlined THEN "future" ELSE Null]
  /\ status' = [x \in Rows |-> IF x[1] = e /\ x[2] <= Len(c)
                               THEN "pending" ELSE status[x]]
  /\ UNCHANGED <<reconcile_state, delivered_at, failures, old_location,
                 receiptVars, operator_calls>>

DestOf(x) == route[x[1]][x[2]]

----------------------------------------------------------------------------
\* Fault: a 2xx of the station before is enough.
OpenOnceDelivered(x) == x[2] > 1 => delivered_at[<<x[1], x[2] - 1>>]

\* The relay gate: the first station, or the one before has acknowledged.
Open(x) == x[2] > 1 => reconcile_state[<<x[1], x[2] - 1>>] = "acknowledged"

\* cascade_after_stop for the stations S that stopped, given the statuses st.
Cascade(S, st) ==
  [x \in Rows |->
     IF st[x] = "pending" /\ \E y \in S : y[1] = x[1] /\ y[2] < x[2]
     THEN "relay_skipped" ELSE st[x]]

SetAll(S, s, st) == [x \in Rows |-> IF x \in S THEN s ELSE st[x]]

----------------------------------------------------------------------------
(***************************************************************************)
(* claim_next_event and record_result.                                     *)
(***************************************************************************)
\* expire_due_deliveries: a station that is not reached yet is left alone.
Overdue == {x \in Rows : /\ status[x] = "pending"
                         /\ deliver_by[x[1]] = "past"
                         /\ Open(x)}

\* The overdue copies that no other transaction holds are closed.
Expire(S) == Cascade(S, SetAll(S, "deadline_expired", status))

\* SUPERSEDE_STALE_SQL, given the statuses st.
Supersede(st) ==
  LET stale == {x \in Rows : st[x] = "pending" /\ old_location[x]}
  IN  Cascade(stale, SetAll(stale, "superseded", st))

\* Fault: a skipped station keeps its place at the head.
InQueueWithSkipped(x, st) ==
  /\ st[x] \in {"pending", "in_flight", "relay_skipped"}
  /\ deliver_by[x[1]] # "past"

InQueue(x, st) == /\ st[x] \in {"pending", "in_flight"}
                  /\ deliver_by[x[1]] # "past"

Claimable(x, st) == /\ st[x] = "pending" /\ InQueue(x, st)
                    /\ Open(x)

(***************************************************************************)
(* The candidate of CLAIM_SQL: the head of a destination that nothing is   *)
(* in flight to.  A head holds the later copies back even while it waits   *)
(* for the station before it.                                              *)
(***************************************************************************)
Candidate(x, st) ==
  LET q == queue[DestOf(x)] IN
  /\ Claimable(x, st)
  /\ \E i \in 1..Len(q) : /\ q[i] = x
                          /\ \A j \in 1..(i - 1) : ~InQueue(q[j], st)
  /\ \A y \in Rows : st[y] = "in_flight" => DestOf(y) # DestOf(x)

(***************************************************************************)
(* The housekeeping, and then the claim of one open copy or of none.       *)
(* Which one depends on the rows that others hold (SKIP LOCKED) and on the *)
(* age of the statement's snapshot, which DeliveryQueue has: here any open *)
(* copy may be claimed, and a candidate is claimed in the end (Fairness).  *)
(* The relay gate is as good at the pick as on the snapshot: a sweep that  *)
(* overwrites the acknowledgement in between skips the copy as well, and   *)
(* the pick looks at a row that changed again.                             *)
(***************************************************************************)
ClaimWith(S, st) ==
  /\ S \subseteq Overdue
  /\ status' = st
  /\ UNCHANGED <<route, queue, deliver_by, reconcile_state, delivered_at,
                 failures, old_location, receiptVars, operator_calls>>

ClaimNextEvent(S) ==
  LET tidied == Supersede(Expire(S)) IN
  \/ ClaimWith(S, tidied)
  \/ \E x \in Rows : /\ Claimable(x, tidied)
                     /\ ClaimWith(S, [tidied EXCEPT ![x] = "in_flight"])

\* The outcomes after which record_result calls cascade_after_stop.
StopsRun(s) == s \in {"superseded", "deadline_expired", "dead_lettered"}

\* record_result: where the copy goes, and what it takes along.
Record(x, s) ==
  /\ status' = Cascade(IF StopsRun(s) THEN {x} ELSE {},
                       [status EXCEPT ![x] = s])
  /\ reconcile_state' = [reconcile_state EXCEPT
                           ![x] = IF s = "delivered" THEN "awaiting" ELSE @]
  /\ delivered_at' = [delivered_at EXCEPT ![x] = @ \/ s = "delivered"]
  /\ failures' = [failures EXCEPT
                    ![x] = IF s = "delivered" THEN 0
                           ELSE IF s \in {"pending", "dead_lettered"} THEN @ + 1
                           ELSE @]
  /\ UNCHANGED <<route, queue, deliver_by, old_location, receiptVars,
                 operator_calls>>

RecordSuccess(x) ==
  /\ status[x] = "in_flight"
  /\ Record(x, IF deliver_by[x[1]] = "past" THEN "deadline_expired"
               ELSE "delivered")

RecordFailure(x) ==
  /\ status[x] = "in_flight"
  /\ Record(x, IF old_location[x] THEN "superseded"
               ELSE IF deliver_by[x[1]] = "past" THEN "deadline_expired"
               ELSE IF failures[x] + 1 >= MaxDeliveryAttempts
               THEN "dead_lettered" ELSE "pending")

\* The thread dies or loses its lease, and the copy is reaped.
Lost(x) ==
  /\ status[x] = "in_flight"
  /\ status' = [status EXCEPT ![x] = "pending"]
  /\ UNCHANGED <<route, queue, deliver_by, reconcile_state,
                 delivered_at, failures, old_location, receiptVars,
                 operator_calls>>

----------------------------------------------------------------------------
(***************************************************************************)
(* Receipts and the reconciler.                                            *)
(***************************************************************************)
\* parked: the requeue cycles are used up.
Conclude(x, outcome, parked) ==
  /\ reconcile_state[x] = "awaiting"
  /\ reconcile_state' = [reconcile_state EXCEPT ![x] = outcome]
  /\ status' = Cascade(IF outcome = "acknowledged" THEN {} ELSE {x},
                       [status EXCEPT ![x] = IF parked THEN "dead_lettered"
                                             ELSE @])
  /\ acked' = [acked EXCEPT ![x] = @ \/ outcome = "acknowledged"]
  /\ UNCHANGED <<route, queue, deliver_by, delivered_at, failures,
                 old_location, found, operator_calls>>

IngestReceipt(x) ==
  \/ Conclude(x, "acknowledged", FALSE)
  \/ \E parked \in BOOLEAN : Conclude(x, "receipt_failed", parked)
  \/ Conclude(x, "timed_out", FALSE)

Awaiting == {x \in Rows : reconcile_state[x] = "awaiting"}

\* The CTE expired: those whose deadline has passed, not locked.
SweepSelect(s, S) ==
  /\ found[s] = {}
  /\ S # {} /\ S \subseteq Awaiting
  /\ found' = [found EXCEPT ![s] = S]
  /\ UNCHANGED <<route, queue, deliver_by, copyVars, acked,
                 operator_calls>>

\* The UPDATE joins on the id alone, whatever the rows have become since; then
\* the sweep cascades behind each of them.
SweepCommit(s, Parked) ==
  /\ found[s] # {} /\ Parked \subseteq found[s]
  /\ reconcile_state' = [x \in Rows |-> IF x \in found[s] THEN "timed_out"
                                        ELSE reconcile_state[x]]
  /\ status' = Cascade(found[s], SetAll(Parked, "dead_lettered", status))
  /\ found' = [found EXCEPT ![s] = {}]
  /\ UNCHANGED <<route, queue, deliver_by, delivered_at, failures,
                 old_location, acked, operator_calls>>

ExpireDeliveryDeadlines(S) ==
  /\ S # {} /\ S \subseteq Overdue
  /\ status' = Expire(S)
  /\ UNCHANGED <<route, queue, deliver_by, reconcile_state,
                 delivered_at, failures, old_location, receiptVars,
                 operator_calls>>

----------------------------------------------------------------------------
(***************************************************************************)
(* Operator calls.                                                         *)
(***************************************************************************)
\* Fault: the stations behind come back as well.
BackToQueueWithTail(x) ==
  LET tail == {y \in Rows : /\ status[y] = "relay_skipped"
                            /\ y[1] = x[1] /\ y[2] > x[2]}
  IN  status' = SetAll(tail \cup {x}, "pending", status)

BackToQueue(x) == status' = [status EXCEPT ![x] = "pending"]

\* requeue_delivery and revive_dead_letter.
SendAgain(x) ==
  /\ OperatorCall
  /\ \/ /\ status[x] = "delivered"
        /\ reconcile_state[x] \in {"timed_out", "receipt_failed"}
        /\ UNCHANGED failures
     \/ /\ status[x] = "dead_lettered"
        /\ failures' = [failures EXCEPT ![x] = 0]
  /\ ~old_location[x]
  /\ BackToQueue(x)
  /\ reconcile_state' = [reconcile_state EXCEPT ![x] = "none"]
  /\ UNCHANGED <<route, queue, deliver_by, delivered_at,
                 old_location, receiptVars>>

CancelEvent(e) ==
  LET copies == {x \in Rows : x[1] = e /\ status[x] # "absent"} IN
  /\ OperatorCall
  /\ copies # {}
  /\ \A x \in copies : status[x] = "pending"
  /\ status' = SetAll(copies, "cancelled", status)
  /\ UNCHANGED <<route, queue, deliver_by, reconcile_state,
                 delivered_at, failures, old_location, receiptVars>>

\* Fault: arm_round does not call cascade_superseded_destination.
SupersedeAlone(S) == SetAll(S, "superseded", status)

\* arm_round supersedes what is queued for d, then cascades behind every
\* superseded station of d.
SupersedeAndCascade(S) == Cascade(S, SetAll(S, "superseded", status))

Relocate(d) ==
  LET here == {x \in Rows : status[x] # "absent" /\ DestOf(x) = d} IN
  /\ OperatorCall
  /\ here # {}
  /\ old_location' = [x \in Rows |-> old_location[x] \/ x \in here]
  /\ status' = SupersedeAndCascade(
                 {x \in here : status[x] \in {"pending", "superseded"}})
  /\ UNCHANGED <<route, queue, deliver_by, reconcile_state,
                 delivered_at, failures, receiptVars>>

CutoffPasses(e) ==
  /\ deliver_by[e] = "future"
  /\ deliver_by' = [deliver_by EXCEPT ![e] = "past"]
  /\ UNCHANGED <<route, queue, copyVars, receiptVars, operator_calls>>

----------------------------------------------------------------------------
RowStep(x) ==
  \/ RecordSuccess(x)
  \/ RecordFailure(x)
  \/ Lost(x)
  \/ IngestReceipt(x)
  \/ SendAgain(x)

EventStep(e) ==
  \/ \E c \in Chains[e] : FanOutRelayEvent(e, c)
  \/ CancelEvent(e)
  \/ CutoffPasses(e)

SweepStep(s) ==
  \/ \E S \in SUBSET Awaiting : SweepSelect(s, S)
  \/ \E Parked \in SUBSET found[s] : SweepCommit(s, Parked)

Next ==
  \/ \E e \in Events : EventStep(e)
  \/ \E x \in Rows : RowStep(x)
  \/ \E d \in Dests : Relocate(d)
  \/ \E s \in Sweepers : SweepStep(s)
  \/ \E S \in SUBSET Overdue : ClaimNextEvent(S) \/ ExpireDeliveryDeadlines(S)

Spec == Init /\ [][Next]_vars

(***************************************************************************)
(* Workers claim for ever, calls are bounded by their timeout and not all  *)
(* of them are lost, a receipt that does not come is swept, and no row is  *)
(* locked at every claim and at every sweep for ever.  Nothing is assumed  *)
(* of receivers or operators.                                              *)
(***************************************************************************)
ClaimCandidate ==
  \E x \in Rows : /\ status[x] = "pending" /\ ~old_location[x]
                  /\ Candidate(x, Supersede(status))
                  /\ ClaimWith({}, [Supersede(status) EXCEPT ![x] = "in_flight"])

Fairness ==
  /\ WF_vars(ClaimCandidate)
  /\ WF_vars(ClaimWith({}, Supersede(status)))
  /\ SF_vars(\E x \in Rows : RecordSuccess(x) \/ RecordFailure(x))
  /\ WF_vars(\E S \in SUBSET Overdue : ExpireDeliveryDeadlines(S))
  /\ \A s \in Sweepers : WF_vars(SweepStep(s))

FairSpec == Spec /\ Fairness

----------------------------------------------------------------------------
(***************************************************************************)
(* build_event_relay, the run as the API shows it.                         *)
(***************************************************************************)
HasStopped(x) == \/ status[x] \in {"dead_lettered", "superseded",
                                   "deadline_expired"}
                 \/ reconcile_state[x] \in {"receipt_failed", "timed_out"}

\* stopped_at_station_no, or 0.
StopStation(e) ==
  LET stops == {k \in 1..Len(route[e]) : HasStopped(<<e, k>>)} IN
  IF stops = {} THEN 0 ELSE CHOOSE k \in stops : \A j \in stops : k <= j

\* completed.
Completed(e) ==
  /\ route[e] # <<>>
  /\ \A k \in 1..Len(route[e]) : reconcile_state[<<e, k>>] = "acknowledged"

----------------------------------------------------------------------------
\* No station is contacted before the one ahead of it said yes, whatever is
\* requeued, revived, relocated, reaped or swept along the run (README 1.7).
StationOnlyAfterAck ==
  \A x \in Rows :
    /\ x[2] > 1
    /\ delivered_at[x] \/ status[x] \in {"in_flight", "delivered"}
    => acked[<<x[1], x[2] - 1>>]

\* Where the view says that a run stopped, nothing behind it is still on its
\* way, by whichever of the paths it stopped; unless the station had said yes
\* once and a sweep took it back.
NothingWaitsBehindAStop ==
  \A e \in Events : StopStation(e) # 0 =>
    \/ acked[<<e, StopStation(e)>>]
    \/ \A k \in (StopStation(e) + 1)..Len(route[e]) :
         /\ status[<<e, k>>] \notin {"pending", "in_flight", "delivered"}
         /\ ~delivered_at[<<e, k>>]

\* What was skipped is never sent: sending the stopped station again does not
\* bring its tail back, and the run is never shown as completed.  Only a sweep
\* that had found the copy, before it was requeued and then skipped, parks it.
SkippedForGood ==
  [][\A x \in Rows : status[x] = "relay_skipped" =>
       /\ \/ status'[x] = "relay_skipped"
          \/ \E s \in Sweepers : x \in found[s] /\ found'[s] = {}
       /\ ~Completed(x[1])']_vars

\* Some copy of the run still has to be sent.
Underway(e) == \E k \in 1..MaxStations : status[<<e, k>>] = "pending"

\* A station that said yes no longer counts as acknowledged.
TakenBack(x) == acked[x] /\ reconcile_state[x] # "acknowledged"

\* Runs that cross each other's destinations do not wait for one another for
\* ever: every run comes to rest, with no copy left in its queue, as long as
\* no sweep takes an acknowledgement back (a station that fails after that
\* waits for a receipt that was already given, and so does the queue behind).
RunsEnd ==
  \A e \in Events :
    Underway(e) ~> \/ ~Underway(e)
                   \/ \E x \in Rows : TakenBack(x)
============================================================================
