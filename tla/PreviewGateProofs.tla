------------------------- MODULE PreviewGateProofs -------------------------
(***************************************************************************)
(* Theorems about PreviewGate, for any number of gates, worker threads and *)
(* consent calls and every value of the settings.                          *)
(***************************************************************************)
EXTENDS PreviewGate, TLAPS

\* The copies of a pair appear together, at the destination's present location.
PairFits(g) ==
  /\ status[Body(g)] = "absent" <=> status[Preview(g)] = "absent"
  /\ status[Body(g)] = "absent" => release_state[g] = "held" /\ ~old_location[g]

\* The gate and the status of the body it guards.
BodyFits(g) ==
  /\ release_state[g] = "held" => status[Body(g)] \in {"absent", "pending"}
  /\ release_state[g] = "released" => status[Body(g)] # "absent"
  /\ release_state[g] \in {"release_denied", "release_expired",
                           "deadline_expired"} =>
       status[Body(g)] = release_state[g]
  /\ release_state[g] = "release_voided" =>
       status[Body(g)] \in {"release_voided", "cancelled"}
  /\ status[Body(g)] \in {"in_flight", "delivered", "dead_lettered"} =>
       release_state[g] = "released"

\* The gate, the answer and what has arrived.
AnswerFits(g) ==
  /\ release_state[g] = "held" => answer[g] = Null
  /\ release_state[g] = "released" =>
       delivered_at[Preview(g)] /\ answer[g] = "approve"
  /\ delivered_at[Body(g)] => delivered_at[Preview(g)] /\ answer[g] = "approve"
  /\ release_state[g] = "release_denied" <=> answer[g] = "deny"
  /\ release_state[g] = "release_expired" =>
       answer[g] = Null /\ consent_deadline[g] # "future"

\* A held body is where the destination is now, and has a way out.
WayOut(g) ==
  Held(g) =>
    /\ ~old_location[g]
    /\ \/ status[Preview(g)] \in {"pending", "in_flight"}
       \/ consent_deadline[g] # Null

GateFits(g) == PairFits(g) /\ BodyFits(g) /\ AnswerFits(g) /\ WayOut(g)
GatesFit == \A g \in Gates : GateFits(g)

\* Between its two steps a decision holds a body that is still held, and no
\* other decision does; a decision that began too late still is too late.
RequestsFit ==
  /\ \A r \in Requests :
       /\ request[r].locked => /\ request[r].gate \in Gates
                               /\ Held(request[r].gate)
       /\ request[r].expired /\ request[r].gate \in Gates =>
            consent_deadline[request[r].gate] = "past"
  /\ \A q, r \in Requests :
       /\ request[q].locked /\ request[r].locked
       /\ request[q].gate = request[r].gate
       => q = r

\* A busy thread has a row that exists; only a preview is recorded in two steps.
JobsFit ==
  \A w \in Workers : pc[w] # "idle" =>
    /\ job[w] \in Rows
    /\ status[job[w]] # "absent"
    /\ pc[w] = "locked" => job[w][2] = "preview"

IInv == TypeOK /\ GatesFit /\ RequestsFit /\ JobsFit

\* What a step does to a gate: it fits afterwards and is not opened again once it
\* closed, and what a decision has locked stays held.
Moves(g) ==
  /\ GateFits(g)'
  /\ release_state[g] \notin {"held", "released"} =>
       release_state'[g] = release_state[g]
LockedStays(g) == ~BodyFree(g) /\ Held(g) => Held(g)'
GatesMove == \A g \in Gates : Moves(g) /\ LockedStays(g)

----------------------------------------------------------------------------
(***************************************************************************)
(* The operators of the model.                                             *)
(***************************************************************************)
\* Null is none of the values it stands in for.
LEMMA NullFresh ==
  /\ Null # "release_voided" /\ Null # "deadline_expired"
  /\ Null # "approve" /\ Null # "deny"
  /\ Null # "future" /\ Null # "past"
BY GateAssumption

\* The rows are the previews and the bodies of the gates, all different.
LEMMA RowFacts ==
  /\ \A g \in Gates : /\ Preview(g) \in Rows /\ Body(g) \in Rows
                      /\ Preview(g)[1] = g /\ Preview(g)[2] = "preview"
                      /\ Body(g)[1] = g /\ Body(g)[2] = "body"
  /\ \A g, h \in Gates : /\ Preview(g) # Body(h)
                         /\ Preview(g) = Preview(h) => g = h
                         /\ Body(g) = Body(h) => g = h
  /\ \A x \in Rows : /\ x[1] \in Gates
                     /\ x[2] = "preview" => x = Preview(x[1])
                     /\ x[2] = "body" => x = Body(x[1])
                     /\ x[2] \in {"preview", "body"}
BY DEF Rows, Phases, Preview, Body

\* record_result has these outcomes.
LEMMA OutcomeType ==
  ASSUME NEW w
  PROVE  Outcome(w) \in {"delivered", "superseded", "deadline_expired",
                         "dead_lettered", "pending"}
BY DEF Outcome

----------------------------------------------------------------------------
(***************************************************************************)
(* The types.                                                              *)
(***************************************************************************)
\* The initial state has the right types.
LEMMA InitType == Init => TypeOK
BY DEF Init, TypeOK, Status, ReleaseState, Instant, Request, NoRequest

\* What claim_next_event does to the rows and the gates.
LEMMA TidyType ==
  ASSUME TypeOK, NEW C, NEW w \in Workers, TidyRows(C, w)
  PROVE  /\ status' \in [Rows -> Status]
         /\ release_state' \in [Gates -> ReleaseState]
         /\ owner' \in [Rows -> Workers \cup {Null}]
         /\ lapsed' \in [Rows -> BOOLEAN]
<1>1. status' \in [Rows -> Status]
  BY DEF TidyRows, TypeOK, Status
<1>2. release_state' \in [Gates -> ReleaseState]
  BY DEF TidyRows, TypeOK, ReleaseState
<1>3. owner' \in [Rows -> Workers \cup {Null}]
  BY DEF TidyRows, TypeOK
<1>4. lapsed' \in [Rows -> BOOLEAN]
  BY DEF TidyRows, TypeOK
<1> QED
  BY <1>1, <1>2, <1>3, <1>4

\* A thread that ends its job.
LEMMA IdleType ==
  ASSUME TypeOK, NEW w \in Workers, GoIdle(w)
  PROVE  /\ pc' \in [Workers -> {"idle", "sending", "recording", "locked"}]
         /\ job' \in [Workers -> Rows \cup {Null}]
         /\ result' \in [Workers -> {"success", "failure"}]
         /\ late' \in [Workers -> BOOLEAN]
         /\ stale' \in [Workers -> BOOLEAN]
BY DEF GoIdle, TypeOK

\* A result written to a row.
LEMMA WriteType ==
  ASSUME TypeOK, NEW x \in Rows, NEW s, WriteRow(x, s)
  PROVE  /\ owner' \in [Rows -> Workers \cup {Null}]
         /\ lapsed' \in [Rows -> BOOLEAN]
         /\ failures' \in [Rows -> Nat]
         /\ delivered_at' \in [Rows -> BOOLEAN]
<1>1. owner' \in [Rows -> Workers \cup {Null}]
  BY DEF WriteRow, TypeOK
<1>2. lapsed' \in [Rows -> BOOLEAN]
  BY DEF WriteRow, TypeOK
<1>3. failures' \in [Rows -> Nat]
  BY DEF WriteRow, TypeOK
<1>4. delivered_at' \in [Rows -> BOOLEAN]
  BY DEF WriteRow, TypeOK
<1> QED
  BY <1>1, <1>2, <1>3, <1>4

\* What a call holds stays a request when its expiry or its lock is written.
LEMMA RequestEdits ==
  ASSUME NEW q \in Request
  PROVE  /\ [q EXCEPT !.expired = FALSE] \in Request
         /\ [q EXCEPT !.locked = TRUE] \in Request
<1>1. [q EXCEPT !.expired = FALSE] \in Request
  BY DEF Request
<1>2. [q EXCEPT !.locked = TRUE] \in Request
  BY DEF Request
<1> QED
  BY <1>1, <1>2

\* The steps of a worker thread.
LEMMA WorkerType ==
  ASSUME TypeOK, JobsFit, NEW w \in Workers, WorkerStep(w) \/ WorkerDies(w)
  PROVE  TypeOK'
<1>1. CASE ClaimNextEvent(w)
  <2>1. \E C : TidyRows(C, w)
    BY <1>1 DEF ClaimNextEvent
  <2>2. pc' \in [Workers -> {"idle", "sending", "recording", "locked"}]
    <3>1. pc' = [pc EXCEPT ![w] = "sending"] \/ pc' = pc
      BY <1>1 DEF ClaimNextEvent
    <3> QED
      BY <3>1 DEF TypeOK
  <2>3. job' \in [Workers -> Rows \cup {Null}]
    <3>1. (\E x \in Rows : job' = [job EXCEPT ![w] = x]) \/ job' = job
      BY <1>1 DEF ClaimNextEvent
    <3> QED
      BY <3>1 DEF TypeOK
  <2> QED
    BY <1>1, <2>1, <2>2, <2>3, TidyType DEF ClaimNextEvent, TypeOK, boundVars
<1>2. ASSUME NEW r \in {"success", "failure"}, Deliver(w, r)
      PROVE  TypeOK'
  <2>1. CASE GoIdle(w)
    BY <1>2, <2>1, IdleType DEF Deliver, TypeOK, rowVars, gateVars, boundVars
  <2>2. CASE ~GoIdle(w)
    <3>1. pc' \in [Workers -> {"idle", "sending", "recording", "locked"}]
      BY <1>2, <2>2 DEF Deliver, TypeOK
    <3>2. late' \in [Workers -> BOOLEAN]
      BY <1>2, <2>2 DEF Deliver, TypeOK
    <3>3. stale' \in [Workers -> BOOLEAN]
      <4>1. job[w] \in Rows
        BY <1>2 DEF Deliver, JobsFit
      <4>2. old_location[job[w][1]] \in BOOLEAN
        BY <4>1, RowFacts DEF TypeOK
      <4> QED
        BY <1>2, <2>2, <4>2 DEF Deliver, TypeOK
    <3>4. result' \in [Workers -> {"success", "failure"}]
      BY <1>2, <2>2 DEF Deliver, TypeOK
    <3> QED
      BY <1>2, <2>2, <3>1, <3>2, <3>3, <3>4
      DEF Deliver, TypeOK, rowVars, gateVars, boundVars
  <2> QED
    BY <2>1, <2>2
<1>3. CASE Refuse(w)
  BY <1>3, IdleType DEF Refuse, TypeOK, rowVars, gateVars, boundVars
<1>4. CASE LockPreview(w)
  BY <1>4 DEF LockPreview, TypeOK, rowVars, gateVars, boundVars
<1>5. CASE RecordPreview(w)
  <2> DEFINE g == job[w][1]
             s == Outcome(w)
  <2>1. g \in Gates /\ s \in Status /\ Preview(g) \in Rows
    BY <1>5, RowFacts, OutcomeType DEF RecordPreview, JobsFit, Status
  <2> HIDE DEF g, s
  <2>2. status' \in [Rows -> Status]
    BY <1>5, <2>1 DEF RecordPreview, TypeOK, Status, g, s
  <2>3. release_state' \in [Gates -> ReleaseState]
    BY <1>5, <2>1 DEF RecordPreview, TypeOK, ReleaseState, g, s
  <2>4. consent_deadline' \in [Gates -> Instant]
    BY <1>5, <2>1 DEF RecordPreview, TypeOK, Instant, g, s
  <2>5. request' \in [Requests -> Request]
    <3>1. ASSUME NEW r \in Requests
          PROVE  request'[r] \in Request
      <4>1. PICK q \in Request : q = request[r]
        BY DEF TypeOK
      <4>2. request'[r] \in {q, [q EXCEPT !.expired = FALSE]}
        BY <1>5, <4>1 DEF RecordPreview
      <4> QED
        BY <4>2, RequestEdits
    <3>2. DOMAIN request' = Requests /\ request' = [r \in Requests |-> request'[r]]
      BY <1>5 DEF RecordPreview
    <3> QED
      BY <3>1, <3>2
  <2>6. WriteRow(Preview(g), s) /\ GoIdle(w)
    BY <1>5 DEF RecordPreview, g, s
  <2> QED
    BY <1>5, <2>1, <2>2, <2>3, <2>4, <2>5, <2>6, IdleType, WriteType
    DEF RecordPreview, TypeOK, boundVars
<1>6. CASE RecordBody(w)
  <2> DEFINE g == job[w][1]
             s == Outcome(w)
  <2>1. g \in Gates /\ s \in Status /\ Body(g) \in Rows
    BY <1>6, RowFacts, OutcomeType DEF RecordBody, JobsFit, Status
  <2> HIDE DEF g, s
  <2>2. status' \in [Rows -> Status]
    BY <1>6, <2>1 DEF RecordBody, TypeOK, g, s
  <2>3. release_state' \in [Gates -> ReleaseState]
    BY <1>6, <2>1 DEF RecordBody, TypeOK, ReleaseState, g, s
  <2>4. WriteRow(Body(g), s) /\ GoIdle(w)
    BY <1>6 DEF RecordBody, g, s
  <2> QED
    BY <1>6, <2>1, <2>2, <2>3, <2>4, IdleType, WriteType
    DEF RecordBody, TypeOK, boundVars
<1>7. CASE WorkerDies(w)
  BY <1>7, IdleType DEF WorkerDies, TypeOK, rowVars, gateVars
<1> QED
  BY <1>1, <1>2, <1>3, <1>4, <1>5, <1>6, <1>7 DEF WorkerStep

\* The steps of a consent call.
LEMMA RequestType ==
  ASSUME TypeOK, NEW r \in Requests, BeginDecision(r) \/ RequestStep(r)
  PROVE  TypeOK'
<1>1. CASE BeginDecision(r)
  BY <1>1 DEF BeginDecision, TypeOK, Request, rowVars, gateVars, workerVars, boundVars
<1>2. CASE IgnoreDecision(r)
  BY <1>2 DEF IgnoreDecision, EndRequest, NoRequest, TypeOK, Request, rowVars,
              gateVars, workerVars, boundVars
<1>3. CASE LockBody(r)
  <2>1. PICK q \in Request : q = request[r]
    BY DEF TypeOK
  <2>2. request' = [request EXCEPT ![r] = [q EXCEPT !.locked = TRUE]]
    BY <1>3, <2>1 DEF LockBody
  <2>3. request' \in [Requests -> Request]
    BY <2>2, RequestEdits DEF TypeOK
  <2> QED
    BY <1>3, <2>3 DEF LockBody, TypeOK, rowVars, gateVars, workerVars, boundVars
<1>4. CASE Decide(r)
  <2>1. request' \in [Requests -> Request]
    BY <1>4 DEF Decide, EndRequest, NoRequest, TypeOK, Request
  <2>2. status' \in [Rows -> Status]
    BY <1>4 DEF Decide, TypeOK, Status
  <2>3. release_state' \in [Gates -> ReleaseState]
    BY <1>4 DEF Decide, TypeOK, ReleaseState
  <2>4. answer' \in [Gates -> {Null, "approve", "deny"}]
    BY <1>4 DEF Decide, TypeOK, Request
  <2> QED
    BY <1>4, <2>1, <2>2, <2>3, <2>4 DEF Decide, TypeOK, workerVars, boundVars
<1> QED
  BY <1>1, <1>2, <1>3, <1>4 DEF RequestStep

\* Every step keeps the types.
LEMMA NextType ==
  ASSUME TypeOK, JobsFit, [Next]_vars
  PROVE  TypeOK'
<1>1. ASSUME NEW w \in Workers, NEW r \in Requests, BreakDeadlock(w, r)
      PROVE  TypeOK'
  <2>1. CASE WorkerDies(w)
    BY <2>1, WorkerType
  <2>2. CASE EndRequest(r) /\ UNCHANGED <<rowVars, gateVars, workerVars, boundVars>>
    BY <2>2 DEF EndRequest, NoRequest, TypeOK, Request, rowVars, gateVars, workerVars,
                boundVars
  <2> QED
    BY <1>1, <2>1, <2>2 DEF BreakDeadlock
<1>2. ASSUME NEW g \in Gates, GateStep(g)
      PROVE  TypeOK'
  <2>1. CASE FanOutGatedEvent(g)
    <3>1. deliver_by' \in [Gates -> Instant]
      BY <2>1 DEF FanOutGatedEvent, TypeOK, Instant
    <3> QED
      BY <2>1, <3>1 DEF FanOutGatedEvent, TypeOK, Status, ReleaseState, workerVars,
                        boundVars
  <2>2. CASE ParkBody(g)
    BY <2>2 DEF ParkBody, TypeOK, Status, gateVars, workerVars, boundVars
  <2>3. CASE VoidGatedBody(g)
    <3>1. status' \in [Rows -> Status]
      BY <2>3 DEF VoidGatedBody, TypeOK, Status
    <3>2. release_state' \in [Gates -> ReleaseState]
      BY <2>3 DEF VoidGatedBody, TypeOK, ReleaseState
    <3> QED
      BY <2>3, <3>1, <3>2 DEF VoidGatedBody, OperatorCall, TypeOK, workerVars
  <2>4. CASE CancelEvent(g)
    <3>1. status' \in [Rows -> Status]
      BY <2>4 DEF CancelEvent, TypeOK, Status
    <3>2. release_state' \in [Gates -> ReleaseState]
      BY <2>4 DEF CancelEvent, TypeOK, ReleaseState
    <3> QED
      BY <2>4, <3>1, <3>2 DEF CancelEvent, OperatorCall, TypeOK, workerVars
  <2>5. CASE ConsentDeadlinePasses(g)
    BY <2>5 DEF ConsentDeadlinePasses, TypeOK, Instant, rowVars, workerVars, boundVars
  <2>6. CASE CutoffPasses(g)
    BY <2>6 DEF CutoffPasses, TypeOK, Instant, rowVars, workerVars, boundVars
  <2> QED
    BY <1>2, <2>1, <2>2, <2>3, <2>4, <2>5, <2>6 DEF GateStep
<1>3. ASSUME NEW x \in Rows, RowStep(x)
      PROVE  TypeOK'
  <2>1. CASE RequeueDelivery(x)
    BY <2>1 DEF RequeueDelivery, OperatorCall, TypeOK, Status, gateVars, workerVars
  <2>2. CASE ReviveDeadLetter(x)
    BY <2>2 DEF ReviveDeadLetter, OperatorCall, TypeOK, Status, gateVars, workerVars
  <2>3. CASE LeaseLapses(x)
    BY <2>3 DEF LeaseLapses, TypeOK, gateVars, workerVars
  <2> QED
    BY <1>3, <2>1, <2>2, <2>3 DEF RowStep
<1>4. CASE Relocate
  <2>1. status' \in [Rows -> Status]
    BY <1>4 DEF Relocate, TypeOK, Status
  <2>2. release_state' \in [Gates -> ReleaseState]
    BY <1>4 DEF Relocate, TypeOK, ReleaseState
  <2>3. old_location' \in [Gates -> BOOLEAN]
    BY <1>4 DEF Relocate, TypeOK
  <2> QED
    BY <1>4, <2>1, <2>2, <2>3 DEF Relocate, OperatorCall, TypeOK, workerVars
<1>5. CASE SweepExpiredGates
  BY <1>5 DEF SweepExpiredGates, TypeOK, Status, ReleaseState, workerVars, boundVars
<1>6. CASE ExpireDueDeliveries
  BY <1>6 DEF ExpireDueDeliveries, TypeOK, Status, ReleaseState, workerVars, boundVars
<1>7. CASE UNCHANGED vars
  BY <1>7 DEF vars, rowVars, gateVars, workerVars, boundVars, TypeOK
<1> QED
  BY <1>1, <1>2, <1>3, <1>4, <1>5, <1>6, <1>7, WorkerType, RequestType DEF Next

----------------------------------------------------------------------------
(***************************************************************************)
(* The gates.                                                              *)
(***************************************************************************)
\* A gate that the step leaves alone.
LEMMA SameGate ==
  ASSUME NEW g \in Gates, GateFits(g),
         status'[Body(g)] = status[Body(g)],
         status'[Preview(g)] = status[Preview(g)],
         release_state'[g] = release_state[g],
         consent_deadline'[g] = consent_deadline[g],
         old_location'[g] = old_location[g],
         answer'[g] = answer[g],
         delivered_at'[Body(g)] = delivered_at[Body(g)],
         delivered_at'[Preview(g)] = delivered_at[Preview(g)]
  PROVE  Moves(g) /\ LockedStays(g)
BY DEF Moves, LockedStays, GateFits, PairFits, BodyFits, AnswerFits, WayOut, Held

\* The queue as claim_next_event and the reconciler see it: an overdue preview
\* takes its body along, and a queued body is held or released.
LEMMA QueueFacts ==
  ASSUME TypeOK, GatesFit, NEW g \in Gates
  PROVE  /\ Body(g) \in Queued => release_state[g] \in {"held", "released"}
         /\ Preview(g) \in Expired(Queued) /\ Body(g) \in Queued
              => Body(g) \in Expired(Queued)
         /\ Preview(g) \in Expired(Pending) /\ Body(g) \in Pending
              => Body(g) \in Expired(Pending)
<1>1. GateFits(g)
  BY DEF GatesFit
<1>2. release_state[g] \in ReleaseState
  BY DEF TypeOK
<1>3. Body(g) \in Queued => release_state[g] \in {"held", "released"}
  BY <1>1, <1>2 DEF Queued, Pending, Reaped, GateFits, BodyFits, ReleaseState
<1>4. \A Q : Preview(g) \in Expired(Q) /\ Body(g) \in Q => Body(g) \in Expired(Q)
  BY RowFacts DEF Expired
<1> QED
  BY <1>3, <1>4

\* claim_next_event: a held body is never claimed, and its housekeeping closes
\* both copies of a pair or neither.
LEMMA ClaimFits ==
  ASSUME TypeOK, GatesFit, NEW w \in Workers, ClaimNextEvent(w)
  PROVE  GatesMove
<1>1. PICK C \in SUBSET Rows :
         /\ TidyRows(C, w)
         /\ \A x \in C : Deliverable(x)
  <2>1. \/ TidyRows({}, w)
        \/ \E x \in Rows : TidyRows({x}, w) /\ Deliverable(x)
    BY DEF ClaimNextEvent, Claimable
  <2>2. /\ {} \in SUBSET Rows /\ \A x \in {} : Deliverable(x)
        /\ \A x \in Rows : {x} \in SUBSET Rows /\ \A y \in {x} : y = x
    OBVIOUS
  <2> QED
    BY <2>1, <2>2
<1> SUFFICES ASSUME NEW g \in Gates
             PROVE  Moves(g) /\ LockedStays(g)
  BY DEF GatesMove
<1>2. GateFits(g) /\ release_state[g] \in ReleaseState
      /\ status[Body(g)] \in Status /\ status[Preview(g)] \in Status
  BY RowFacts DEF GatesFit, TypeOK
<1>3. UNCHANGED <<consent_deadline, old_location, answer, delivered_at>>
  BY DEF ClaimNextEvent
<1> DEFINE E == Expired(Queued)
           b == Body(g)
           p == Preview(g)
<1>4. /\ b \in Rows /\ p \in Rows /\ b # p /\ b[1] = g /\ p[1] = g
      /\ b[2] = "body" /\ p[2] = "preview"
  BY RowFacts
<1>5. /\ b \in Queued => release_state[g] \in {"held", "released"}
      /\ p \in E /\ b \in Queued => b \in E
  BY QueueFacts
<1>6. /\ E \subseteq Queued
      /\ \A x \in Rows : x \in Queued =>
           \/ status[x] = "pending"
           \/ status[x] = "in_flight"
      /\ \A x \in Rows : status[x] = "pending" => x \in Queued
  BY DEF Expired, Missed, Queued, Pending, Reaped
<1>7. /\ \A x \in Rows : x \in Superseded <=> x \in Queued /\ x \notin E /\ old_location[x[1]]
      /\ \A x \in Rows : x \in Waiting <=> x \in Queued /\ x \notin E /\ ~old_location[x[1]]
  BY DEF Superseded, Waiting
<1>8. /\ b \in C => b \in Waiting /\ release_state[g] = "released"
      /\ p \in C => p \in Waiting
  BY <1>1, <1>4 DEF Deliverable
<1> HIDE DEF E
<1>9. /\ \A x \in Rows : status'[x] = IF x \in C THEN "in_flight"
                                     ELSE IF x \in E THEN "deadline_expired"
                                     ELSE IF x \in Superseded THEN "superseded"
                                     ELSE IF x \in Waiting THEN "pending"
                                     ELSE status[x]
      /\ release_state'[g] = IF b \in E THEN "deadline_expired" ELSE release_state[g]
  BY <1>1 DEF TidyRows, E
<1> HIDE DEF b, p
<1>10. PairFits(g)' /\ BodyFits(g)'
  <2>1. PairFits(g) /\ BodyFits(g) /\ WayOut(g)
    BY <1>2 DEF GateFits
  <2>2. PairFits(g)'
    BY <1>2, <1>3, <1>4, <1>5, <1>6, <1>7, <1>8, <1>9, <2>1
    DEF PairFits, BodyFits, b, p
  <2>3. BodyFits(g)'
    BY <1>2, <1>3, <1>4, <1>5, <1>6, <1>7, <1>8, <1>9, <2>1
    DEF BodyFits, WayOut, Held, b, p
  <2> QED
    BY <2>2, <2>3
<1>11. AnswerFits(g)'
  BY <1>2, <1>3, <1>4, <1>5, <1>6, <1>9 DEF GateFits, AnswerFits, BodyFits, ReleaseState, b, p
<1>12. WayOut(g)'
  BY <1>2, <1>3, <1>4, <1>5, <1>6, <1>7, <1>8, <1>9
  DEF GateFits, BodyFits, WayOut, Held, b, p
<1>13. release_state[g] \notin {"held", "released"} =>
         release_state'[g] = release_state[g]
  BY <1>5, <1>6, <1>9
<1>14. LockedStays(g)
  <2>1. b \in E => BodyFree(g)
    BY DEF ClaimNextEvent, E, b
  <2> QED
    BY <1>2, <1>4, <1>6, <1>7, <1>8, <1>9, <2>1
    DEF LockedStays, GateFits, WayOut, Held, b
<1> QED
  BY <1>10, <1>11, <1>12, <1>13, <1>14 DEF GateFits, Moves

\* The result of a preview: the body is closed with a preview that never arrives,
\* and its window opens with one that does.
LEMMA RecordPreviewFits ==
  ASSUME TypeOK, GatesFit, JobsFit, NEW w \in Workers, RecordPreview(w)
  PROVE  GatesMove
<1>0. PICK g \in Gates : g = job[w][1] /\ job[w] = Preview(g)
  BY RowFacts DEF RecordPreview, JobsFit
<1> DEFINE s == Outcome(w)
           b == Body(g)
           p == Preview(g)
           void == VoidsBody(g, s)
           expire == ExpiresBody(g, s)
           open == OpensWindow(g, s)
<1>1. status[p] # "absent"
  BY <1>0 DEF RecordPreview, JobsFit
<1>2. b \in Rows /\ p \in Rows /\ b # p
  BY RowFacts
<1>3. s \in {"delivered", "superseded", "deadline_expired", "dead_lettered", "pending"}
  BY OutcomeType
<1>4. /\ void <=> s \in {"superseded", "dead_lettered"} /\ Held(g)
      /\ expire <=> s = "deadline_expired" /\ status[b] = "pending"
      /\ open <=> s = "delivered" /\ Held(g)
  BY DEF VoidsBody, ExpiresBody, OpensWindow
<1> HIDE DEF s, void, expire, open
<1>5. /\ status' = [status EXCEPT ![p] = s,
                                 ![b] = IF void THEN "release_voided"
                                        ELSE IF expire THEN "deadline_expired" ELSE @]
      /\ release_state' = [release_state EXCEPT
                             ![g] = IF void THEN "release_voided"
                                    ELSE IF expire THEN "deadline_expired" ELSE @]
      /\ consent_deadline' = [consent_deadline EXCEPT ![g] = IF open THEN "future" ELSE @]
      /\ delivered_at' = [delivered_at EXCEPT ![p] = @ \/ s = "delivered"]
      /\ UNCHANGED <<old_location, answer>>
  BY <1>0, NullFresh DEF RecordPreview, WriteRow, s, void, expire, open
<1>6. ASSUME NEW h \in Gates, h # g
      PROVE  Moves(h) /\ LockedStays(h)
  <2>1. /\ Body(h) \in Rows /\ Preview(h) \in Rows
        /\ Body(h) # b /\ Body(h) # p /\ Preview(h) # b /\ Preview(h) # p
    BY <1>2, <1>6, RowFacts
  <2> HIDE DEF b, p
  <2>2. GateFits(h)
    BY DEF GatesFit
  <2> QED
    BY <1>2, <1>5, <1>6, <2>1, <2>2, SameGate DEF TypeOK
<1>7. /\ status'[p] = s
      /\ status'[b] = IF void THEN "release_voided"
                      ELSE IF expire THEN "deadline_expired" ELSE status[b]
      /\ release_state'[g] = IF void THEN "release_voided"
                             ELSE IF expire THEN "deadline_expired" ELSE release_state[g]
      /\ consent_deadline'[g] = IF open THEN "future" ELSE consent_deadline[g]
      /\ delivered_at'[p] = (delivered_at[p] \/ s = "delivered")
      /\ delivered_at'[b] = delivered_at[b]
      /\ old_location'[g] = old_location[g]
      /\ answer'[g] = answer[g]
  <2> HIDE DEF b, p
  <2> QED
    BY <1>2, <1>5 DEF TypeOK
<1>8. GateFits(g) /\ status[b] \in Status /\ release_state[g] \in ReleaseState
  BY <1>2 DEF GatesFit, TypeOK
<1>9. GateFits(g)'
  <2>1. PairFits(g)'
    BY <1>1, <1>3, <1>4, <1>7, <1>8 DEF GateFits, PairFits, BodyFits, b, p
  <2>2. BodyFits(g)'
    BY <1>3, <1>4, <1>7, <1>8 DEF GateFits, BodyFits, Held, ReleaseState, b
  <2>3. AnswerFits(g)'
    BY <1>3, <1>4, <1>7, <1>8, NullFresh
    DEF GateFits, BodyFits, AnswerFits, Held, ReleaseState, b, p
  <2>4. WayOut(g)'
    BY <1>3, <1>4, <1>7, <1>8, NullFresh DEF GateFits, WayOut, Held, b, p
  <2> QED
    BY <2>1, <2>2, <2>3, <2>4 DEF GateFits
<1>10. release_state[g] \notin {"held", "released"} =>
         release_state'[g] = release_state[g]
  BY <1>4, <1>7, <1>8 DEF GateFits, BodyFits, Held, ReleaseState, b
<1>11. LockedStays(g)
  <2>1. void \/ expire => BodyFree(g)
    BY <1>0, NullFresh DEF RecordPreview, s, void, expire
  <2> QED
    BY <1>7, <2>1 DEF LockedStays, Held, b
<1> QED
  BY <1>6, <1>9, <1>10, <1>11 DEF GatesMove, Moves

\* The result of a body: it is released, since it was claimed.
LEMMA RecordBodyFits ==
  ASSUME TypeOK, GatesFit, JobsFit, NEW w \in Workers, RecordBody(w)
  PROVE  GatesMove
<1>0. PICK g \in Gates : g = job[w][1] /\ job[w] = Body(g)
  BY RowFacts DEF RecordBody, JobsFit
<1> DEFINE s == Outcome(w)
           b == Body(g)
<1>1. status[b] = "in_flight"
  BY <1>0 DEF RecordBody, Matches, Owns
<1>2. b \in Rows /\ Preview(g) \in Rows /\ b # Preview(g)
  BY RowFacts
<1>3. s \in {"delivered", "superseded", "deadline_expired", "dead_lettered", "pending"}
  BY OutcomeType
<1> HIDE DEF s
<1>4. /\ status' = [status EXCEPT ![b] = s]
      /\ release_state' = [release_state EXCEPT ![g] = IF s = "deadline_expired"
                                                       THEN s ELSE @]
      /\ delivered_at' = [delivered_at EXCEPT ![b] = @ \/ s = "delivered"]
      /\ UNCHANGED <<old_location, answer, consent_deadline>>
  BY <1>0 DEF RecordBody, WriteRow, s
<1>5. ASSUME NEW h \in Gates, h # g
      PROVE  Moves(h) /\ LockedStays(h)
  <2>1. /\ Body(h) \in Rows /\ Preview(h) \in Rows
        /\ Body(h) # b /\ Preview(h) # b
    BY <1>2, <1>5, RowFacts
  <2> HIDE DEF b
  <2>2. GateFits(h)
    BY DEF GatesFit
  <2> QED
    BY <1>2, <1>4, <1>5, <2>1, <2>2, SameGate DEF TypeOK
<1>6. /\ status'[b] = s
      /\ status'[Preview(g)] = status[Preview(g)]
      /\ release_state'[g] = IF s = "deadline_expired" THEN s ELSE release_state[g]
      /\ delivered_at'[b] = (delivered_at[b] \/ s = "delivered")
      /\ delivered_at'[Preview(g)] = delivered_at[Preview(g)]
  <2> HIDE DEF b
  <2> QED
    BY <1>2, <1>4 DEF TypeOK
<1>7. GateFits(g) /\ release_state[g] = "released"
  BY <1>1, <1>2 DEF GatesFit, GateFits, BodyFits
<1>8. GateFits(g)'
  BY <1>1, <1>3, <1>4, <1>6, <1>7
  DEF GateFits, PairFits, BodyFits, AnswerFits, WayOut, Held, b
<1> QED
  BY <1>5, <1>7, <1>8 DEF GatesMove, Moves, LockedStays, Held

\* The decision: it falls on a body that is still held.
LEMMA DecideFits ==
  ASSUME TypeOK, GatesFit, RequestsFit, NEW r \in Requests, Decide(r)
  PROVE  \A g \in Gates : Moves(g) /\ (g # request[r].gate => LockedStays(g))
<1>0. PICK g \in Gates : g = request[r].gate /\ Held(g)
  BY DEF Decide, RequestsFit
<1> DEFINE b == Body(g)
           s == IF ~InTime(r) THEN "release_expired"
                ELSE IF request[r].decision = "deny" THEN "release_denied"
                ELSE "released"
<1>1. Held(g) /\ b \in Rows /\ Preview(g) \in Rows /\ b # Preview(g)
  BY <1>0, RowFacts
<1>2. /\ InTime(r) <=> consent_deadline[g] # Null /\ ~request[r].expired
      /\ request[r].expired => consent_deadline[g] = "past"
      /\ request[r].decision \in {"approve", "deny"}
  BY <1>0 DEF InTime, RequestsFit, TypeOK, Request
<1>3. CASE UNCHANGED <<status, release_state, answer>>
  BY <1>3, SameGate DEF Decide, GatesFit
<1>4. CASE ~UNCHANGED <<status, release_state, answer>>
  <2>1. /\ delivered_at[Preview(g)]
        /\ release_state' = [release_state EXCEPT ![g] = s]
        /\ status' = [status EXCEPT ![b] = IF s = "released" THEN @ ELSE s]
        /\ answer' = [answer EXCEPT ![g] = IF InTime(r) THEN request[r].decision
                                           ELSE @]
        /\ UNCHANGED <<delivered_at, consent_deadline, old_location>>
    BY <1>0, <1>4 DEF Decide
  <2> HIDE DEF s
  <2>2. ASSUME NEW h \in Gates, h # g
        PROVE  Moves(h) /\ LockedStays(h)
    <3>1. /\ Body(h) \in Rows /\ Preview(h) \in Rows
          /\ Body(h) # b /\ Preview(h) # b
      BY <1>1, <2>2, RowFacts
    <3> HIDE DEF b
    <3>2. GateFits(h)
      BY DEF GatesFit
    <3> QED
      BY <1>1, <2>1, <2>2, <3>1, <3>2, SameGate DEF TypeOK
  <2>3. /\ release_state'[g] = s
        /\ status'[b] = IF s = "released" THEN status[b] ELSE s
        /\ status'[Preview(g)] = status[Preview(g)]
        /\ answer'[g] = IF InTime(r) THEN request[r].decision ELSE answer[g]
    <3> HIDE DEF b
    <3> QED
      BY <1>1, <2>1 DEF TypeOK
  <2>4. GateFits(g)
    BY <1>1 DEF GatesFit
  <2>5. GateFits(g)'
    BY <1>1, <1>2, <2>1, <2>3, <2>4, NullFresh
    DEF GateFits, PairFits, BodyFits, AnswerFits, WayOut, Held, s, b
  <2> QED
    BY <1>0, <1>1, <2>2, <2>5 DEF Moves, Held
<1> QED
  BY <1>3, <1>4

\* The reconciler's two passes.
LEMMA SweepFits ==
  ASSUME TypeOK, GatesFit, SweepExpiredGates \/ ExpireDueDeliveries
  PROVE  GatesMove
<1> SUFFICES ASSUME NEW g \in Gates
             PROVE  Moves(g) /\ LockedStays(g)
  BY DEF GatesMove
<1>1. /\ Body(g) \in Rows /\ Preview(g) \in Rows /\ Body(g)[1] = g
      /\ Body(g)[2] = "body" /\ Preview(g)[2] = "preview"
  BY RowFacts
<1>2. GateFits(g) /\ release_state[g] \in ReleaseState
  BY DEF GatesFit, TypeOK
<1>3. UNCHANGED <<consent_deadline, old_location, answer, delivered_at>>
  BY DEF SweepExpiredGates, ExpireDueDeliveries
<1>4. CASE SweepExpiredGates
  <2>1. /\ status'[Preview(g)] = status[Preview(g)]
        /\ status'[Body(g)] = IF g \in Overdue THEN "release_expired" ELSE status[Body(g)]
        /\ release_state'[g] = IF g \in Overdue THEN "release_expired" ELSE release_state[g]
    BY <1>1, <1>4 DEF SweepExpiredGates
  <2>2. g \in Overdue => /\ Held(g) /\ BodyFree(g)
                         /\ consent_deadline[g] = "past"
    BY DEF Overdue
  <2> QED
    BY <1>2, <1>3, <2>1, <2>2
    DEF Moves, LockedStays, GateFits, PairFits, BodyFits, AnswerFits, WayOut, Held
<1>5. CASE ExpireDueDeliveries
  <2> DEFINE E == Expired(Pending)
  <2>1. /\ \A x \in Rows : status'[x] = IF x \in E THEN "deadline_expired" ELSE status[x]
        /\ release_state'[g] = IF Body(g) \in E THEN "deadline_expired"
                               ELSE release_state[g]
    BY <1>5 DEF ExpireDueDeliveries
  <2>2. /\ \A x \in E : status[x] = "pending"
        /\ status[Body(g)] = "pending" => release_state[g] \in {"held", "released"}
        /\ Preview(g) \in E /\ status[Body(g)] = "pending" => Body(g) \in E
    BY <1>1, QueueFacts DEF Expired, Missed, Pending, Queued
  <2>3. Body(g) \in E => BodyFree(g)
    BY <1>5 DEF ExpireDueDeliveries
  <2> HIDE DEF E
  <2> QED
    BY <1>1, <1>2, <1>3, <2>1, <2>2, <2>3
    DEF Moves, LockedStays, GateFits, PairFits, BodyFits, AnswerFits, WayOut, Held
<1> QED
  BY <1>4, <1>5

\* The steps about one gate.
LEMMA GateStepFits ==
  ASSUME TypeOK, GatesFit, NEW h \in Gates, GateStep(h)
  PROVE  GatesMove
<1> SUFFICES ASSUME NEW g \in Gates
             PROVE  Moves(g) /\ LockedStays(g)
  BY DEF GatesMove
<1>1. /\ Body(g) \in Rows /\ Preview(g) \in Rows
      /\ Body(g) # Preview(h) /\ Preview(g) # Body(h)
      /\ Body(g) = Body(h) => g = h
      /\ Preview(g) = Preview(h) => g = h
  BY RowFacts
<1>2. GateFits(g) /\ release_state[g] \in ReleaseState
  BY DEF GatesFit, TypeOK
<1>3. CASE FanOutGatedEvent(h)
  <2>1. /\ status'[Body(g)] = IF g = h THEN "pending" ELSE status[Body(g)]
        /\ status'[Preview(g)] = IF g = h THEN "pending" ELSE status[Preview(g)]
        /\ release_state'[g] = IF g = h THEN "held" ELSE release_state[g]
        /\ g = h => status[Preview(g)] = "absent"
        /\ UNCHANGED <<consent_deadline, old_location, answer, delivered_at>>
    BY <1>1, <1>3 DEF FanOutGatedEvent, TypeOK
  <2> QED
    BY <1>2, <2>1 DEF Moves, LockedStays, GateFits, PairFits, BodyFits, AnswerFits,
                       WayOut, Held
<1>4. CASE ParkBody(h)
  <2>1. /\ status'[Body(g)] = IF g = h THEN "dead_lettered" ELSE status[Body(g)]
        /\ status'[Preview(g)] = status[Preview(g)]
        /\ g = h => status[Body(g)] = "delivered"
        /\ UNCHANGED <<release_state, consent_deadline, old_location, answer,
                       delivered_at>>
    BY <1>1, <1>4 DEF ParkBody, TypeOK, gateVars
  <2> QED
    BY <1>2, <2>1 DEF Moves, LockedStays, GateFits, PairFits, BodyFits, AnswerFits,
                       WayOut, Held
<1>5. CASE VoidGatedBody(h)
  <2>1. /\ status'[Body(g)] = IF g = h THEN "release_voided" ELSE status[Body(g)]
        /\ status'[Preview(g)] = status[Preview(g)]
        /\ release_state'[g] = IF g = h THEN "release_voided" ELSE release_state[g]
        /\ g = h => /\ BodyFree(g)
                    /\ status[Body(g)] \notin {"absent", "release_denied",
                                               "release_expired", "deadline_expired"}
        /\ UNCHANGED <<consent_deadline, old_location, answer, delivered_at>>
    BY <1>1, <1>5 DEF VoidGatedBody, TypeOK
  <2> QED
    BY <1>2, <2>1 DEF Moves, LockedStays, GateFits, PairFits, BodyFits, AnswerFits,
                       WayOut, Held, ReleaseState
<1>6. CASE CancelEvent(h)
  <2>1. /\ status'[Body(g)] = IF g = h THEN "cancelled" ELSE status[Body(g)]
        /\ status'[Preview(g)] = IF g = h THEN "cancelled" ELSE status[Preview(g)]
        /\ release_state'[g] = IF g = h /\ release_state[g] = "held"
                               THEN "release_voided" ELSE release_state[g]
        /\ UNCHANGED <<consent_deadline, old_location, answer, delivered_at>>
    BY <1>1, <1>6 DEF CancelEvent, TypeOK
  <2>2. g = h => status[Body(g)] = "pending" /\ BodyFree(g)
    BY <1>6 DEF CancelEvent, Phases, Body
  <2>3. g = h => release_state[g] \in {"held", "released"}
    BY <1>2, <2>2 DEF GateFits, BodyFits, ReleaseState
  <2>4. status[Body(g)] = "absent" => status[Preview(g)] = "absent" /\ g # h
    BY <1>2, <2>2 DEF GateFits, PairFits
  <2> QED
    BY <1>2, <2>1, <2>2, <2>3, <2>4
    DEF Moves, LockedStays, GateFits, PairFits, BodyFits, AnswerFits,
                       WayOut, Held
<1>7. CASE ConsentDeadlinePasses(h)
  <2>1. /\ consent_deadline'[g] = IF g = h THEN "past" ELSE consent_deadline[g]
        /\ UNCHANGED <<status, release_state, old_location, answer, delivered_at>>
    BY <1>7 DEF ConsentDeadlinePasses, TypeOK, rowVars
  <2> QED
    BY <1>2, <2>1, NullFresh
    DEF Moves, LockedStays, GateFits, PairFits, BodyFits, AnswerFits,
                       WayOut, Held
<1>8. CASE CutoffPasses(h)
  BY <1>2, <1>8, SameGate DEF CutoffPasses, rowVars
<1> QED
  BY <1>3, <1>4, <1>5, <1>6, <1>7, <1>8 DEF GateStep

\* The operator's requeue and revival, and a lease that runs out.
LEMMA RowStepFits ==
  ASSUME TypeOK, GatesFit, NEW x \in Rows, RowStep(x)
  PROVE  GatesMove
<1> SUFFICES ASSUME NEW g \in Gates
             PROVE  Moves(g) /\ LockedStays(g)
  BY DEF GatesMove
<1>1. GateFits(g) /\ Body(g) \in Rows /\ Preview(g) \in Rows /\ Body(g) # Preview(g)
  BY RowFacts DEF GatesFit
<1>2. CASE RequeueDelivery(x) \/ ReviveDeadLetter(x)
  <2>1. /\ status[x] \in {"delivered", "dead_lettered"}
        /\ status' = [status EXCEPT ![x] = "pending"]
        /\ UNCHANGED <<release_state, consent_deadline, old_location, answer,
                       delivered_at>>
    BY <1>2 DEF RequeueDelivery, ReviveDeadLetter, gateVars
  <2>2. /\ status'[Body(g)] = IF x = Body(g) THEN "pending" ELSE status[Body(g)]
        /\ status'[Preview(g)] = IF x = Preview(g) THEN "pending" ELSE status[Preview(g)]
    BY <1>1, <2>1 DEF TypeOK
  <2> QED
    BY <1>1, <2>1, <2>2 DEF Moves, LockedStays, GateFits, PairFits, BodyFits, AnswerFits,
                       WayOut, Held
<1>3. CASE LeaseLapses(x)
  BY <1>1, <1>3, SameGate DEF LeaseLapses, gateVars
<1> QED
  BY <1>2, <1>3 DEF RowStep

\* The destination moves: a held body stays at the old location as a voided one.
LEMMA RelocateFits ==
  ASSUME TypeOK, GatesFit, Relocate
  PROVE  GatesMove
<1> SUFFICES ASSUME NEW g \in Gates
             PROVE  Moves(g) /\ LockedStays(g)
  BY DEF GatesMove
<1> DEFINE here == status[Preview(g)] # "absent"
<1>1. /\ Body(g) \in Rows /\ Preview(g) \in Rows /\ Body(g)[1] = g /\ Preview(g)[1] = g
      /\ Body(g)[2] = "body" /\ Preview(g)[2] = "preview"
  BY RowFacts
<1>2. GateFits(g) /\ release_state[g] \in ReleaseState
  BY DEF GatesFit, TypeOK
<1>3. /\ status'[Preview(g)] = IF status[Preview(g)] = "pending" THEN "superseded"
                               ELSE status[Preview(g)]
      /\ status'[Body(g)] = IF ~here \/ status[Body(g)] # "pending" THEN status[Body(g)]
                            ELSE IF release_state[g] = "held" THEN "release_voided"
                            ELSE "superseded"
      /\ release_state'[g] = IF here /\ Held(g) THEN "release_voided"
                             ELSE release_state[g]
      /\ old_location'[g] = (old_location[g] \/ here)
      /\ UNCHANGED <<consent_deadline, answer, delivered_at>>
      /\ here => BodyFree(g)
  BY <1>1 DEF Relocate
<1> QED
  BY <1>2, <1>3
  DEF Moves, LockedStays, GateFits, PairFits, BodyFits, AnswerFits, WayOut, Held,
      ReleaseState

\* Every step but a decision leaves every gate, and whatever is locked, in order.
LEMMA NextMoves ==
  ASSUME TypeOK, GatesFit, RequestsFit, JobsFit, [Next]_vars
  PROVE  /\ \A g \in Gates : Moves(g)
         /\ GatesMove \/ \E r \in Requests :
                           /\ Decide(r)
                           /\ \A g \in Gates : g # request[r].gate => LockedStays(g)
<1>1. ASSUME UNCHANGED <<status, delivered_at, release_state, consent_deadline,
                         old_location, answer>>
      PROVE  GatesMove
  BY <1>1, SameGate DEF GatesFit, GatesMove
<1>2. ASSUME NEW w \in Workers, WorkerStep(w) \/ WorkerDies(w)
      PROVE  GatesMove
  <2>1. CASE \E r \in {"success", "failure"} : Deliver(w, r)
    BY <1>1, <2>1 DEF Deliver, rowVars, gateVars
  <2>2. CASE Refuse(w) \/ LockPreview(w) \/ WorkerDies(w)
    BY <1>1, <2>2 DEF Refuse, LockPreview, WorkerDies, rowVars, gateVars
  <2> QED
    BY <1>2, <2>1, <2>2, ClaimFits, RecordPreviewFits, RecordBodyFits DEF WorkerStep
<1>3. ASSUME NEW r \in Requests,
             BeginDecision(r) \/ IgnoreDecision(r) \/ LockBody(r)
      PROVE  GatesMove
  BY <1>1, <1>3 DEF BeginDecision, IgnoreDecision, LockBody, rowVars, gateVars
<1>4. ASSUME NEW w \in Workers, NEW r \in Requests, BreakDeadlock(w, r)
      PROVE  GatesMove
  BY <1>1, <1>4 DEF BreakDeadlock, WorkerDies, rowVars, gateVars
<1>5. ASSUME UNCHANGED vars
      PROVE  GatesMove
  <2>1. UNCHANGED <<status, delivered_at, release_state, consent_deadline,
                    old_location, answer>>
    BY <1>5 DEF vars, rowVars, gateVars
  <2> QED
    BY <1>1, <2>1
<1>6. \/ GatesMove
      \/ \E r \in Requests : Decide(r)
  BY <1>2, <1>3, <1>4, <1>5, GateStepFits, RowStepFits, RelocateFits, SweepFits
  DEF Next, RequestStep
<1> QED
  BY <1>6, DecideFits DEF GatesMove

----------------------------------------------------------------------------
(***************************************************************************)
(* The consent calls under way and the jobs of the threads.                *)
(***************************************************************************)
\* Calls that go on, or end.
LEMMA RequestsKept ==
  ASSUME RequestsFit,
         \A r \in Requests :
           /\ request'[r].locked => request[r].locked /\ request'[r].gate = request[r].gate
           /\ request'[r].expired /\ request'[r].gate \in Gates =>
                consent_deadline'[request'[r].gate] = "past",
         \A r \in Requests : request'[r].locked => LockedStays(request[r].gate)
  PROVE  RequestsFit'
<1>1. ASSUME NEW r \in Requests, request'[r].locked
      PROVE  /\ request'[r].gate \in Gates
             /\ Held(request[r].gate)'
  <2>1. PICK g \in Gates : g = request[r].gate /\ request[r].locked /\ Held(g)
    BY <1>1 DEF RequestsFit
  <2>2. ~BodyFree(g)
    BY <2>1 DEF BodyFree
  <2>3. Held(g)' /\ request'[r].gate = g
    BY <1>1, <2>1, <2>2 DEF LockedStays
  <2> QED
    BY <2>3 DEF Held
<1>2. \A q, r \in Requests :
        /\ request'[q].locked /\ request'[r].locked
        /\ request'[q].gate = request'[r].gate
        => q = r
  BY DEF RequestsFit
<1> QED
  BY <1>1, <1>2 DEF RequestsFit

\* One call ends; what the others hold stays held.
LEMMA EndKeepsRequests ==
  ASSUME TypeOK, RequestsFit, NEW r \in Requests, EndRequest(r),
         \A g \in Gates : (request[r].locked => g # request[r].gate) => LockedStays(g),
         UNCHANGED consent_deadline
  PROVE  RequestsFit'
<1>1. /\ ~request'[r].locked /\ ~request'[r].expired
      /\ \A q \in Requests : q # r => request'[q] = request[q]
  BY DEF EndRequest, NoRequest, TypeOK
<1>2. ASSUME NEW q \in Requests, request'[q].locked
      PROVE  LockedStays(request[q].gate)
  <2>1. q # r /\ request[q].locked /\ request[q].gate \in Gates
    BY <1>1, <1>2 DEF RequestsFit
  <2>2. request[r].locked => request[q].gate # request[r].gate
    BY <2>1 DEF RequestsFit
  <2> QED
    BY <2>1, <2>2
<1>3. ASSUME NEW q \in Requests
      PROVE  /\ request'[q].locked => /\ request[q].locked
                                      /\ request'[q].gate = request[q].gate
             /\ request'[q].expired /\ request'[q].gate \in Gates =>
                  consent_deadline'[request'[q].gate] = "past"
  BY <1>1 DEF RequestsFit
<1> QED
  BY <1>2, <1>3, RequestsKept

\* Every step keeps the calls in order.
LEMMA NextRequests ==
  ASSUME TypeOK, GatesFit, RequestsFit, JobsFit, [Next]_vars
  PROVE  RequestsFit'
<1>1. \A r \in Requests : request[r].locked => request[r].gate \in Gates
  BY DEF RequestsFit
<1>2. ASSUME GatesMove, UNCHANGED request,
             \A g \in Gates : consent_deadline[g] = "past" => consent_deadline'[g] = "past"
      PROVE  RequestsFit'
  BY <1>1, <1>2, RequestsKept DEF GatesMove, RequestsFit
<1>3. ASSUME NEW r \in Requests, Decide(r)
      PROVE  RequestsFit'
  <2>1. /\ EndRequest(r) /\ UNCHANGED consent_deadline
        /\ request[r].locked
        /\ \A g \in Gates : g # request[r].gate => LockedStays(g)
    BY <1>3, DecideFits DEF Decide
  <2> QED
    BY <2>1, EndKeepsRequests
<1>4. ASSUME NEW r \in Requests, EndRequest(r), UNCHANGED <<rowVars, gateVars>>
      PROVE  RequestsFit'
  BY <1>4, EndKeepsRequests DEF rowVars, gateVars, LockedStays, Held
<1>5. ASSUME NEW r \in Requests, BeginDecision(r)
      PROVE  RequestsFit'
  <2>1. PICK g \in Gates :
           /\ request'[r].gate = g
           /\ request'[r].expired = (consent_deadline[g] = "past")
           /\ request'[r].locked = FALSE
           /\ \A q \in Requests : q # r => request'[q] = request[q]
    BY <1>5 DEF BeginDecision, TypeOK
  <2>2. UNCHANGED <<status, release_state, consent_deadline>>
    BY <1>5 DEF BeginDecision, rowVars, gateVars
  <2>3. \A h : LockedStays(h)
    BY <2>2 DEF LockedStays, Held
  <2>4. ASSUME NEW q \in Requests
        PROVE  /\ request'[q].locked => /\ request[q].locked
                                        /\ request'[q].gate = request[q].gate
               /\ request'[q].expired /\ request'[q].gate \in Gates =>
                    consent_deadline'[request'[q].gate] = "past"
    BY <2>1, <2>2 DEF RequestsFit
  <2> QED
    BY <2>3, <2>4, RequestsKept
<1>6. ASSUME NEW r \in Requests, LockBody(r)
      PROVE  RequestsFit'
  <2>1. /\ request[r].gate # Null /\ BodyFree(request[r].gate) /\ Held(request[r].gate)
        /\ UNCHANGED <<status, release_state, consent_deadline>>
    BY <1>6 DEF LockBody, Decidable, rowVars, gateVars
  <2>2. /\ request'[r].locked = TRUE
        /\ request'[r].gate = request[r].gate
        /\ request'[r].expired = request[r].expired
        /\ \A q \in Requests : q # r => request'[q] = request[q]
    BY <1>6 DEF LockBody, TypeOK, Request
  <2>3. request[r].gate \in Gates
    BY <2>1 DEF TypeOK, Request
  <2>4. \A q \in Requests : request[q].locked => request[q].gate # request[r].gate
    BY <2>1 DEF BodyFree
  <2> QED
    BY <2>1, <2>2, <2>3, <2>4 DEF RequestsFit, Held
<1>7. ASSUME NEW w \in Workers, RecordPreview(w)
      PROVE  RequestsFit'
  <2>0. PICK g \in Gates : g = job[w][1]
    BY <1>7, RowFacts DEF RecordPreview, JobsFit
  <2> DEFINE open == OpensWindow(g, Outcome(w))
  <2>1. GatesMove
    BY <1>7, RecordPreviewFits
  <2>2. \A h \in Gates : consent_deadline'[h] = IF h = g /\ open THEN "future"
                                                ELSE consent_deadline[h]
    BY <1>7, <2>0 DEF RecordPreview, TypeOK
  <2>3. ASSUME NEW r \in Requests
        PROVE  /\ request'[r].locked = request[r].locked
               /\ request'[r].gate = request[r].gate
               /\ request'[r].expired = IF open /\ request[r].gate = g THEN FALSE
                                        ELSE request[r].expired
    BY <1>7, <2>0 DEF RecordPreview, TypeOK, Request
  <2>4. ASSUME NEW r \in Requests
        PROVE  /\ request'[r].locked => LockedStays(request[r].gate)
               /\ request'[r].expired /\ request'[r].gate \in Gates =>
                    consent_deadline'[request'[r].gate] = "past"
    <3> HIDE DEF open
    <3>1. request'[r].locked => LockedStays(request[r].gate)
      BY <1>1, <2>1, <2>3 DEF GatesMove
    <3>2. ASSUME NEW h \in Gates, request'[r].expired, request'[r].gate = h
          PROVE  consent_deadline'[h] = "past"
      <4>1. request[r].gate = h /\ ~(open /\ h = g) /\ request[r].expired
        BY <2>3, <3>2
      <4>2. consent_deadline[h] = "past"
        BY <4>1 DEF RequestsFit
      <4>3. consent_deadline'[h] = consent_deadline[h]
        BY <2>2, <4>1
      <4> QED
        BY <4>2, <4>3
    <3> QED
      BY <3>1, <3>2
  <2> QED
    BY <2>3, <2>4, RequestsKept
<1>8. ASSUME UNCHANGED request, \A r \in Requests : ~Decide(r),
             \A w \in Workers : ~RecordPreview(w)
      PROVE  RequestsFit'
  <2>1. GatesMove
    BY <1>8, NextMoves
  <2>2. \A g \in Gates : consent_deadline[g] = "past" => consent_deadline'[g] = "past"
    <3>1. CASE UNCHANGED consent_deadline
      BY <3>1
    <3>2. CASE \E g \in Gates : ConsentDeadlinePasses(g)
      BY <3>2 DEF ConsentDeadlinePasses, TypeOK
    <3> QED
      BY <1>8, <3>1, <3>2
      DEF Next, WorkerStep, RequestStep, GateStep, RowStep, vars, gateVars,
          ClaimNextEvent, Deliver, Refuse, LockPreview, RecordBody, WorkerDies,
          BeginDecision, IgnoreDecision, LockBody, BreakDeadlock, FanOutGatedEvent,
          ParkBody, VoidGatedBody, CancelEvent, CutoffPasses, RequeueDelivery,
          ReviveDeadLetter, LeaseLapses, Relocate, SweepExpiredGates,
          ExpireDueDeliveries
  <2> QED
    BY <1>2, <1>8, <2>1, <2>2
<1>9. \/ UNCHANGED request
      \/ \E w \in Workers : RecordPreview(w)
      \/ \E r \in Requests : \/ Decide(r) \/ BeginDecision(r) \/ LockBody(r)
                             \/ EndRequest(r) /\ UNCHANGED <<rowVars, gateVars>>
  BY DEF Next, WorkerStep, RequestStep, GateStep, RowStep, vars,
         ClaimNextEvent, Deliver, Refuse, LockPreview, RecordBody, WorkerDies,
         IgnoreDecision, BreakDeadlock, FanOutGatedEvent,
         ParkBody, VoidGatedBody, CancelEvent, ConsentDeadlinePasses, CutoffPasses,
         RequeueDelivery, ReviveDeadLetter, LeaseLapses, Relocate, SweepExpiredGates,
         ExpireDueDeliveries
<1> QED
  BY <1>3, <1>4, <1>5, <1>6, <1>7, <1>8, <1>9

\* A copy never disappears.
LEMMA PresentStays ==
  ASSUME TypeOK, JobsFit, [Next]_vars, NEW x \in Rows, status[x] # "absent"
  PROVE  status'[x] # "absent"
<1>1. ASSUME NEW w \in Workers, WorkerStep(w) \/ WorkerDies(w)
      PROVE  status'[x] # "absent"
  <2>1. CASE ClaimNextEvent(w)
    BY <2>1 DEF ClaimNextEvent, TidyRows
  <2>2. CASE RecordPreview(w) \/ RecordBody(w)
    <3>1. Outcome(w) # "absent"
      BY OutcomeType
    <3> QED
      BY <2>2, <3>1, NullFresh DEF RecordPreview, RecordBody, TypeOK
  <2>3. CASE UNCHANGED status
    BY <2>3
  <2> QED
    BY <1>1, <2>1, <2>2, <2>3
    DEF WorkerStep, Deliver, Refuse, LockPreview, WorkerDies, rowVars
<1>2. ASSUME NEW r \in Requests, RequestStep(r)
      PROVE  status'[x] # "absent"
  BY <1>2 DEF RequestStep, IgnoreDecision, LockBody, Decide, rowVars, TypeOK
<1>3. ASSUME NEW g \in Gates, GateStep(g)
      PROVE  status'[x] # "absent"
  BY <1>3 DEF GateStep, FanOutGatedEvent, ParkBody, VoidGatedBody, CancelEvent,
              ConsentDeadlinePasses, CutoffPasses, rowVars, TypeOK
<1>4. ASSUME NEW y \in Rows, RowStep(y)
      PROVE  status'[x] # "absent"
  BY <1>4 DEF RowStep, RequeueDelivery, ReviveDeadLetter, LeaseLapses, TypeOK
<1>5. CASE Relocate \/ SweepExpiredGates \/ ExpireDueDeliveries
  BY <1>5 DEF Relocate, SweepExpiredGates, ExpireDueDeliveries
<1>6. CASE UNCHANGED status
  BY <1>6
<1> QED
  BY <1>1, <1>2, <1>3, <1>4, <1>5, <1>6
  DEF Next, BeginDecision, BreakDeadlock, WorkerDies, rowVars, vars

\* Every step keeps the jobs in order.
LEMMA NextJobs ==
  ASSUME TypeOK, JobsFit, [Next]_vars
  PROVE  JobsFit'
<1>1. \A x \in Rows : status[x] # "absent" => status'[x] # "absent"
  BY PresentStays
<1>2. ASSUME \A w \in Workers : pc'[w] # "idle" =>
               /\ pc[w] # "idle" /\ job'[w] = job[w]
               /\ pc'[w] = "locked" => pc[w] = "locked" \/ job[w][2] = "preview"
      PROVE  JobsFit'
  BY <1>1, <1>2 DEF JobsFit
<1>3. ASSUME NEW w \in Workers, GoIdle(w)
      PROVE  JobsFit'
  <2>1. /\ pc'[w] = "idle"
        /\ \A v \in Workers : v # w => pc'[v] = pc[v] /\ job'[v] = job[v]
    BY <1>3 DEF GoIdle, TypeOK
  <2> QED
    BY <1>2, <2>1
<1>4. ASSUME NEW w \in Workers, ClaimNextEvent(w)
      PROVE  JobsFit'
  <2>1. CASE UNCHANGED <<pc, job>>
    BY <1>2, <2>1
  <2>2. CASE ~UNCHANGED <<pc, job>>
    <3>1. PICK x \in Rows : /\ TidyRows({x}, w)
                            /\ pc' = [pc EXCEPT ![w] = "sending"]
                            /\ job' = [job EXCEPT ![w] = x]
      BY <1>4, <2>2 DEF ClaimNextEvent
    <3>2. status'[x] = "in_flight"
      BY <3>1 DEF TidyRows
    <3>3. /\ pc'[w] = "sending" /\ job'[w] = x
          /\ \A v \in Workers : v # w => pc'[v] = pc[v] /\ job'[v] = job[v]
      BY <3>1 DEF TypeOK
    <3> QED
      BY <1>1, <3>2, <3>3 DEF JobsFit
  <2> QED
    BY <2>1, <2>2
<1>5. ASSUME NEW w \in Workers, NEW r \in {"success", "failure"}, Deliver(w, r)
      PROVE  JobsFit'
  <2>1. CASE GoIdle(w)
    BY <1>3, <2>1
  <2>2. CASE ~GoIdle(w)
    <3>1. /\ pc[w] = "sending" /\ pc'[w] = "recording"
          /\ \A v \in Workers : v # w => pc'[v] = pc[v]
          /\ UNCHANGED job
      BY <1>5, <2>2 DEF Deliver, TypeOK
    <3> QED
      BY <1>2, <3>1
  <2> QED
    BY <2>1, <2>2
<1>6. ASSUME NEW w \in Workers, LockPreview(w)
      PROVE  JobsFit'
  <2>1. /\ pc[w] = "recording" /\ job[w][2] = "preview" /\ pc'[w] = "locked"
        /\ \A v \in Workers : v # w => pc'[v] = pc[v]
        /\ UNCHANGED job
    BY <1>6 DEF LockPreview, TypeOK
  <2> QED
    BY <1>2, <2>1
<1>7. CASE UNCHANGED <<pc, job>>
  BY <1>2, <1>7
<1>8. \/ UNCHANGED <<pc, job>>
      \/ \E w \in Workers :
           \/ GoIdle(w) \/ ClaimNextEvent(w) \/ LockPreview(w)
           \/ \E r \in {"success", "failure"} : Deliver(w, r)
  BY DEF Next, WorkerStep, RequestStep, GateStep, RowStep, vars, workerVars,
         Refuse, RecordPreview, RecordBody, WorkerDies, BeginDecision,
         IgnoreDecision, LockBody, Decide, BreakDeadlock, FanOutGatedEvent,
         ParkBody, VoidGatedBody, CancelEvent, ConsentDeadlinePasses, CutoffPasses,
         RequeueDelivery, ReviveDeadLetter, LeaseLapses, Relocate, SweepExpiredGates,
         ExpireDueDeliveries
<1> QED
  BY <1>3, <1>4, <1>5, <1>6, <1>7, <1>8

----------------------------------------------------------------------------
(***************************************************************************)
(* The theorems.                                                           *)
(***************************************************************************)
\* The inductive invariant of the gate: the states of gate, body, answer and
\* deadline fit together, and so do the transactions that are half done.
THEOREM GateInvariant == Spec => []IInv
<1>1. Init => IInv
  <2>1. Init => GatesFit
    <3> SUFFICES ASSUME Init, NEW g \in Gates
                 PROVE  GateFits(g)
      BY DEF GatesFit
    <3>1. /\ status[Body(g)] = "absent" /\ status[Preview(g)] = "absent"
          /\ ~delivered_at[Body(g)]
          /\ release_state[g] = "held" /\ ~old_location[g] /\ answer[g] = Null
      BY RowFacts DEF Init
    <3> QED
      BY <3>1, NullFresh
      DEF GateFits, PairFits, BodyFits, AnswerFits, WayOut, Held
  <2>2. Init => RequestsFit
    BY DEF Init, RequestsFit, NoRequest
  <2>3. Init => JobsFit
    BY DEF Init, JobsFit
  <2> QED
    BY <2>1, <2>2, <2>3, InitType DEF IInv
<1>2. IInv /\ [Next]_vars => IInv'
  <2> SUFFICES ASSUME IInv, [Next]_vars
               PROVE  IInv'
    OBVIOUS
  <2>1. GatesFit'
    BY NextMoves DEF IInv, Moves, GatesFit
  <2> QED
    BY <2>1, NextType, NextRequests, NextJobs DEF IInv
<1> QED
  BY <1>1, <1>2, PTL DEF Spec

\* A body goes out only after its preview arrived and its address approved, in all
\* interleavings of workers, consent calls, sweeps and operator calls.
THEOREM NodComesFirst == Spec => []BodyOnlyAfterNod
<1>1. IInv => BodyOnlyAfterNod
  BY DEF IInv, GatesFit, GateFits, BodyFits, AnswerFits, BodyOnlyAfterNod
<1> QED
  BY <1>1, GateInvariant, PTL

\* The recorded answer and the state of the gate never contradict each other.
THEOREM AnswersMatch == Spec => []AnswerMatchesGate
<1>1. IInv => AnswerMatchesGate
  BY DEF IInv, GatesFit, GateFits, AnswerFits, AnswerMatchesGate
<1> QED
  BY <1>1, GateInvariant, PTL

\* No held body is orphaned: its preview is on its way or its window is open.
THEOREM HeldIsNotForgotten == Spec => []HeldHasAWayOut
<1>1. IInv => HeldHasAWayOut
  BY DEF IInv, GatesFit, GateFits, WayOut, HeldHasAWayOut
<1> QED
  BY <1>1, GateInvariant, PTL

\* No step opens a gate again that was closed, or brings its body back.
THEOREM ClosedStaysClosed == Spec => ClosedForGood
<1> DEFINE Kept == \A g \in Gates : release_state[g] \notin {"held", "released"} =>
                     /\ release_state'[g] = release_state[g]
                     /\ status'[Body(g)] \notin {"pending", "in_flight", "delivered"}
<1>1. ASSUME IInv, IInv', Next
      PROVE  Kept
  <2>1. \A g \in Gates : Moves(g)
    BY <1>1, NextMoves DEF IInv
  <2>2. \A g \in Gates : /\ release_state'[g] \in ReleaseState
                         /\ BodyFits(g)'
    BY <1>1 DEF IInv, TypeOK, GatesFit, GateFits
  <2> QED
    BY <2>1, <2>2 DEF Moves, BodyFits, ReleaseState
<1>2. IInv /\ IInv' /\ [Next]_vars => [Kept]_vars
  BY <1>1
<1> QED
  BY <1>2, GateInvariant, PTL DEF Spec, ClosedForGood
----------------------------------------------------------------------------
(***************************************************************************)
(* The gate as its destination sees it: ConsentGate.                       *)
(***************************************************************************)
\* A step of the abstract gate.
ConsentStep(g) ==
  \/ Consent!Show(g) \/ Consent!Answer(g) \/ Consent!Shut(g)
  \/ Consent!Send(g) \/ Consent!Return(g) \/ Consent!Stay(g)

\* A step that neither delivers the preview nor records an answer: the gate may be
\* closed, and the body of an open gate may leave or come back.
LEMMA QuietStep ==
  ASSUME TypeOK, TypeOK', NEW g \in Gates, GateFits(g), Moves(g),
         answer'[g] = answer[g],
         delivered_at'[Preview(g)] = delivered_at[Preview(g)]
  PROVE  ConsentStep(g)
<1>1. release_state[g] \in ReleaseState /\ release_state'[g] \in ReleaseState
  BY DEF TypeOK
<1>2. GateFits(g)'
  BY DEF Moves
<1>3. CASE release_state[g] = "held"
  <2>1. GateOf(g) = "held" /\ ~IsOut(g) /\ answer[g] = Null
    BY <1>3 DEF GateFits, BodyFits, AnswerFits, GateOf, IsOut
  <2>2. release_state'[g] # "released"
    BY <1>2, <2>1, NullFresh DEF GateFits, AnswerFits
  <2>3. ~IsOut(g)'
    BY <1>2, <2>2 DEF GateFits, BodyFits, IsOut
  <2>4. GateOf(g)' \in {"held", "shut"}
    BY <2>2 DEF GateOf
  <2>5. IsOut(g)' = IsOut(g)
    BY <2>1, <2>3 DEF IsOut
  <2>6. CASE GateOf(g)' = "held"
    BY <2>1, <2>5, <2>6 DEF ConsentStep, Consent!Stay
  <2>7. CASE GateOf(g)' = "shut"
    BY <2>1, <2>3, <2>7 DEF ConsentStep, Consent!Shut
  <2> QED
    BY <2>4, <2>6, <2>7
<1>4. CASE release_state[g] = "released"
  <2>1. GateOf(g) = "released" /\ answer[g] = "approve"
    BY <1>4 DEF GateFits, AnswerFits, GateOf
  <2>2. release_state'[g] # "held"
    BY <1>2, <2>1, NullFresh DEF GateFits, AnswerFits
  <2>3. CASE release_state'[g] = "released"
    <3>1. GateOf(g)' = "released"
      BY <2>3 DEF GateOf
    <3>2. IsOut(g) \in BOOLEAN /\ IsOut(g)' \in BOOLEAN
      BY DEF IsOut
    <3> QED
      BY <2>1, <3>1, <3>2 DEF ConsentStep, Consent!Send, Consent!Return, Consent!Stay
  <2>4. CASE release_state'[g] # "released"
    <3>1. GateOf(g)' = "shut"
      BY <2>2, <2>4 DEF GateOf
    <3>2. ~IsOut(g)'
      BY <1>2, <2>4 DEF GateFits, BodyFits, IsOut
    <3> QED
      BY <2>1, <3>1, <3>2 DEF ConsentStep, Consent!Shut
  <2> QED
    BY <2>3, <2>4
<1>5. CASE release_state[g] \notin {"held", "released"}
  <2>1. release_state'[g] = release_state[g]
    BY <1>5 DEF Moves
  <2>2. GateOf(g) = "shut" /\ GateOf(g)' = "shut"
    BY <1>5, <2>1 DEF GateOf
  <2>3. ~IsOut(g) /\ ~IsOut(g)'
    BY <1>2, <1>5, <2>1 DEF GateFits, BodyFits, IsOut
  <2>4. IsOut(g)' = IsOut(g)
    BY <2>3 DEF IsOut
  <2> QED
    BY <2>2, <2>4 DEF ConsentStep, Consent!Stay
<1> QED
  BY <1>3, <1>4, <1>5

\* The preview arrives: the gate is shown and nothing else changes for the
\* destination, although the window opens.
LEMMA RecordPreviewShows ==
  ASSUME TypeOK, TypeOK', JobsFit, NEW w \in Workers, RecordPreview(w),
         NEW g \in Gates, GateFits(g), Moves(g)
  PROVE  ConsentStep(g)
<1>1. PICK h \in Gates : h = job[w][1] /\ job[w] = Preview(h)
  BY RowFacts DEF RecordPreview, JobsFit
<1>2. answer'[g] = answer[g]
  BY DEF RecordPreview
<1>3. CASE delivered_at'[Preview(g)] = delivered_at[Preview(g)]
  BY <1>2, <1>3, QuietStep
<1>4. CASE delivered_at'[Preview(g)] # delivered_at[Preview(g)]
  <2>1. delivered_at' = [delivered_at EXCEPT ![Preview(h)] =
                           @ \/ Outcome(w) = "delivered"]
    BY <1>1 DEF RecordPreview, WriteRow
  <2>2. Preview(g) \in Rows /\ Preview(h) \in Rows /\ (Preview(g) = Preview(h) => g = h)
    BY RowFacts
  <2>3. /\ h = g /\ Outcome(w) = "delivered"
        /\ ~delivered_at[Preview(g)] /\ delivered_at'[Preview(g)]
    <3>1. /\ delivered_at \in [Rows -> BOOLEAN]
          /\ delivered_at[Preview(g)] \in BOOLEAN
      BY <2>2 DEF TypeOK
    <3>2. h = g
      BY <1>4, <2>1, <2>2, <3>1
    <3>3. delivered_at'[Preview(g)] = (delivered_at[Preview(g)]
                                         \/ Outcome(w) = "delivered")
      BY <2>1, <2>2, <3>1, <3>2
    <3> QED
      BY <1>4, <3>1, <3>2, <3>3
  <2>4. ~VoidsBody(g, Outcome(w)) /\ ~ExpiresBody(g, Outcome(w))
    BY <2>3 DEF VoidsBody, ExpiresBody
  <2>5. /\ release_state'[g] = release_state[g]
        /\ status' = [status EXCEPT ![Preview(g)] = "delivered",
                                    ![Body(g)] = @]
    <3>1. /\ status' = [status EXCEPT ![Preview(g)] = Outcome(w), ![Body(g)] = @]
          /\ release_state' = [release_state EXCEPT ![g] = @]
      BY <1>1, <2>3, <2>4 DEF RecordPreview
    <3>2. release_state \in [Gates -> ReleaseState]
      BY DEF TypeOK
    <3> QED
      BY <2>3, <3>1, <3>2
  <2>6. status'[Body(g)] = status[Body(g)]
    <3>1. /\ status \in [Rows -> Status]
          /\ Body(g) \in Rows /\ Body(g) # Preview(g)
      BY RowFacts DEF TypeOK
    <3> QED
      BY <2>5, <3>1
  <2>7. GateOf(g)' = GateOf(g) /\ IsOut(g)' = IsOut(g)
    BY <2>5, <2>6 DEF GateOf, IsOut
  <2> QED
    BY <1>2, <2>3, <2>7 DEF ConsentStep, Consent!Show
<1> QED
  BY <1>3, <1>4

\* ingest_decision answers once, or finds the window closed.
LEMMA DecideAnswers ==
  ASSUME TypeOK, TypeOK', GatesFit, RequestsFit, NEW r \in Requests, Decide(r),
         NEW g \in Gates, Moves(g)
  PROVE  ConsentStep(g)
<1>0. GateFits(g) /\ UNCHANGED delivered_at
  BY DEF GatesFit, Decide
<1>1. CASE answer'[g] = answer[g]
  BY <1>0, <1>1, QuietStep
<1>2. CASE answer'[g] # answer[g]
  <2>1. PICK h \in Gates : h = request[r].gate /\ Held(h)
    BY DEF Decide, RequestsFit
  <2>2. /\ delivered_at[Preview(h)]
        /\ answer' = [answer EXCEPT ![h] = IF InTime(r) THEN request[r].decision
                                           ELSE @]
    BY <1>2, <2>1 DEF Decide
  <2>3. h = g /\ InTime(r) /\ answer'[g] = request[r].decision
    BY <1>2, <2>2 DEF TypeOK
  <2>4. request[r].decision \in {"approve", "deny"}
    BY DEF TypeOK, Request
  <2>5. /\ release_state' = [release_state EXCEPT
                               ![g] = IF request[r].decision = "deny"
                                      THEN "release_denied" ELSE "released"]
        /\ status' = [status EXCEPT ![Body(g)] =
                        IF request[r].decision = "deny" THEN "release_denied" ELSE @]
    BY <1>2, <2>1, <2>3 DEF Decide
  <2>6. /\ release_state'[g] = IF request[r].decision = "deny"
                               THEN "release_denied" ELSE "released"
        /\ status'[Body(g)] \in {"release_denied", "pending"}
    BY <2>1, <2>3, <2>5, RowFacts DEF TypeOK, Held
  <2>7. GateOf(g) = "held" /\ ~IsOut(g) /\ answer[g] = Null
    BY <1>0, <2>1, <2>3 DEF Held, GateOf, IsOut, GateFits, AnswerFits
  <2>8. /\ GateOf(g)' = IF request[r].decision = "deny" THEN "shut" ELSE "released"
        /\ ~IsOut(g)'
    BY <2>6 DEF GateOf, IsOut
  <2>9. delivered_at[Preview(g)] /\ delivered_at'[Preview(g)]
    BY <1>0, <2>2, <2>3
  <2>10. IsOut(g)' = IsOut(g) /\ delivered_at'[Preview(g)] = delivered_at[Preview(g)]
    BY <1>0, <2>7, <2>8 DEF IsOut
  <2>11. Consent!Answer(g)
    BY <2>3, <2>4, <2>7, <2>8, <2>9, <2>10 DEF Consent!Answer
  <2> QED
    BY <2>11 DEF ConsentStep
<1> QED
  BY <1>1, <1>2

\* No other action touches what the destination was shown or answered.
LEMMA QuietActions ==
  ASSUME TypeOK, JobsFit, [Next]_vars,
         \A w \in Workers : ~RecordPreview(w),
         \A r \in Requests : ~Decide(r),
         NEW g \in Gates
  PROVE  /\ answer'[g] = answer[g]
         /\ delivered_at'[Preview(g)] = delivered_at[Preview(g)]
<1>1. ASSUME NEW w \in Workers, RecordBody(w)
      PROVE  /\ answer'[g] = answer[g]
             /\ delivered_at'[Preview(g)] = delivered_at[Preview(g)]
  <2>1. PICK h \in Gates : h = job[w][1]
    BY <1>1, RowFacts DEF RecordBody, JobsFit
  <2>2. delivered_at' = [delivered_at EXCEPT ![Body(h)] =
                           @ \/ Outcome(w) = "delivered"]
    BY <1>1, <2>1 DEF RecordBody, WriteRow
  <2>3. Preview(g) \in Rows /\ Preview(g) # Body(h)
    BY RowFacts
  <2>4. UNCHANGED answer
    BY <1>1 DEF RecordBody
  <2> QED
    BY <2>2, <2>3, <2>4 DEF TypeOK
<1>2. ASSUME NEW w \in Workers, WorkerStep(w) \/ WorkerDies(w), ~RecordBody(w)
      PROVE  UNCHANGED <<answer, delivered_at>>
  BY <1>2 DEF WorkerStep, ClaimNextEvent, Deliver, Refuse, LockPreview, WorkerDies,
              rowVars, gateVars
<1>3. ASSUME NEW r \in Requests, BeginDecision(r) \/ RequestStep(r)
      PROVE  UNCHANGED <<answer, delivered_at>>
  BY <1>3 DEF BeginDecision, RequestStep, IgnoreDecision, LockBody, rowVars, gateVars
<1>4. ASSUME NEW w \in Workers, NEW r \in Requests, BreakDeadlock(w, r)
      PROVE  UNCHANGED <<answer, delivered_at>>
  BY <1>4 DEF BreakDeadlock, WorkerDies, rowVars, gateVars
<1>5. ASSUME NEW h \in Gates, GateStep(h)
      PROVE  UNCHANGED <<answer, delivered_at>>
  BY <1>5 DEF GateStep, FanOutGatedEvent, ParkBody, VoidGatedBody, CancelEvent,
              ConsentDeadlinePasses, CutoffPasses, rowVars, gateVars
<1>6. ASSUME NEW x \in Rows, RowStep(x)
      PROVE  UNCHANGED <<answer, delivered_at>>
  BY <1>6 DEF RowStep, RequeueDelivery, ReviveDeadLetter, LeaseLapses, gateVars
<1>7. ASSUME Relocate \/ SweepExpiredGates \/ ExpireDueDeliveries
      PROVE  UNCHANGED <<answer, delivered_at>>
  BY <1>7 DEF Relocate, SweepExpiredGates, ExpireDueDeliveries
<1>8. ASSUME UNCHANGED vars
      PROVE  UNCHANGED <<answer, delivered_at>>
  BY <1>8 DEF vars, rowVars, gateVars
<1> QED
  BY <1>1, <1>2, <1>3, <1>4, <1>5, <1>6, <1>7, <1>8 DEF Next

\* The gate of app/release.py does nothing its destination did not agree to: with
\* all its threads, calls, sweeps and locks it implements ConsentGate.
THEOREM GateIsConsent == Spec => ActsAsConsentGate
<1> DEFINE view == <<[g \in Gates |-> GateOf(g)],
                     [g \in Gates |-> delivered_at[Preview(g)]],
                     answer, [g \in Gates |-> IsOut(g)]>>
<1>1. Init => Consent!Init
  <2> SUFFICES ASSUME Init PROVE Consent!Init
    OBVIOUS
  <2>1. \A g \in Gates : GateOf(g) = "held" /\ delivered_at[Preview(g)] = FALSE
    BY RowFacts DEF Init, GateOf
  <2>2. \A g \in Gates : ~IsOut(g)
    BY RowFacts DEF Init, IsOut
  <2>3. ASSUME NEW g \in Gates PROVE IsOut(g) = FALSE
    BY <2>2 DEF IsOut
  <2>4. answer = [g \in Gates |-> Null]
    BY DEF Init
  <2> QED
    BY <2>1, <2>3, <2>4 DEF Consent!Init
<1>2. IInv /\ IInv' /\ [Next]_vars => [Consent!Next]_view
  <2> SUFFICES ASSUME IInv, IInv', [Next]_vars
               PROVE  Consent!Next
    OBVIOUS
  <2>1. \A g \in Gates : ConsentStep(g)
    <3> TAKE g \in Gates
    <3>1. GateFits(g) /\ Moves(g)
      BY NextMoves DEF IInv, GatesFit
    <3>2. CASE \E w \in Workers : RecordPreview(w)
      BY <3>1, <3>2, RecordPreviewShows DEF IInv
    <3>3. CASE \E r \in Requests : Decide(r)
      BY <3>1, <3>3, DecideAnswers DEF IInv
    <3>4. CASE /\ \A w \in Workers : ~RecordPreview(w)
               /\ \A r \in Requests : ~Decide(r)
      <4>1. /\ answer'[g] = answer[g]
            /\ delivered_at'[Preview(g)] = delivered_at[Preview(g)]
        BY <3>4, QuietActions DEF IInv
      <4> QED
        BY <3>1, <4>1, QuietStep DEF IInv
    <3> QED
      BY <3>2, <3>3, <3>4
  <2>2. /\ [g \in Gates |-> GateOf(g)]' \in [Gates -> {"held", "released", "shut"}]
        /\ [g \in Gates |-> IsOut(g)]' \in [Gates -> BOOLEAN]
    BY DEF GateOf, IsOut
  <2>3. /\ [g \in Gates |-> delivered_at[Preview(g)]]' \in [Gates -> BOOLEAN]
        /\ answer' \in [Gates -> {Null, "approve", "deny"}]
    BY RowFacts DEF IInv, TypeOK
  <2> QED
    BY <2>1, <2>2, <2>3 DEF Consent!Next, ConsentStep
<1>3. Spec => Consent!Init
  BY <1>1, PTL DEF Spec
<1>4. Spec => [][Consent!Next]_view
  <2> HIDE DEF view
  <2> QED
    BY <1>2, GateInvariant, PTL DEF Spec
<1>5. Consent!Init /\ [][Consent!Next]_view => ActsAsConsentGate
  BY PTL DEF ActsAsConsentGate, Consent!Spec
<1> QED
  BY <1>3, <1>4, <1>5, PTL
============================================================================
