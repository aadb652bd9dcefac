# A TLA+ development of the webhook event relay

The program (`src/env/app`) accepts events over HTTP, stores them in PostgreSQL,
fans each one out into one *copy* (`deliveries` row) per subscribed address
(`destinations` row), delivers the copies by webhook, and closes each copy when
the receiver's receipt arrives.  Three kinds of process share one database and
nothing else:

* `ingest-api` (`main.py`): FastAPI endpoints for producers, receivers, operators;
* `worker` (`worker.py`): delivery threads, each with a heartbeat thread, and one
  confirmer thread per process;
* `reconciler` (`reconciler.py`): a periodic sweep of overdue copies.

The database rows *are* the queue.  Everything that can go wrong goes wrong
between two transactions of two processes, which is what the modules model.

## 1. Inventory

| component | state | operations | what makes it correct |
|---|---|---|---|
| delivery queue, worker threads (`worker.py`, `main.py`) | `destinations.status/failure_count/recoverable_at/paused_*`, `deliveries.status/attempts/claim_token/lease_until/...`; per thread: the claimed row, the HTTP result, the heartbeat's `lost` flag | claim (reap, expire, supersede, claim), heartbeat, deliver, record_result; requeue, revive, recover, pause, resume, relocate | one copy in flight per destination and strict queue order, as far as the claim statement gives them; only the owner of a claim writes its result; isolation follows the tally; closed copies stay closed; the queue drains |
| latest-delivery cutoff (`deadlines.py`) | `deliver_by` | expiry of queued copies (worker and reconciler), of in-flight copies (record_result), change by an operator | no attempt after the cutoff; what was delivered is never reported as missed |
| receipts and sweep (`receipts.py`, `reconciler.py`) | `reconcile_state`, `reconcile_deadline`, `requeue_count` | receipt, sweep, parking | the countdown runs only after a delivery; an acknowledgement is final; the requeue budget holds |
| activation handshake (`confirmation.py`, confirmer) | `confirmation_state/round/generation`, `challenge_token/expires_at`, `next_probe_at` | register, relocate, reissue, expire, probe, echo | confirmed only by the challenge of the current round, sent to the current location |
| preview-consent gate (`release.py`) | `phase`, `release_state`, preview/body links | nod, deny, consent expiry, void | the body is never sent before the nod of the same address |
| relay chains (`relay.py`) | `relay_chain_id`, `relay_station_no`, versioned definitions | station gate in the claim, stop cascade | station n+1 is sent only after station n acknowledged; a stop closes the tail |
| event-wide operations (`main.py`) | `events` row plus its copies | cancel, reschedule, deliver-by, event requeue, correct | what is cancelled stays unsent; what is acknowledged is not pulled again |
| aggregate status, ack thresholds (`main.py`) | derived from the copies; `required_ack_count` | pure | an acknowledged event stays so; no event reads pending for ever |
| inbound admission, fan-out (`ingest_auth.py`, `store_event` in `main.py`) | sources and secrets, `events` by `dedupe_key`, subscriptions, policies, active chains | authenticate, parse, insert, route, fan out; rotate, disable, enable, policy and chain endpoints | one event per key; a quorum that can be met; fan-outs do not interleave; no deadlock |
| subscription filters (`subfilters.py`) | filter documents | pure evaluation and validation | agrees with equality and order of JSON values |
| schema, settings, session, read-only endpoints | — | — | no protocol of their own |

How they interact: the API changes rows that a worker thread is using (requeue,
relocate, pause, receipt); several worker processes compete for the same rows
(`FOR UPDATE SKIP LOCKED`, claim tokens, leases); the reconciler and the receipt
endpoint compete for the same awaiting copies; the handshake decides which
generation of copies the queue may send; the preview gate and relay chains add
conditions to the same claim statement and react to the same outcomes.

What is hard to test is listed under `hazards` in `PROJECT.json`, each at its
line: lapsed leases and returning threads, the unlocked reads at the start of
`record_result`, copies that re-enter the queue under an old sequence number,
thresholds computed from two different counters, cutoffs racing results,
statement-level races of the claim's snapshot and of unlocked selects, a nod racing the consent sweep, the six
ways a relay station can stop, calls that judge an event by the present status of
its copies, and fan-outs that lock the same destinations.

## 2. Modules

| module | models | state ↔ code |
|---|---|---|
| `DeliveryQueue` | the queue, the worker threads, the cutoff of single-copy events, and the effect of receipts, sweep, operator calls and relocation on the rows | variables carry the column names; worker variables are the locals of `process_once`/`record_result` and the snapshot of a claim under way; per reconciler: the rows its CTE found |
| `MCDeliveryQueue` | instances of `DeliveryQueue` for TLC | |
| `DeliveryQueueProofs` | theorems about `DeliveryQueue` and their proofs | |
| `Handshake` | the activation handshake: `confirmation.py`, the confirmer threads, the destination endpoints | handshake columns of `destinations`; per confirmer: the claimed probe and the echo it got |
| `HandshakeProofs` | theorems about `Handshake` and their proofs | |
| `Reconcile` | receipts, sweeps and operator calls on delivered copies, statement by statement | reconciliation columns of `deliveries`; per receipt call: its open transaction; per reconciler: the rows its CTE found and those it has locked |
| `ReconcileProofs` | theorems about `Reconcile` and their proofs | |
| `PreviewGate` | the preview-consent gate: `release.py`, the consent and void endpoints, the worker and the sweep as far as they move a pair | `status`, `delivered_at` of preview and body; `release_state`, `consent_deadline` of the body; per worker and per consent call: what it holds and has read |
| `ConsentGate` | the abstract specification of a gate: shown, answered once, shut or released, its body out only while released | `gate`, `shown`, `answer`, `out` by pair |
| `RelayChain`, `MCRelayChain` | relay chains: `relay.py`, the claim gate, every caller of `cascade_after_stop` | `status`, `reconcile_state` by event and station; the chain an event was fanned out with; per reconciler: the rows its CTE found |
| `EventOps` | events with several copies: cancel, reschedule, deliver-by, event requeue, corrections, thresholds, the derived status | `status`, `reconcile_state` by event and destination; per call: which rows it has locked; per reconciler: the rows its CTE found |
| `Ingest`, `MCIngest` | admission and `store_event`, statement by statement, with the endpoints that change sources, subscriptions, policies and chains meanwhile | `events` by `dedupe_key`, the rows of `deliveries` with their `destination_seq`; per request: its next statement and what its earlier ones read |
| `EventStore` | the abstract specification of a push: its event, its copies and its answer appear in one step, the copies at the end of the queues | `stored`, `rows`: the committed rows of `events` and `deliveries`; `answer`: `ingestion_attempts` by request |
| `PreviewGateProofs`, `RelayChainProofs`, `EventOpsProofs`, `IngestProofs` | theorems about these four and their proofs | |
| `SubFilters` | `evaluate`, `json_equal` and `validate_filter_spec` as recursive operators | JSON values as `<<type, content>>` |

The modules share rows, not variables: `DeliveryQueue` sees a relocation or a
receipt as one committed step, `Handshake` and `Reconcile` open those steps up, and
`Ingest` opens up the fan-out that the others take as one step.  The sweep is open,
select and update, in every module that has it.  `PreviewGate`, `RelayChain` and
`EventOps` each take the rows of the queue with the conditions their feature adds and
leave leases, isolation and the claim's snapshot to `DeliveryQueue`: in `RelayChain`
and `EventOps` any copy that may go may be claimed, more than the claim statement
allows, so that no property of theirs rests on queue order or on one flight at a
time.  `MCIngest`
joins `Ingest` and `SubFilters`: the conditions of its subscribers are judged by
`evaluate`.
Operators named as a *Fault* in a comment are plausible wrong versions of the
definition that follows them; nothing in a specification uses them.

### DeliveryQueue

One action is one committed transaction, except where a transaction decides on rows
that it has not locked and writes later.  There are three such places.

* *The claim.*  CLAIM_SQL is one READ COMMITTED statement.  The candidate (nothing in
  flight, the head due, the destination open) is found on its snapshot; then the
  destination is locked and a copy picked, both with SKIP LOCKED.  Meanwhile another
  thread whose snapshot is older may claim and commit, and requeue, revive and receipt
  calls lock no destination.  A row that was only locked in between is not looked at
  again; one that was changed is tested again by itself, without the subqueries.
  `TakeSnapshot` is the housekeeping (REAP_SQL, `expire_due_deliveries`,
  SUPERSEDE_STALE_SQL: `Reaped`, `Overdue`, `Superseded`) with the snapshot: `view` is
  the line of a `Candidate`.  `ClaimNextEvent` is the pick: any copy of the view that
  is still pending and due, provided that the older ones still in the queue
  (`Passed`) are held by others.  Who holds them is left open: a receipt
  (receipts.py:38), a call for the event, another claim, the deliver-by sweep.
  `passed_over` and `overlap` are history, for stating what the locks let happen.
* *The sweep.*  SWEEP_SQL selects without a lock (`SweepSelect`) and updates by id
  (`SweepCommit`), whatever the row has become.
* *The result.*  `RecordCheck` is `still_owns_lease` and the generation read, both
  without a row lock; `RecordWrite` is the writing statement, whose own WHERE
  clause (id, `in_flight`, token) is evaluated again.

`WorkerDies` covers a killed process and every rolled-back `record_result`: the row
keeps the claim.  Receipts and operator calls are one action each.

Abstractions of data, none of them of control:

* *Time.*  No clock.  A timestamp that the code compares with `now()` is `Null`,
  `"future"` or `"past"`; an action of its own lets it pass.  `due` stands for
  `next_attempt_at <= now()` and `not_before <= now()` together.
* *Urls.*  A relocation always bumps the generation, so the generation also names
  the url a call goes to.
* *Counters.*  `attempts` is compared only with the failure threshold and
  `requeue_count` only with `MAX_REQUEUE_CYCLES`; both saturate there, which
  loses nothing.  `consecutive_failures` and `failure_count` are unbounded `Nat`s
  that the invariants bound.
* *Limits.*  The LIMIT 200/500 of the housekeeping statements and
  `ORDER BY delivery_due_at` between destinations are dropped: one transaction
  tidies every row that it finds and no other transaction holds, and any destination
  that qualifies may be picked.
* *Tokens.*  `uuid4` is a choice of a token that no row and no thread holds.
* `PickedHasDeliverBy`.  CLAIM_SQL reads `picked.deliver_by` (worker.py:219), and
  the subquery `picked` (182-184) does not select that column.  As the statement
  stands PostgreSQL refuses it, `process_once` logs the error and no copy is ever
  claimed.  The constant says whether the column is selected.  FALSE is the
  repository; the run `claim_statement` shows what follows.  Every other run sets
  it to TRUE, the evident intention, because otherwise nothing behind the claim
  would be reachable; the theorems hold for both values.

Left out of the module: previews and relay stations (their rows pass through the
same statements with further conditions and have modules of their own), audit
rows, logging, response bodies.

### Handshake

`ArmRound` is `arm_round`, called by `RegisterDestination`, `Relocate`,
`ReissueChallenge` and `ExpireDueRounds`.  A confirmer's pass
(`process_confirmation_once`) is three actions because the code has two windows:
`ClaimProbe` commits the claim, `SendProbe` is the HTTP call with the url and the
challenge read at the claim, `RecordProbe` is the result's transaction, which may
also fail.  `ConfirmDestination` is the endpoint: anyone who was told a challenge
may echo it, at any time, also long after its round.  `heard` and `issued` are
history: which challenge reached which location, and what each was issued for.
A challenge is a value that no round has used (`new_challenge_token` draws 32
random bytes).  Time is again an action per deadline.

### Reconcile

Here one action is less than a transaction.  `BeginReceipt` fixes `now()`, which in
PostgreSQL is the start of the transaction, so the field `expired` of an open
receipt is decided before the row is locked; a delivery made meanwhile sets a
deadline after that start and clears it.  `RetryReceipt` is one turn of the grace
loop (a rollback and a new transaction); `IngestReceipt` is the rest, from the row
lock to the commit.  `SweepSelect` is the snapshot read of the CTE `expired`,
`SweepRow` the UPDATE reaching and locking one of its rows, `SweepCommit` the
commit.  Rows are reached in any order, so two sweeps may deadlock; PostgreSQL
then fails one of them and the rows it held go to the other, which is already
waiting for them (`SweepDeadlocks`; a cycle of three or more sweeps is left to
`SweepFails`, which stands for any other database error).  `Free` and `WaitsFor`
are PostgreSQL's row locks, not code of the repository.  Copies are taken to be at a confirmed, current location, the
condition of requeue and revive that `DeliveryQueue` models.  `Legacy` copies were
delivered before reconciliation existed and have no countdown.

### PreviewGate

One destination; a gate is a preview/body pair.  `ingest_decision` locks the body
and then the preview, `record_result` of a preview the preview and then the body:
both are two steps (`LockBody`/`Decide`, `LockPreview`/`RecordPreview`), so they can
deadlock, and PostgreSQL fails one of them (`BreakDeadlock`).  Everything else is
one transaction, enabled when the rows it needs are free.  A consent call reads its
`now()` before it waits for the lock, so a nod is judged by the time it began
(`InTime`).  `GateOf`, `IsOut`, the preview's `delivered_at` and the answer are what
the destination notices of a pair; with them `PreviewGate` implements `ConsentGate`
(`ActsAsConsentGate`), in which there are no locks, deadlines or competing calls.

### RelayChain

Rows are `<<event, station>>`.  `Open` is the condition that CLAIM_SQL adds,
`Cascade` is `cascade_after_stop`, and each caller of it (worker result, receipt,
sweep, cutoff, relocation, supersede in the claim) is an action of its own.  An event
keeps the chain it was fanned out along; how chains are defined, versioned and
replaced is in `Ingest`.  A waiting station stays the head of its destination's queue
and holds the later copies back, as in the code; that is needed for `RunsEnd` only,
where the fair claim is the one of a `Candidate`.  `acked` is history: a success
receipt was applied, whatever a sweep wrote over it since.

### EventOps

`lock_event` and `lock_event_deliveries` are `BeginCall`; the judgement and the
writes are `FinishCall`.  In between the rows are locked: writers wait (`Free`), the
claim passes them over.  The claim is not restricted further: any copy that is ready
may go, since receipts, sweeps and other claims, which this module does not lock step
by step, make the pick skip a head as well.  `EventStatus`, `Acknowledged` and `Live`
are the counts of EVENT_WITH_COUNTS_SQL and the branches of `event_status` and
`event_response`.

### Ingest

A request is a program counter over the statements of `authenticate`,
`parse_event_body` and `store_event`.  Each statement sees what is committed when it
runs (READ COMMITTED); `SELECT ... FOR UPDATE` lists from a snapshot, waits row by
row in the order of the id and tests each row again (`Listed`, `LockDest`,
`StillListed`), while the subscription's condition, which is not locked, stays as
listed.  `Die` is a lost connection: the transaction is rolled back.  A signature is
the number of the secret it was made with.  PUT preview-policy and PUT relay-chain
are check and write, two steps each.  `deliveries` is a set of rows, and a request's
copies are planned as a set (`Copies`) that is inserted in the order `CopiedBefore`
gives: station by station, or by id with the preview first.

To everybody else a push is one step.  `StoredKeys`, `Visible` and `Answers` are what
other transactions see of the tables; with them `Ingest` implements `EventStore`
(`PublishesAtomically`): `Commit` is `Publish`, a lost insert race is `Duplicate`, a
refusal is `Reject`, and every other statement, a rollback included, shows nothing.
This says more than that one key makes one event: a copy never turns up in a queue in
front of a copy that a worker could already see, although sequence numbers are drawn
long before they are committed.

### SubFilters

A direct reading of `subfilters.py`.  Strings are sequences of tokens; `Index` knows
the digits in use.  `ConditionLaws` compares `json_equal` with equality of a normal
form, the operators with each other over all small values, and validation with
evaluation.

## 3. Runs

Each run uses the configuration named in `PROJECT.json`.

| run | instance | distinct states | shows |
|---|---|---|---|
| `queue_safety` | 1 destination, 2 copies, one a correction, 2 threads, 3 tokens, 1 sweeper, 1 operator call, 1 fault | 853 000 | what is left of exclusivity and order under snapshots and SKIP LOCKED; one owner per copy; dead letters exactly at the limit; an active destination below its threshold; countdown after delivery; closed copies closed but for a late sweep |
| `queue_deadlines` | a copy with a cutoff, 2 threads, 3 tokens, 1 sweeper, a second destination that is paused or moves, 1 operator call, 1 fault, fair | 205 000 | no attempt after the cutoff; the four ways a flight ends, the close without a token among them; the copy leaves the queue through failures, isolation, worker death and relocation, whatever becomes of the neighbour |
| `handshake_rounds` | 1 destination, 2 urls, 2 confirmers, 3 challenges, fair | 191 000 | only the current challenge, echoed in time from the current location, confirms; unanswered rounds are replaced and probing goes on |
| `reconcile_races` | 1 new and 1 legacy copy, 2 receipt calls, 2 sweepers, fair | 521 000 | one receipt per delivery; timeouts are not reversed; no copy awaits for ever |
| `preview_gate` | 1 pair with a cutoff, 2 threads, 2 consent calls, 1 operator call, 1 fault, fair | 369 000 | no body without its nod; gate and answer agree; every step is one of `ConsentGate`; a held body always has a way out and takes it |
| `relay_runs` | 2 events whose chains cross 2 destinations in opposite orders, one with a cutoff, 1 sweeper, 1 operator call, fair | 425 000 | station after station; every stop closes the tail for good, unless a sweep took a receipt back; crossing runs end |
| `event_ops` | an event and its correction, 2 destinations, 1 locked call, 1 sweeper, 2 operator calls, fair | 652 000 | acknowledged and cancelled are final but for a late sweep; nothing is pulled from an acknowledged event; the status settles |
| `ingest` | 2 requests, 2 keys, 2 destinations (one observes), 1 condition, 1 chain, 1 operator call, 1 fault, fair | 337 000 | a push is one step of `EventStore`, so one event per key; a quorum that can be met; serial fan-outs; only confirmed destinations served; every request ends; laws of the conditions |
| `claim_statement` | finding | | nothing is delivered with the claim statement as written |
| `swept_acknowledgement` | finding | | a sweep overwrites an acknowledgement |
| `gated_and_chained` | finding | | two configuration calls leave a type gated and chained |
| `two_in_flight` | finding | | two copies of one destination are sent at the same time |

*Why the bounds are enough.*  Queue: two copies of one destination are the least with an
order and a competitor; a requeued or revived copy under an older number next to
a younger one in flight needs exactly two.  Two threads are the least for a lost
lease and its successor, and for a claim beside an older snapshot; the third token
lets a copy be claimed again while a thread that lost it still holds the old token.
One sweep that is late is enough to overwrite; two of them are in `Reconcile`.
`FailureThreshold = 1` with `MaxDeliveryAttempts = 2` makes isolation come before the
dead letter, and `MaxRequeueCycles = 0` lets the first sweep park a copy.
`MaxOperatorCalls = 1` (requeue, revive, recover, pause, relocate, deliver-by) brings
one copy back, which is what it takes for a stale sweep or a stale snapshot to meet
it; the theorems have no such bound.  Queue order and exclusivity are asked in
`queue_safety`, which has no cutoffs; cutoffs, and the close without a token, in
`queue_deadlines`, where one copy and two threads are the least for a loser and its
successor.  `MaxFaults = 1` is one worker death or one lease lapsed under a live
thread.
Symmetry: tokens and threads are interchangeable; copies too where all have the
same destination and the same flags; not used with liveness.
Handshake: the number of challenges bounds the rounds; three give a round, its
successor and a third that finds echoes of both under way.  Two confirmers are
the least for a late result next to a new probe.  Several destinations, one of
which takes over the location another has left, are covered by the theorems.
Reconcile: two receipt calls are the least for a duplicate, two sweeps for one
that overwrites the other's work; `MaxRequeueCycles = 1` makes one requeue reach
the budget and `MaxOperatorCalls` is 1, or 2 where a run needs a second cycle.
PreviewGate: one pair is enough for every property but queue order, which
`DeliveryQueue` has; two threads give a late result next to a new attempt, two
consent calls a nod against a deny.  RelayChain: two stations are the least with a
tail, two events the least that cross; longer tails repeat the second station.
EventOps: two copies are the least for a threshold below all of them; one locked
call, since two calls for one event wait for each other; cutoffs come from the
deliver-by call, one of the two operator calls.  Ingest: two requests for a race over a key or two destinations;
`AckThreshold = 2` is above the number of for-real subscribers.
`CHECK_DEADLOCK FALSE` is set where everything comes to rest once requests and
bounded calls are used up.

*Fairness* (`Fairness` in `DeliveryQueue`).  Weak fairness of snapshot, pick, HTTP
outcome and the two halves of `record_result`: `worker_loop` polls for ever and
catches every exception, `httpx.Client` has a timeout.  A thread that is again and
again able to claim the head of its view does so (`ClaimHead`, strongly fair): row
locks last one short transaction, so no row is locked at every pick for ever.  The
deliver-by sweep gets to every overdue copy for the same reason.  Weak fairness of the
passing of backoff, quarantine and lease.  Nothing is assumed of operators, receivers,
the sweep of receipts, the passing of `deliver_by` or faults.

`Handshake`: `confirmer_loop` polls for ever and its HTTP client has a timeout,
hence weak fairness of each part of a pass and of the passing of rounds and
backoffs; the claim of a *particular* destination is strongly fair, since due
destinations are taken in the order of `next_probe_at`.  Nothing is assumed of the
receiver.  `Reconcile`: the reconciler's loop sweeps for ever, a statement that is
not failed ends, PostgreSQL resolves deadlocks, deadlines pass; database errors are
finitely many (`MaxFaults`).  Nothing is assumed of receivers and operators.
`PreviewGate`: as in the queue, with the sweep of the reconciler and the consent
deadline; a worker's step is strongly fair, because PostgreSQL serves the waiters of
a row lock in turn.  `RelayChain`, `EventOps`: the head of a free destination is
claimed in the end, HTTP calls end, calls of the API end, a missing receipt is swept;
in `RelayChain` results are strongly fair: not every attempt is lost to a dead
thread.  `Ingest`: weak fairness of a request's
next statement; it runs in its own thread of the pool.

## 4. Proofs

`DeliveryQueueProofs` proves, for every set of destinations, copies, threads,
reconcilers and tokens and all limits (`QueueAssumption` is the only assumption):
`TypeCorrect`, `FirstFlightsAreSerial`, `OwnersAreExclusive`, `QueueOrder`,
`ParkedInTime`, `ActiveMeansBelow`, `CountdownIsAfterDelivery` (invariants) and
`SecondFlightsOverlap`, `ClosedIsClosed`, `CutoffStopsAttempts`,
`FlightsAreConcluded` (action properties).  They rest on `QueueInvariant`,
`Spec => []IInv`, with

    IInv == Ownership /\ Reconciliation /\ ActiveIsBelowThreshold /\ Streaks /\ Order
              /\ Cutoffs

None of the safety properties is inductive alone; the conjuncts say why they hold.
One flight per destination and strict order are not among them, because the code does
not give them (section 5): the theorems say what it gives instead.

* *Ownership.*  A busy thread holds a claim of its own (`ClaimsFit`), and the tokens
  of busy threads differ (`TokensDiffer`); so two threads never both own one copy.
  Nothing is said of the tokens of rows that are not in flight: a late sweep parks a
  copy in flight and leaves its token.
* *Reconciliation.*  A receiver's verdict, or the wait for it, stands on delivered rows
  only (`AwaitedIsDelivered`; a failed receipt may also have parked the row): a
  receipt cannot touch a queued copy.
* *ActiveIsBelowThreshold* holds with any number of flights: every statement that
  writes the tally decides on the tally it writes.
* *Streaks.*  The streak a thread read when it claimed is still the row's while
  the thread owns it (`OwnersStreak`), so the stale value in the dead-letter
  decision is right; a delivered row's streak is 0 (`StreakReset`), so a requeue
  starts below the limit.
* *Order.*  No sequence number is above the destination's `next_event_seq`
  (`Numbered`) and `attempts` tells the copies that were tried from the others
  (`Tried`).  The heart is `ViewsFit`: however old a snapshot is, it has every older
  copy that still awaits or makes its first attempt, but for those that were locked
  when a statement came past.  So the pick can run ahead of such a copy only by
  passing it over.  `OverlapsKnown` says that whatever is in flight beside a snapshot
  was claimed after it was taken.
* *Cutoffs.*  A thread's row exists (`ClaimedExist`), and a result that was found
  late is late by a `deliver_by` that the row still has (`LateByCutoff`).  This is
  what a thread without the token needs before it may close a flight: the third way
  in `OnlyOwnerConcludes`.

`HandshakeProofs` (assumption `HandshakeAssumption`): `HandshakeTypes`,
`OnlyTheLocationConfirms`, `ChallengesAreLocal`, `RoundsStayOpen` (invariants) and
`ConfirmationIsInTime` (action property), from `HandshakeInvariant` with
`IInv == TypeOK /\ Rounds /\ Probes`.  *Rounds* says that a challenge was issued
once, for one destination, location and round, and that whatever a location heard
was issued for it; *Probes* says the same of what the confirmers hold between
claim and result.  Without *Probes* an echo on its way could confirm anything.

`ReconcileProofs` (assumption `ReconcileAssumption`): `ReconcileTypes`,
`ReceiptsApplyOnce`, `AcknowledgedRests` (invariants) and `TimeoutsStand` (action
property), from `ReconcileInvariant` with `IInv == TypeOK /\ Verdicts`.  The two
facts the invariants lack are that a copy awaiting its receipt is delivered
(`AwaitingIsDelivered`) and that a delivered copy without a countdown has had no
receipt (`LegacyIsFresh`).  Nothing relates the rows a sweep found to their
present state, and nothing could: that is the finding `swept_acknowledgement`.
The proofs show what holds all the same.

`RelayChainProofs` (assumption `RelayAssumption`): `StationsInOrder`,
`StopsShutTheTail` (invariants) and `SkippedStaysSkipped` (action property), from
`RelayInvariant` with `IInv == TypeOK /\ Runs`.  The properties speak of
neighbouring stations and of the first stop, which no step preserves: the stop of
station 1 has to say something about station 3.  *Runs* says it of every pair of
stations: ahead of a contacted station all have given a success receipt
(`ReachedInOrder`), behind any that stopped without one all are shut (`TailsShut`).
`VerdictsFit` keeps the two apart under a late sweep: what a sweep found was delivered
once, so a row that it stops has either a success receipt behind it, or nothing
contacted behind it, and then its cascade shuts the tail.  `RoutesFit` confines copies
to the stations of the run.  Each
caller of `cascade_after_stop` is a case of its own.

`PreviewGateProofs` (assumption `GateAssumption`): `NodComesFirst`, `AnswersMatch`,
`HeldIsNotForgotten` (invariants), `ClosedStaysClosed` (action property) and
`GateIsConsent` (the refinement of `ConsentGate`), from `GateInvariant` with
`IInv == TypeOK /\ GatesFit /\ RequestsFit /\ JobsFit`.
*GatesFit* is the table of the states that a gate, its two copies, its answer and its
deadline can be in together.  *RequestsFit* covers the two windows: between `LockBody`
and `Decide` the gate is still held, by one call only, and a call that began too late
is still too late.  *JobsFit* says that only results of previews are recorded in two
steps.  The refinement needs no case per action: in a step that neither delivers the
preview nor records an answer, `GatesFit` before and after leaves only a gate that is
shut, or a body that leaves or comes back while the gate stays released (`QuietStep`:
held and released need different answers).  `RecordPreview` and `Decide` remain;
`RecordPreviewShows` and `DecideAnswers` are about them, the second from *RequestsFit*:
what a decision has locked is still held and unanswered.  `ClosedForGood` follows in
essence from the refinement; it is kept as a theorem in its own words and not repeated
in the runs.

`EventOpsProofs` (assumption `EventAssumption`): `AcknowledgedIsNotPulled`
(invariant), `AcknowledgedEventsStay`, `CancelledEventsStay` (action properties), from
`EventInvariant` with
`IInv == TypeOK /\ VerdictsFit /\ CopiesFit /\ CallsFit /\ CancelledFit /\ SweepsFit`.
The counts are cardinalities, so the action properties go through `StoredMove`: no step
adds a copy to a stored event, and none but a late sweep over the copy makes a closed
copy live or takes an acknowledgement back; hence the acknowledged copies can only grow and the live ones only shrink
(`FS_Subset`), while the threshold stands.

`IngestProofs` (assumption `IngestAssumption`): `PushesMakeOneEvent`,
`QuorumIsReachable`, `FanOutsDoNotMix` (invariants), `CopiesGoToTheConfirmed`
(action property) and `PushIsAtomic` (the refinement of `EventStore`), from
`IngestInvariant` with

    IInv == TypeOK /\ EventsFit /\ AnswersFit /\ LocksFit /\ RowsFit /\ PlanFits
              /\ CopiesDiffer /\ PairsFit /\ StoredFirst /\ QuorumWithinCopies

* *EventsFit, AnswersFit.*  An event has one request, which has it open or has
  committed it; so two requests never fan out one key.
* *LocksFit.*  A destination is locked by one request, to its end, and one that was
  found confirmed under the lock stays so; stations are all locked before the first
  copy.
* *RowsFit.*  Rows that are not committed are the last ones of destinations that their
  request has locked, and are as many as a rollback subtracts from `next_event_seq`.
  Without this a rollback could give a place twice.
* *PlanFits.*  What is inserted and what is still to be inserted make up `Copies`, and
  `required_ack_count` was computed from the same plan.  At the commit nothing is left
  to insert, so an injection from the subscribers (or stations) that count into the
  rows bounds the quorum (`AllInserted`).
* *PairsFit, StoredFirst.*  A preview without its body is the last row of a destination
  that its request has locked; only stored events have rows of others behind them, so
  no new row can turn an order round.

`PushIsAtomic` adds `OpenFit`: a request that has not ended has no answer, and one
that inserts copies has decided on it.  `Invisible` shows that a statement other than
the commit changes nothing that is committed: a new row belongs to an event that is
not stored, and so do the rows a rollback takes away.  `CommitPublishes` reads the
fan-out off the invariant: the rows are behind the visible ones by `StoredFirst`, the
pairs are complete by `PairsFit` because nothing is left to insert, and a destination
gets one copy or one pair by `CopiesDiffer` and `PlanFits`.  `OneEventPerKey` follows
from the refinement; it is kept as a theorem in its own words.

The type invariants (`TypeOK`) of all modules are proved and not repeated in the
runs.  Constants that the proofs need are assumed only to be what the
code makes them: chains name a station once (`relay.py:151`), `Null` is none of the
values it stands beside, destinations are finitely many.

Model-checked only: `QueueDrains`, `PendingIsProbed`, `RoundsEnd`, `AwaitingEnds`,
`HeldEnds`, `RunsEnd`, `EventsSettle` and `RequestsEnd` (liveness under fairness is
out of the prover's reach) and `ConditionLaws` (so are recursive operators, which
nested conditions need).  Every other property that a passing run checks is a theorem.

## 5. Findings

`PROJECT.json` quotes, for the four below, the line of the documentation that the
code contradicts, and names the run whose counterexample shows it.

* `claim_statement`: CLAIM_SQL reads a column its subquery does not select.
* `swept_acknowledgement`: SWEEP_SQL updates by id what it read from a snapshot.
* `gated_and_chained`: the two configuration endpoints check each other's table
  without a common lock.
* `two_in_flight`: CLAIM_SQL looks for flights on its snapshot and not again once it
  has the destination.  Nothing else gives a second flight
  (`SecondFlightOnlyByOverlap`), and the older copy of the two was sent before or was
  locked (`FreshQueueIsSerial`).

Further disagreements met while modelling (README n is line n of `src/env/README.md`).
The models contain the behaviour; no
run of the present set asks for them by name.

* `worker.py:712`: `recoverable_at` is computed from the copy's attempts, isolation
  from the destination's tally, so a destination can be isolated without a recovery
  time (`QueueDrains` excepts this case).  README 279 promises recovery.
* `worker.py:725`: the generation is read without a lock, so a failure at the old
  location can be charged to the new one (README 65).
* `deadlines.py:84`: a delivered and requeued copy is closed as `deadline_expired`
  (README 248, 249).
* `deadlines.py:199`: `expire_in_flight_delivery` does not ask for the claim token;
  when `deliver_by` is moved, a thread that lost its claim can close its successor's.
  `OnlyOwnerConcludes` names this as the third way a flight ends.
* `reconciler.py:47-61`: besides an acknowledgement (`swept_acknowledgement`) the
  update by id overwrites whatever the row has become.  A copy that was requeued and is
  pending or in flight reads `timed_out` (README 270 says `none`), or is parked in
  mid-flight: the fourth way in `OnlyOwnerConcludes`.  A cancelled copy can be parked,
  and revived by an operator (README 268); a skipped station too.  A relay run can be
  stopped at a station behind which another was already sent; if that one fails, it
  waits for an acknowledgement that was given and taken back, and holds its
  destination's queue for ever (the exception in `RunsEnd`).
* `worker.py:281-299`: SUPERSEDE_STALE_SQL has the shape of the sweep, select and
  update by id, so a reaped copy of an old location that is expired, cancelled or
  skipped at the same moment ends as `superseded`.  All of these are closed states; the
  modules take the statement as one step and do not show this.
* `main.py:2537`: cancel looks at the present status, so an event whose copy was
  delivered and requeued can still be cancelled (README 268).
* `receipts.py:54`: a late receipt leaves a copy `timed_out` whatever its requeue
  budget, and requeue has no cap (README 362).
* `worker.py:211`: under SKIP LOCKED a copy overtakes an earlier one that a receipt, a
  call for its event or the deliver-by sweep holds (README 256-259); `NoOvertaking`
  says that nothing else lets it.  A held body is overtaken as well, by design of the
  gate.
* `worker.py:90-97` says a waiting relay station is skipped; it stays the head of its
  queue and the later copies wait.  `RunsEnd` shows that this cannot become circular.
* `main.py:356-366`: an event with only observing copies, one delivered and one dead
  letter, reads `pending` for ever (README 660); `EventsSettle` is about events with
  for-real copies.
* `main.py:2707-2711` says the call never waits for another delivery; the receipt of
  a relay station locks the later stations too.
* `create_correction` does not look at `cancelled_at` (README 123), and a preview
  policy sent as null gates the type with the default timeout (README 135).
* `ingest_auth.py:141-151`: a send time that is no number is refused before the
  refusal can be recorded, against the docstring at 11-13; `Verdict` has it first.
* `subfilters.py:141`: `isdigit` accepts digits that `int` refuses, so evaluation is
  not total on such a path; `subfilters.py:210`: the negation of an unknown shape is
  true, where the docstring says that unknown shapes withhold.  Neither passes
  validation in a way `ConditionLaws` could meet: the first is outside its segments,
  the second is not accepted.

## 6. Plan

Done: all components of section 1 that have a protocol are modelled and
model-checked; every safety property the passing runs check is proved but
`ConditionLaws` (recursive operators, section 4), and so are the two refinements, of
`EventStore` and `ConsentGate`.

Next, should the code change: if the claim tests `other_in_flight` again under the
destination's lock and the sweep tests `reconcile_state` in its update,
`OneInFlightPerDestination` and `AcknowledgedIsFinal` become invariants, and the
exceptions in `NoOvertaking`, `ClosedStaysClosed`, `NothingWaitsBehindAStop`,
`AcknowledgedForGood` and `CancelledForGood` can go one by one.

## 7. Not modelled

* Schema and migrations: idempotent statements run once at start-up; the column
  domains appear as type invariants.
* Request and response models: data layout.  Settings and sessions: constants here.
* Read-only endpoints (lists, traces, summaries): they change no state; the two
  views that carry a judgement, `event_status` and the relay view, are modelled.
* `scripts/mock_receiver.py`: a test double for receivers, which the models leave
  free to answer anything.
* Gated bodies, relay stations and withheld copies in the derived status: `EventOps`
  has ordinary copies and corrections, for which those counts are zero.
* `PreviewGate` takes a claim as one step.  Its properties relate a body to its own
  preview and do not use queue order or exclusivity; the pick tests the gate's columns
  on the row it locks.  Previews have no receipts, so no sweep meets a gate before its
  body is released.
* `Handshake.ApplyEcho` has one instant for `now()` and for the row lock.  In the code
  `now()` is the start of the transaction (confirmation.py:232), so an echo that waits
  for the row can be judged by a time a moment before the round ran out.
* `SubFilters.Index` leaves out path segments for which `isdigit` holds and `int`
  raises (subfilters.py:141-142).
* `EventOps.Free` counts the rows that calls of the module hold.  Locks of receipts and
  of the deliver-by sweep are not counted; the claim does not depend on it, since any
  ready copy may be claimed.
