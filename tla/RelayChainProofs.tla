------------------------- MODULE RelayChainProofs -------------------------
(***************************************************************************)
(* Theorems about RelayChain, for every set of events and destinations,    *)
(* every collection of chains and every value of the settings.             *)
(***************************************************************************)
EXTENDS RelayChain, WellFoundedInduction, TLAPS

\* Station x comes after station y on the same run.
Behind(x, y) == x[1] = y[1] /\ y[2] < x[2]

\* The station was tried at least once.
Contacted(x) ==
  delivered_at[x] \/ status[x] \in {"in_flight", "delivered", "dead_lettered"}

\* The station is closed, and nothing has ever arrived there.
Shut(x) == status[x] \notin {"pending", "in_flight", "delivered"}
             /\ ~delivered_at[x]

\* A standing verdict belongs to a delivered copy, and what was acknowledged or
\* found by a sweep was delivered once.  The timed_out of a sweep that came late
\* may be on any copy.
VerdictsFit ==
  \A x \in Rows :
    /\ reconcile_state[x] \in {"awaiting", "acknowledged"}
         => status[x] = "delivered"
    /\ status[x] = "delivered" => delivered_at[x]
    /\ reconcile_state[x] = "acknowledged" => acked[x]
    /\ acked[x] => delivered_at[x]
    /\ \A s \in Sweepers : x \in found[s] => delivered_at[x]

\* Copies exist for the stations of the run's chain only.
RoutesFit ==
  \A x \in Rows :
    /\ status[x] # "absent" => x[2] <= Len(route[x[1]])
    /\ status[x] = "absent" => ~delivered_at[x] /\ reconcile_state[x] = "none"

\* In front of a contacted station every station has said yes, not only the one
\* just before it.
ReachedInOrder ==
  \A x, y \in Rows : Behind(x, y) /\ Contacted(x) => acked[y]

\* Behind any stopped station, not only the first, everything is shut, unless
\* the station had said yes once.
TailsShut ==
  \A x, y \in Rows : Behind(x, y) /\ HasStopped(y) /\ ~acked[y] => Shut(x)

Runs == VerdictsFit /\ RoutesFit /\ ReachedInOrder /\ TailsShut
IInv == TypeOK /\ Runs

----------------------------------------------------------------------------
(***************************************************************************)
(* The operators of the model.                                             *)
(***************************************************************************)
\* A set of numbers has a first one.
LEMMA FirstExists ==
  ASSUME NEW S \in SUBSET Nat, S # {}
  PROVE  \E k \in S : \A j \in S : k <= j
<1> DEFINE R == {ss \in Nat \X Nat : ss[1] < ss[2]}
<1>1. IsWellFoundedOn(R, Nat)
  BY NatLessThanWellFounded, Zenon DEF OpToRel
<1>2. PICK k \in S : \A j \in S : ~(<<j, k>> \in R)
  <2> HIDE DEF R
  <2> QED
    BY <1>1, WFMin, Zenon
<1>3. \A j \in S : ~(j < k)
  BY <1>2
<1> QED
  BY <1>3

\* The status of every row is rewritten from st to new the way housekeeping and
\* cancel_event do it: queued copies are closed, and behind a station that is stopped
\* nothing stays in the queue.
Closes(st, new) ==
  /\ new \in [Rows -> Status]
  /\ \A x \in Rows :
       \/ new[x] = st[x]
       \/ /\ st[x] = "pending"
          /\ new[x] \in {"superseded", "deadline_expired", "relay_skipped",
                         "cancelled"}
  /\ \A x, y \in Rows :
       /\ Behind(x, y)
       /\ st[y] = "pending"
       /\ new[y] \in {"superseded", "deadline_expired"}
       => new[x] # "pending"

\* cascade_after_stop changes the type of no row.
LEMMA CascadeType ==
  ASSUME NEW S, NEW st \in [Rows -> Status]
  PROVE  Cascade(S, st) \in [Rows -> Status]
BY DEF Cascade, Status

\* Stopping queued stations and cascading behind them.
LEMMA StopCloses ==
  ASSUME NEW st \in [Rows -> Status],
         NEW s \in {"superseded", "deadline_expired"},
         NEW S \in SUBSET Rows,
         \A x \in S : st[x] \in {"pending", s}
  PROVE  Closes(st, Cascade(S, SetAll(S, s, st)))
<1> DEFINE mid == SetAll(S, s, st)
           new == Cascade(S, mid)
<1>1. mid \in [Rows -> Status] /\ \A x \in Rows : mid[x] = IF x \in S THEN s ELSE st[x]
  BY DEF SetAll, Status
<1>2. new \in [Rows -> Status]
  BY <1>1, CascadeType
<1>3. \A x \in Rows : new[x] = IF mid[x] = "pending" /\ \E y \in S : Behind(x, y)
                               THEN "relay_skipped" ELSE mid[x]
  BY DEF Cascade, Behind
<1>4. ASSUME NEW x \in Rows
      PROVE  \/ new[x] = st[x]
             \/ /\ st[x] = "pending"
                /\ new[x] \in {"superseded", "deadline_expired", "relay_skipped"}
  BY <1>1, <1>3
<1>5. ASSUME NEW x \in Rows, NEW y \in Rows, Behind(x, y), st[y] = "pending",
             new[y] \in {"superseded", "deadline_expired"}
      PROVE  new[x] # "pending"
  <2>1. y \in S
    BY <1>1, <1>3, <1>5
  <2> QED
    BY <1>1, <1>3, <1>5, <2>1
<1> HIDE DEF new, mid
<1> QED
  BY <1>2, <1>4, <1>5 DEF Closes, new, mid

\* Two such rewritings one after the other.
LEMMA ClosesTwice ==
  ASSUME NEW st, NEW mid, NEW new, Closes(st, mid), Closes(mid, new)
  PROVE  Closes(st, new)
BY DEF Closes

\* expire_due_deliveries.
LEMMA ExpiryCloses ==
  ASSUME TypeOK, NEW S \in SUBSET Overdue
  PROVE  Closes(status, Expire(S))
<1>1. status \in [Rows -> Status]
  BY DEF TypeOK
<1>2. S \in SUBSET Rows /\ \A x \in S : status[x] = "pending"
  BY DEF Overdue
<1> QED
  BY <1>1, <1>2, StopCloses DEF Expire

\* The whole housekeeping of claim_next_event.
LEMMA TidyCloses ==
  ASSUME TypeOK, NEW S \in SUBSET Overdue
  PROVE  Closes(status, Supersede(Expire(S)))
<1> DEFINE mid == Expire(S)
<1>1. Closes(status, mid)
  BY ExpiryCloses
<1>2. mid \in [Rows -> Status]
  BY <1>1 DEF Closes
<1> HIDE DEF mid
<1> DEFINE stale == {x \in Rows : mid[x] = "pending" /\ old_location[x]}
<1>3. Closes(mid, Cascade(stale, SetAll(stale, "superseded", mid)))
  <2>1. stale \in SUBSET Rows /\ \A x \in stale : mid[x] \in {"pending", "superseded"}
    OBVIOUS
  <2> QED
    BY <1>2, <2>1, StopCloses
<1>4. Closes(mid, Supersede(mid))
  BY <1>3 DEF Supersede
<1> QED
  BY <1>1, <1>4, ClosesTwice DEF mid

----------------------------------------------------------------------------
(***************************************************************************)
(* The types.                                                              *)
(***************************************************************************)
\* The initial state has the right types.
LEMMA InitType == Init => TypeOK
<1> SUFFICES ASSUME Init PROVE TypeOK
  OBVIOUS
<1> DEFINE C == (UNION {Chains[e] : e \in Events}) \cup {<<>>}
<1>1. route \in [Events -> C] /\ queue \in [Dests -> Seq(Rows)]
  <2>1. <<>> \in C /\ <<>> \in Seq(Rows)
    OBVIOUS
  <2> HIDE DEF C
  <2> QED
    BY <2>1 DEF Init
<1>2. /\ deliver_by \in [Events -> {Null, "future", "past"}]
      /\ status \in [Rows -> Status]
      /\ reconcile_state \in [Rows -> ReconcileState]
  BY DEF Init, Status, ReconcileState
<1>3. /\ delivered_at \in [Rows -> BOOLEAN]
      /\ failures \in [Rows -> Nat]
      /\ old_location \in [Rows -> BOOLEAN]
      /\ found \in [Sweepers -> SUBSET Rows]
      /\ acked \in [Rows -> BOOLEAN]
      /\ operator_calls \in Nat
  BY DEF Init
<1> QED
  BY <1>1, <1>2, <1>3 DEF TypeOK

\* A fan-out.
LEMMA FanOutType ==
  ASSUME TypeOK, NEW e \in Events, NEW c \in Chains[e], FanOutRelayEvent(e, c)
  PROVE  TypeOK'
<1>1. /\ c \in UNION {Chains[f] : f \in Events}
      /\ c \in Seq(Dests)
      /\ Len(c) \in 1..MaxStations
  BY RelayAssumption
<1>2. queue' \in [Dests -> Seq(Rows)]
  <2> SUFFICES ASSUME NEW d \in Dests, NEW k \in 1..Len(c)
               PROVE  Append(queue[d], <<e, k>>) \in Seq(Rows)
    BY DEF FanOutRelayEvent, TypeOK
  <2>1. <<e, k>> \in Rows
    BY <1>1, RelayAssumption DEF Rows
  <2>2. queue[d] \in Seq(Rows)
    BY DEF TypeOK
  <2> HIDE DEF Rows
  <2> QED
    BY <2>1, <2>2
<1>3. status' \in [Rows -> Status]
  BY DEF FanOutRelayEvent, TypeOK, Status
<1>4. route' \in [Events -> (UNION {Chains[f] : f \in Events}) \cup {<<>>}]
  BY <1>1 DEF FanOutRelayEvent, TypeOK
<1>5. deliver_by' \in [Events -> {Null, "future", "past"}]
  BY DEF FanOutRelayEvent, TypeOK
<1> QED
  BY <1>2, <1>3, <1>4, <1>5 DEF FanOutRelayEvent, TypeOK, receiptVars

\* A result, whichever it is.
LEMMA RecordType ==
  ASSUME TypeOK, NEW x \in Rows, NEW s \in Status, Record(x, s)
  PROVE  TypeOK'
<1>1. [status EXCEPT ![x] = s] \in [Rows -> Status]
  BY DEF TypeOK
<1>2. status' \in [Rows -> Status]
  BY <1>1, CascadeType DEF Record
<1>3. reconcile_state' \in [Rows -> ReconcileState]
  BY DEF Record, TypeOK, ReconcileState
<1>4. delivered_at' \in [Rows -> BOOLEAN]
  BY DEF Record, TypeOK
<1>5. failures' \in [Rows -> Nat]
  BY DEF Record, TypeOK
<1> QED
  BY <1>2, <1>3, <1>4, <1>5 DEF Record, TypeOK, receiptVars

\* A verdict, whichever it is.
LEMMA ConcludeType ==
  ASSUME TypeOK, NEW x \in Rows, NEW outcome \in ReconcileState,
         NEW parked \in BOOLEAN, Conclude(x, outcome, parked)
  PROVE  TypeOK'
<1>1. [status EXCEPT ![x] = IF parked THEN "dead_lettered" ELSE @]
        \in [Rows -> Status]
  BY DEF TypeOK, Status
<1>2. status' \in [Rows -> Status]
  BY <1>1, CascadeType DEF Conclude
<1>3. acked' \in [Rows -> BOOLEAN]
  BY DEF Conclude, TypeOK
<1> QED
  BY <1>2, <1>3 DEF Conclude, TypeOK

\* A sweep.
LEMMA SweepType ==
  ASSUME TypeOK, NEW s \in Sweepers, SweepStep(s)
  PROVE  TypeOK'
<1>1. ASSUME NEW S \in SUBSET Awaiting, SweepSelect(s, S)
      PROVE  TypeOK'
  <2>1. S \in SUBSET Rows
    BY DEF Awaiting
  <2>2. found' \in [Sweepers -> SUBSET Rows]
    BY <1>1, <2>1 DEF SweepSelect, TypeOK
  <2> QED
    BY <1>1, <2>2 DEF SweepSelect, TypeOK, copyVars
<1>2. ASSUME NEW Parked \in SUBSET found[s], SweepCommit(s, Parked)
      PROVE  TypeOK'
  <2>1. SetAll(Parked, "dead_lettered", status) \in [Rows -> Status]
    BY DEF SetAll, TypeOK, Status
  <2>2. status' \in [Rows -> Status]
    BY <1>2, <2>1, CascadeType DEF SweepCommit
  <2>3. reconcile_state' \in [Rows -> ReconcileState]
    BY <1>2 DEF SweepCommit, TypeOK, ReconcileState
  <2>4. found' \in [Sweepers -> SUBSET Rows]
    BY <1>2 DEF SweepCommit, TypeOK
  <2> QED
    BY <1>2, <2>2, <2>3, <2>4 DEF SweepCommit, TypeOK
<1> QED
  BY <1>1, <1>2 DEF SweepStep

\* What happens to one copy.
LEMMA RowStepType ==
  ASSUME TypeOK, NEW x \in Rows, RowStep(x)
  PROVE  TypeOK'
<1>1. CASE RecordSuccess(x) \/ RecordFailure(x)
  <2>1. \E s \in Status : Record(x, s)
    BY <1>1 DEF RecordSuccess, RecordFailure, Status
  <2> QED
    BY <2>1, RecordType
<1>2. CASE IngestReceipt(x)
  <2>1. \E outcome \in ReconcileState, parked \in BOOLEAN :
           Conclude(x, outcome, parked)
    BY <1>2 DEF IngestReceipt, ReconcileState
  <2> QED
    BY <2>1, ConcludeType
<1>3. CASE Lost(x)
  BY <1>3 DEF Lost, TypeOK, Status, receiptVars
<1>4. CASE SendAgain(x)
  <2>1. failures' \in [Rows -> Nat]
    <3>1. failures \in [Rows -> Nat]
      BY DEF TypeOK
    <3>2. failures' = failures \/ failures' = [failures EXCEPT ![x] = 0]
      BY <1>4 DEF SendAgain
    <3> QED
      BY <3>1, <3>2
  <2>2. status' \in [Rows -> Status]
    BY <1>4 DEF SendAgain, BackToQueue, TypeOK, Status
  <2>3. reconcile_state' \in [Rows -> ReconcileState]
    BY <1>4 DEF SendAgain, TypeOK, ReconcileState
  <2> QED
    BY <1>4, <2>1, <2>2, <2>3 DEF SendAgain, OperatorCall, TypeOK, receiptVars
<1> QED
  BY <1>1, <1>2, <1>3, <1>4 DEF RowStep

\* Every step keeps the types.
LEMMA NextType ==
  ASSUME TypeOK, [Next]_vars
  PROVE  TypeOK'
<1>1. ASSUME NEW e \in Events, CancelEvent(e)
      PROVE  TypeOK'
  BY <1>1 DEF CancelEvent, SetAll, OperatorCall, TypeOK, Status, receiptVars
<1>2. ASSUME NEW e \in Events, CutoffPasses(e)
      PROVE  TypeOK'
  BY <1>2 DEF CutoffPasses, TypeOK, copyVars, receiptVars
<1>3. ASSUME NEW d \in Dests, Relocate(d)
      PROVE  TypeOK'
  <2>1. status' \in [Rows -> Status]
    <3>1. \A S \in SUBSET Rows : SetAll(S, "superseded", status) \in [Rows -> Status]
      BY DEF SetAll, TypeOK, Status
    <3> QED
      BY <1>3, <3>1, CascadeType DEF Relocate, SupersedeAndCascade
  <2>2. old_location' \in [Rows -> BOOLEAN]
    BY <1>3 DEF Relocate, TypeOK
  <2> QED
    BY <1>3, <2>1, <2>2 DEF Relocate, OperatorCall, TypeOK, receiptVars
<1>4. ASSUME NEW S \in SUBSET Overdue, ClaimNextEvent(S)
      PROVE  TypeOK'
  <2> DEFINE tidied == Supersede(Expire(S))
  <2>1. tidied \in [Rows -> Status]
    BY TidyCloses DEF Closes
  <2>2. \/ ClaimWith(S, tidied)
        \/ \E x \in Rows : ClaimWith(S, [tidied EXCEPT ![x] = "in_flight"])
    BY <1>4 DEF ClaimNextEvent
  <2> HIDE DEF tidied
  <2>3. PICK st \in [Rows -> Status] : ClaimWith(S, st)
    BY <2>1, <2>2 DEF Status
  <2> QED
    BY <2>3 DEF ClaimWith, TypeOK, receiptVars
<1>5. ASSUME NEW S \in SUBSET Overdue, ExpireDeliveryDeadlines(S)
      PROVE  TypeOK'
  <2>1. status' \in [Rows -> Status]
    BY <1>5, ExpiryCloses DEF ExpireDeliveryDeadlines, Closes
  <2> QED
    BY <1>5, <2>1 DEF ExpireDeliveryDeadlines, TypeOK, receiptVars
<1>6. CASE UNCHANGED vars
  BY <1>6 DEF vars, copyVars, receiptVars, TypeOK
<1> QED
  BY <1>1, <1>2, <1>3, <1>4, <1>5, <1>6, FanOutType, RowStepType, SweepType
  DEF Next, EventStep

----------------------------------------------------------------------------
(***************************************************************************)
(* The runs.                                                               *)
(***************************************************************************)
\* The verdicts, routes and receipts stay, and statuses change only through the
\* housekeeping.
LEMMA ClosingKeepsRuns ==
  ASSUME TypeOK, Runs, Closes(status, status'),
         UNCHANGED <<route, reconcile_state, delivered_at, receiptVars>>
  PROVE  Runs'
<1>1. \A x \in Rows : \/ status'[x] = status[x]
                      \/ /\ status[x] = "pending"
                         /\ status'[x] \in {"superseded", "deadline_expired",
                                            "relay_skipped", "cancelled"}
  BY DEF Closes
<1>2. UNCHANGED <<found, acked>>
  BY DEF receiptVars
<1>3. VerdictsFit'
  BY <1>1, <1>2 DEF Runs, VerdictsFit
<1>4. RoutesFit'
  BY <1>1 DEF Runs, RoutesFit
<1>5. ReachedInOrder'
  BY <1>1, <1>2 DEF Runs, ReachedInOrder, Contacted, Behind
<1>6. TailsShut'
  <2> SUFFICES ASSUME NEW x \in Rows, NEW y \in Rows, Behind(x, y), HasStopped(y)',
                      ~acked[y]
               PROVE  Shut(x)'
    BY <1>2 DEF TailsShut, Behind
  <2>1. CASE HasStopped(y)
    BY <1>1, <2>1 DEF Runs, TailsShut, Shut
  <2>2. CASE ~HasStopped(y)
    <3>1. status[y] = "pending" /\ status'[y] \in {"superseded", "deadline_expired"}
      BY <1>1, <2>2 DEF HasStopped
    <3>2. status'[x] # "pending"
      BY <3>1 DEF Closes
    <3>3. ~Contacted(x)
      BY DEF Runs, ReachedInOrder
    <3> QED
      BY <1>1, <3>2, <3>3 DEF Shut, Contacted
  <2> QED
    BY <2>1, <2>2
<1> QED
  BY <1>3, <1>4, <1>5, <1>6 DEF Runs

\* The claim: the station is open, so every station before it said yes.
LEMMA ClaimKeepsRuns ==
  ASSUME TypeOK, Runs, NEW tidied, Closes(status, tidied),
         NEW x \in Rows, tidied[x] = "pending", Open(x),
         status' = [tidied EXCEPT ![x] = "in_flight"],
         UNCHANGED <<route, reconcile_state, delivered_at, receiptVars>>
  PROVE  Runs'
<1>1. /\ status[x] = "pending" /\ status'[x] = "in_flight"
      /\ \A u \in Rows : u # x => status'[u] = tidied[u]
      /\ \A u \in Rows : \/ tidied[u] = status[u]
                         \/ /\ status[u] = "pending"
                            /\ tidied[u] \in {"superseded", "deadline_expired",
                                              "relay_skipped", "cancelled"}
  BY DEF Closes
<1>2. UNCHANGED <<found, acked>>
  BY DEF receiptVars
<1>3. ASSUME NEW y \in Rows, Behind(x, y)
      PROVE  acked[y]
  <2> DEFINE z == <<x[1], x[2] - 1>>
  <2>1. z \in Rows /\ x[2] > 1 /\ (y = z \/ Behind(z, y))
    <3>1. PICK e \in Events, k \in 1..MaxStations : x = <<e, k>>
      BY DEF Rows
    <3>2. PICK j \in 1..MaxStations : y = <<e, j>>
      BY <1>3, <3>1 DEF Rows, Behind
    <3>3. j < k /\ k - 1 \in 1..MaxStations
      BY <1>3, <3>1, <3>2, RelayAssumption DEF Behind
    <3>4. j = k - 1 \/ j < k - 1
      BY <3>3
    <3> QED
      BY <3>1, <3>2, <3>3, <3>4 DEF Rows, Behind
  <2>2. reconcile_state[z] = "acknowledged"
    BY <2>1 DEF Open
  <2> HIDE DEF z
  <2>3. acked[z] /\ Contacted(z)
    BY <2>1, <2>2 DEF Runs, VerdictsFit, Contacted
  <2> QED
    BY <2>1, <2>3 DEF Runs, ReachedInOrder
<1>4. VerdictsFit'
  BY <1>1, <1>2 DEF Runs, VerdictsFit
<1>5. RoutesFit'
  BY <1>1 DEF Runs, RoutesFit
<1>6. ReachedInOrder'
  <2> SUFFICES ASSUME NEW u \in Rows, NEW y \in Rows, Behind(u, y), Contacted(u)'
               PROVE  acked[y]
    BY <1>2 DEF ReachedInOrder, Behind
  <2>1. u # x => Contacted(u)
    BY <1>1 DEF Contacted
  <2> QED
    BY <1>3, <2>1 DEF Runs, ReachedInOrder
<1>7. TailsShut'
  <2> SUFFICES ASSUME NEW u \in Rows, NEW y \in Rows, Behind(u, y), HasStopped(y)',
                      ~acked[y]
               PROVE  Shut(u)'
    BY <1>2 DEF TailsShut, Behind
  <2>1. u # x
    BY <1>3
  <2>2. CASE HasStopped(y)
    BY <1>1, <2>1, <2>2 DEF Runs, TailsShut, Shut
  <2>3. CASE ~HasStopped(y)
    <3>1. status[y] = "pending" /\ tidied[y] \in {"superseded", "deadline_expired"}
      BY <1>1, <2>3 DEF HasStopped
    <3>2. tidied[u] # "pending"
      BY <3>1 DEF Closes
    <3>3. ~Contacted(u)
      BY DEF Runs, ReachedInOrder
    <3> QED
      BY <1>1, <2>1, <3>2, <3>3 DEF Shut, Contacted
  <2> QED
    BY <2>2, <2>3
<1> QED
  BY <1>4, <1>5, <1>6, <1>7 DEF Runs

\* Contacted stations S move, and what waits behind those that stop is skipped.
\* Nothing has been contacted behind a station that never said yes, so that the
\* stations that move are not in its tail.
LEMMA SettlingKeepsRuns ==
  ASSUME TypeOK, Runs, NEW S \in SUBSET Rows, NEW Stops \in SUBSET S,
         \A x \in S : Contacted(x) /\ status[x] # "absent",
         \A u \in Rows : u \notin S =>
           /\ status'[u] = IF status[u] = "pending" /\ \E y \in Stops : Behind(u, y)
                           THEN "relay_skipped" ELSE status[u]
           /\ reconcile_state'[u] = reconcile_state[u]
           /\ delivered_at'[u] = delivered_at[u]
           /\ acked'[u] = acked[u],
         \A x \in S :
           /\ HasStopped(x)' => x \in Stops \/ HasStopped(x)
           /\ status'[x] # "absent"
           /\ reconcile_state'[x] \in {"awaiting", "acknowledged"}
                => status'[x] = "delivered"
           /\ status'[x] = "delivered" => delivered_at'[x]
           /\ reconcile_state'[x] = "acknowledged" => acked'[x]
           /\ acked'[x] => delivered_at'[x]
           /\ acked[x] => acked'[x]
           /\ delivered_at[x] => delivered_at'[x],
         \A s \in Sweepers : found'[s] \in SUBSET found[s],
         UNCHANGED route
  PROVE  Runs'
<1>1. \A u \in Rows : acked[u] => acked'[u]
  OBVIOUS
<1>2. VerdictsFit'
  <2> SUFFICES ASSUME NEW x \in Rows
               PROVE  /\ reconcile_state'[x] \in {"awaiting", "acknowledged"}
                           => status'[x] = "delivered"
                      /\ status'[x] = "delivered" => delivered_at'[x]
                      /\ reconcile_state'[x] = "acknowledged" => acked'[x]
                      /\ acked'[x] => delivered_at'[x]
                      /\ \A s \in Sweepers : x \in found'[s] => delivered_at'[x]
    BY DEF VerdictsFit
  <2>1. \A s \in Sweepers : x \in found'[s] => delivered_at'[x]
    BY DEF Runs, VerdictsFit
  <2>2. CASE x \in S
    BY <2>1, <2>2
  <2>3. CASE x \notin S
    BY <2>1, <2>3 DEF Runs, VerdictsFit
  <2> QED
    BY <2>2, <2>3
<1>3. RoutesFit'
  BY DEF Runs, RoutesFit
<1>4. ReachedInOrder'
  <2> SUFFICES ASSUME NEW u \in Rows, NEW y \in Rows, Behind(u, y), Contacted(u)'
               PROVE  acked'[y]
    BY DEF ReachedInOrder, Behind
  <2>1. Contacted(u)
    BY DEF Contacted
  <2> QED
    BY <1>1, <2>1 DEF Runs, ReachedInOrder
<1>5. TailsShut'
  <2> SUFFICES ASSUME NEW u \in Rows, NEW y \in Rows, Behind(u, y), HasStopped(y)',
                      ~acked'[y]
               PROVE  Shut(u)'
    BY DEF TailsShut, Behind
  <2>1. ~acked[y]
    BY <1>1
  <2>2. ~Contacted(u)
    BY <2>1 DEF Runs, ReachedInOrder
  <2>3. u \notin S
    BY <2>2
  <2>4. CASE y \in Stops
    BY <2>2, <2>3, <2>4 DEF Shut, Contacted
  <2>5. CASE y \notin Stops
    <3>1. HasStopped(y)
      BY <2>5 DEF HasStopped
    <3>2. Shut(u)
      BY <2>1, <3>1 DEF Runs, TailsShut
    <3> QED
      BY <2>3, <3>2 DEF Shut
  <2> QED
    BY <2>4, <2>5
<1> QED
  BY <1>2, <1>3, <1>4, <1>5 DEF Runs

\* A result of the worker.
LEMMA RecordKeepsRuns ==
  ASSUME TypeOK, Runs, NEW x \in Rows, status[x] = "in_flight",
         NEW s \in {"delivered", "deadline_expired", "superseded",
                    "dead_lettered", "pending"},
         Record(x, s)
  PROVE  Runs'
<1> DEFINE S == {x}
           Stops == IF StopsRun(s) THEN {x} ELSE {}
<1>1. Contacted(x) /\ reconcile_state[x] \notin {"awaiting", "acknowledged"}
  BY DEF Contacted, Runs, VerdictsFit
<1>2. /\ reconcile_state'[x] = IF s = "delivered" THEN "awaiting"
                               ELSE reconcile_state[x]
      /\ \A u \in Rows : u # x => reconcile_state'[u] = reconcile_state[u]
      /\ \A u \in Rows : u # x => delivered_at'[u] = delivered_at[u]
      /\ delivered_at'[x] = (delivered_at[x] \/ s = "delivered")
  BY DEF Record, TypeOK
<1>3. UNCHANGED <<found, acked, route>>
  BY DEF Record, receiptVars
<1>4. ~Behind(x, x)
  BY DEF Behind, Rows
<1>5. status'[x] = s
  BY <1>4 DEF Record, Cascade, TypeOK, Behind
<1>6. \A u \in Rows : u # x =>
        status'[u] = IF status[u] = "pending" /\ \E y \in Stops : Behind(u, y)
                     THEN "relay_skipped" ELSE status[u]
  BY DEF Record, Cascade, TypeOK, Behind
<1>7. HasStopped(x)' => x \in Stops \/ HasStopped(x)
  BY <1>2, <1>5 DEF HasStopped, StopsRun
<1>8. acked[x] => delivered_at[x]
  BY DEF Runs, VerdictsFit
<1>9. S \in SUBSET Rows /\ Stops \in SUBSET S
  OBVIOUS
<1>10. \A y \in S :
         /\ status'[y] # "absent"
         /\ reconcile_state'[y] \in {"awaiting", "acknowledged"}
              => status'[y] = "delivered"
         /\ status'[y] = "delivered" => delivered_at'[y]
         /\ reconcile_state'[y] = "acknowledged" => acked'[y]
         /\ acked'[y] => delivered_at'[y]
         /\ acked[y] => acked'[y]
         /\ delivered_at[y] => delivered_at'[y]
  BY <1>1, <1>2, <1>3, <1>5, <1>8
<1> HIDE DEF Stops
<1> QED
  BY <1>1, <1>2, <1>3, <1>6, <1>7, <1>9, <1>10, SettlingKeepsRuns

\* A receipt.
LEMMA ConcludeKeepsRuns ==
  ASSUME TypeOK, Runs, NEW x \in Rows,
         NEW outcome \in {"acknowledged", "receipt_failed", "timed_out"},
         NEW parked \in BOOLEAN,
         outcome = "acknowledged" => ~parked,
         Conclude(x, outcome, parked)
  PROVE  Runs'
<1> DEFINE S == {x}
           Stops == IF outcome = "acknowledged" THEN {} ELSE {x}
<1>1. /\ status[x] = "delivered" /\ reconcile_state[x] = "awaiting"
      /\ Contacted(x) /\ delivered_at[x]
  BY DEF Conclude, Contacted, Runs, VerdictsFit
<1>2. /\ reconcile_state'[x] = outcome
      /\ \A u \in Rows : u # x => reconcile_state'[u] = reconcile_state[u]
      /\ UNCHANGED <<delivered_at, route, found>>
  BY DEF Conclude, TypeOK
<1>3. /\ acked'[x] = (acked[x] \/ outcome = "acknowledged")
      /\ \A u \in Rows : u # x => acked'[u] = acked[u]
  BY DEF Conclude, TypeOK
<1>4. ~Behind(x, x)
  BY DEF Behind, Rows
<1>5. status'[x] = IF parked THEN "dead_lettered" ELSE "delivered"
  BY <1>1, <1>4 DEF Conclude, Cascade, TypeOK, Behind
<1>6. \A u \in Rows : u # x =>
        status'[u] = IF status[u] = "pending" /\ \E y \in Stops : Behind(u, y)
                     THEN "relay_skipped" ELSE status[u]
  BY DEF Conclude, Cascade, TypeOK, Behind
<1>7. HasStopped(x)' => x \in Stops
  BY <1>2, <1>5 DEF HasStopped
<1>8. S \in SUBSET Rows /\ Stops \in SUBSET S
  OBVIOUS
<1>9. \A y \in S :
        /\ status'[y] # "absent"
        /\ reconcile_state'[y] \in {"awaiting", "acknowledged"}
             => status'[y] = "delivered"
        /\ status'[y] = "delivered" => delivered_at'[y]
        /\ reconcile_state'[y] = "acknowledged" => acked'[y]
        /\ acked'[y] => delivered_at'[y]
        /\ acked[y] => acked'[y]
        /\ delivered_at[y] => delivered_at'[y]
  BY <1>1, <1>2, <1>3, <1>5
<1> HIDE DEF Stops
<1> QED
  BY <1>1, <1>2, <1>3, <1>6, <1>7, <1>8, <1>9, SettlingKeepsRuns

\* The copy goes back to the queue: reaped, requeued or revived.
LEMMA ReturnKeepsRuns ==
  ASSUME TypeOK, Runs, NEW x \in Rows, Lost(x) \/ SendAgain(x)
  PROVE  Runs'
<1> DEFINE S == {x}
           Stops == {}
<1>1. /\ Contacted(x) /\ status[x] # "absent"
      /\ reconcile_state[x] \notin {"awaiting", "acknowledged"}
  BY DEF Lost, SendAgain, Contacted, Runs, VerdictsFit
<1>2. status' = [status EXCEPT ![x] = "pending"]
  BY DEF Lost, SendAgain, BackToQueue
<1>3. reconcile_state'[x] \in {"none", reconcile_state[x]}
  BY DEF Lost, SendAgain, TypeOK
<1>4. \A u \in Rows : u # x => reconcile_state'[u] = reconcile_state[u]
  BY DEF Lost, SendAgain, TypeOK
<1>5. UNCHANGED <<delivered_at, route, found, acked>>
  BY DEF Lost, SendAgain, receiptVars
<1>6. status'[x] = "pending" /\ \A u \in Rows : u # x => status'[u] = status[u]
  BY <1>2 DEF TypeOK
<1>7. HasStopped(x)' => HasStopped(x)
  BY <1>3, <1>6 DEF HasStopped
<1>8. acked[x] => delivered_at[x]
  BY DEF Runs, VerdictsFit
<1>9. S \in SUBSET Rows /\ Stops \in SUBSET S
  OBVIOUS
<1>10. \A y \in S :
         /\ status'[y] # "absent"
         /\ reconcile_state'[y] \in {"awaiting", "acknowledged"}
              => status'[y] = "delivered"
         /\ status'[y] = "delivered" => delivered_at'[y]
         /\ reconcile_state'[y] = "acknowledged" => acked'[y]
         /\ acked'[y] => delivered_at'[y]
         /\ acked[y] => acked'[y]
         /\ delivered_at[y] => delivered_at'[y]
  BY <1>1, <1>3, <1>5, <1>6, <1>8
<1> QED
  BY <1>1, <1>4, <1>5, <1>6, <1>7, <1>9, <1>10, SettlingKeepsRuns

\* A sweep: it finds copies that await a receipt, and what it found it stops,
\* whatever has become of it.
LEMMA SweepKeepsRuns ==
  ASSUME TypeOK, Runs, NEW s \in Sweepers, SweepStep(s)
  PROVE  Runs'
<1>1. ASSUME NEW S \in SUBSET Awaiting, SweepSelect(s, S)
      PROVE  Runs'
  <2>1. UNCHANGED <<route, status, reconcile_state, delivered_at, acked>>
    BY <1>1 DEF SweepSelect, copyVars
  <2>2. \A t \in Sweepers : found'[t] = IF t = s THEN S ELSE found[t]
    BY <1>1 DEF SweepSelect, TypeOK
  <2>3. \A x \in S : delivered_at[x]
    BY DEF Awaiting, Runs, VerdictsFit
  <2>4. VerdictsFit'
    BY <2>1, <2>2, <2>3 DEF Runs, VerdictsFit
  <2>5. RoutesFit' /\ ReachedInOrder' /\ TailsShut'
    BY <2>1 DEF Runs, RoutesFit, ReachedInOrder, TailsShut, Contacted, HasStopped,
                Shut, Behind
  <2> QED
    BY <2>4, <2>5 DEF Runs
<1>2. ASSUME NEW Parked \in SUBSET found[s], SweepCommit(s, Parked)
      PROVE  Runs'
  <2> DEFINE S == found[s]
             mid == SetAll(Parked, "dead_lettered", status)
  <2>1. S \in SUBSET Rows
    BY DEF TypeOK
  <2>2. \A x \in S : Contacted(x) /\ delivered_at[x] /\ status[x] # "absent"
    BY <2>1 DEF Runs, VerdictsFit, RoutesFit, Contacted
  <2>3. /\ \A x \in Rows : reconcile_state'[x] = IF x \in S THEN "timed_out"
                                                 ELSE reconcile_state[x]
        /\ \A t \in Sweepers : found'[t] \in SUBSET found[t]
        /\ UNCHANGED <<route, delivered_at, acked>>
    BY <1>2 DEF SweepCommit, TypeOK
  <2>4. \A x \in Rows : mid[x] = IF x \in Parked THEN "dead_lettered" ELSE status[x]
    BY DEF SetAll
  <2>5. \A x \in Rows : status'[x] = IF mid[x] = "pending" /\ \E y \in S : Behind(x, y)
                                     THEN "relay_skipped" ELSE mid[x]
    BY <1>2 DEF SweepCommit, Cascade, Behind
  <2>6. \A u \in Rows : u \notin S =>
          status'[u] = IF status[u] = "pending" /\ \E y \in S : Behind(u, y)
                       THEN "relay_skipped" ELSE status[u]
    BY <2>4, <2>5
  <2>7. \A x \in S : status'[x] # "absent"
    BY <2>1, <2>2, <2>4, <2>5
  <2> HIDE DEF S, mid
  <2>8. \A x \in S :
          /\ status'[x] # "absent"
          /\ reconcile_state'[x] \in {"awaiting", "acknowledged"}
               => status'[x] = "delivered"
          /\ status'[x] = "delivered" => delivered_at'[x]
          /\ reconcile_state'[x] = "acknowledged" => acked'[x]
          /\ acked'[x] => delivered_at'[x]
          /\ acked[x] => acked'[x]
          /\ delivered_at[x] => delivered_at'[x]
    BY <2>1, <2>2, <2>3, <2>7
  <2> QED
    BY <2>1, <2>2, <2>3, <2>6, <2>8, SettlingKeepsRuns
<1> QED
  BY <1>1, <1>2 DEF SweepStep

\* A new run: its copies were absent, and none has stopped.
LEMMA FanOutKeepsRuns ==
  ASSUME TypeOK, Runs, NEW e \in Events, NEW c \in Chains[e], FanOutRelayEvent(e, c)
  PROVE  Runs'
<1>1. Len(c) \in Nat
  BY RelayAssumption
<1>2. \A x \in Rows : x[1] = e => /\ status[x] = "absent"
                                  /\ reconcile_state[x] = "none"
                                  /\ ~delivered_at[x]
  <2>1. \A x \in Rows : x[1] = e => status[x] = "absent"
    BY DEF FanOutRelayEvent, Runs, RoutesFit, Rows
  <2> QED
    BY <2>1 DEF Runs, RoutesFit
<1>3. \A x \in Rows : /\ x[1] \in Events
                      /\ x[1] # e => status'[x] = status[x]
                      /\ x[1] = e => status'[x] = IF x[2] <= Len(c)
                                                  THEN "pending" ELSE "absent"
  BY <1>2 DEF FanOutRelayEvent, Rows
<1>4. /\ \A f \in Events : route'[f] = IF f = e THEN c ELSE route[f]
      /\ UNCHANGED <<reconcile_state, delivered_at, acked, found>>
  BY DEF FanOutRelayEvent, TypeOK, receiptVars
<1>5. VerdictsFit'
  BY <1>2, <1>3, <1>4 DEF Runs, VerdictsFit
<1>6. RoutesFit'
  BY <1>2, <1>3, <1>4 DEF Runs, RoutesFit
<1>7. ReachedInOrder'
  BY <1>2, <1>3, <1>4 DEF Runs, ReachedInOrder, Contacted, Behind
<1>8. TailsShut'
  BY <1>2, <1>3, <1>4 DEF Runs, TailsShut, HasStopped, Shut, Behind
<1> QED
  BY <1>5, <1>6, <1>7, <1>8 DEF Runs

\* What happens to the statuses in the steps that only close queued copies.
LEMMA ClosingSteps ==
  ASSUME TypeOK,
         \/ \E e \in Events : CancelEvent(e)
         \/ \E d \in Dests : Relocate(d)
         \/ \E S \in SUBSET Overdue : ExpireDeliveryDeadlines(S)
  PROVE  /\ Closes(status, status')
         /\ UNCHANGED <<route, reconcile_state, delivered_at, receiptVars>>
<1>1. ASSUME NEW e \in Events, CancelEvent(e)
      PROVE  Closes(status, status')
  <2> DEFINE copies == {x \in Rows : x[1] = e /\ status[x] # "absent"}
  <2>1. \A x \in Rows : status'[x] = IF x \in copies THEN "cancelled" ELSE status[x]
    BY <1>1 DEF CancelEvent, SetAll
  <2>2. \A x \in copies : status[x] = "pending"
    BY <1>1 DEF CancelEvent
  <2>3. status' \in [Rows -> Status]
    BY <1>1 DEF CancelEvent, SetAll, TypeOK, Status
  <2> HIDE DEF copies
  <2> QED
    BY <2>1, <2>2, <2>3 DEF Closes
<1>2. ASSUME NEW d \in Dests, Relocate(d)
      PROVE  Closes(status, status')
  <2> DEFINE here == {x \in Rows : status[x] # "absent" /\ DestOf(x) = d}
             S == {x \in here : status[x] \in {"pending", "superseded"}}
  <2>1. status' = Cascade(S, SetAll(S, "superseded", status))
    BY <1>2 DEF Relocate, SupersedeAndCascade
  <2>2. S \in SUBSET Rows /\ \A x \in S : status[x] \in {"pending", "superseded"}
    OBVIOUS
  <2>3. status \in [Rows -> Status]
    BY DEF TypeOK
  <2> HIDE DEF S
  <2> QED
    BY <2>1, <2>2, <2>3, StopCloses
<1>3. CASE \E S \in SUBSET Overdue : ExpireDeliveryDeadlines(S)
  BY <1>3, ExpiryCloses DEF ExpireDeliveryDeadlines
<1> QED
  BY <1>1, <1>2, <1>3 DEF CancelEvent, Relocate, ExpireDeliveryDeadlines

\* claim_next_event: its housekeeping, and the claim of an open copy or of none.
LEMMA ClaimSteps ==
  ASSUME TypeOK, NEW S \in SUBSET Overdue, ClaimNextEvent(S)
  PROVE  /\ \E tidied :
              /\ Closes(status, tidied)
              /\ \/ status' = tidied
                 \/ \E x \in Rows : /\ tidied[x] = "pending"
                                    /\ Open(x)
                                    /\ status' = [tidied EXCEPT ![x] = "in_flight"]
         /\ UNCHANGED <<route, reconcile_state, delivered_at, receiptVars>>
<1> DEFINE tidied == Supersede(Expire(S))
<1>1. Closes(status, tidied)
  BY TidyCloses
<1>2. \/ ClaimWith(S, tidied)
      \/ \E x \in Rows : /\ Claimable(x, tidied)
                         /\ ClaimWith(S, [tidied EXCEPT ![x] = "in_flight"])
  BY DEF ClaimNextEvent
<1> HIDE DEF tidied
<1>3. \A x : Claimable(x, tidied) => tidied[x] = "pending" /\ Open(x)
  BY DEF Claimable
<1>4. \A st : ClaimWith(S, st) =>
        /\ status' = st
        /\ UNCHANGED <<route, reconcile_state, delivered_at, receiptVars>>
  BY DEF ClaimWith
<1> QED
  BY <1>1, <1>2, <1>3, <1>4

\* No copy exists at first.
LEMMA InitRuns == Init => Runs
BY DEF Init, Runs, VerdictsFit, RoutesFit, ReachedInOrder, TailsShut, Contacted,
       HasStopped

\* Every step keeps the runs in order.
LEMMA NextRuns ==
  ASSUME TypeOK, Runs, [Next]_vars
  PROVE  Runs'
<1>1. ASSUME UNCHANGED <<route, status, reconcile_state, delivered_at, receiptVars>>
      PROVE  Runs'
  BY <1>1 DEF Runs, VerdictsFit, RoutesFit, ReachedInOrder, TailsShut, Contacted,
              HasStopped, Shut, Behind, receiptVars
<1>2. CASE (\E e \in Events : CutoffPasses(e)) \/ UNCHANGED vars
  BY <1>1, <1>2 DEF CutoffPasses, vars, copyVars
<1>3. CASE \E e \in Events : \E c \in Chains[e] : FanOutRelayEvent(e, c)
  BY <1>3, FanOutKeepsRuns
<1>4. CASE \/ \E e \in Events : CancelEvent(e)
           \/ \E d \in Dests : Relocate(d)
           \/ \E S \in SUBSET Overdue : ExpireDeliveryDeadlines(S)
  BY <1>4, ClosingSteps, ClosingKeepsRuns
<1>5. CASE \E S \in SUBSET Overdue : ClaimNextEvent(S)
  BY <1>5, ClaimSteps, ClosingKeepsRuns, ClaimKeepsRuns
<1>6. CASE \E s \in Sweepers : SweepStep(s)
  BY <1>6, SweepKeepsRuns
<1>7. ASSUME NEW x \in Rows, RowStep(x)
      PROVE  Runs'
  <2>1. CASE RecordSuccess(x) \/ RecordFailure(x)
    <3>1. /\ status[x] = "in_flight"
          /\ \E s \in {"delivered", "deadline_expired", "superseded",
                       "dead_lettered", "pending"} : Record(x, s)
      BY <2>1 DEF RecordSuccess, RecordFailure
    <3> QED
      BY <3>1, RecordKeepsRuns
  <2>2. CASE IngestReceipt(x)
    <3>1. PICK outcome \in {"acknowledged", "receipt_failed", "timed_out"},
               parked \in BOOLEAN :
             /\ outcome = "acknowledged" => ~parked
             /\ Conclude(x, outcome, parked)
      BY <2>2 DEF IngestReceipt
    <3> QED
      BY <3>1, ConcludeKeepsRuns
  <2>3. CASE Lost(x) \/ SendAgain(x)
    BY <2>3, ReturnKeepsRuns
  <2> QED
    BY <1>7, <2>1, <2>2, <2>3 DEF RowStep
<1> QED
  BY <1>2, <1>3, <1>4, <1>5, <1>6, <1>7 DEF Next, EventStep

----------------------------------------------------------------------------
(***************************************************************************)
(* The theorems.                                                           *)
(***************************************************************************)
\* The inductive invariant of the relay: types, verdicts that fit the statuses,
\* stations reached one after the other, and shut tails.
THEOREM RelayInvariant == Spec => []IInv
<1>1. Init => IInv
  BY InitType, InitRuns DEF IInv
<1>2. IInv /\ [Next]_vars => IInv'
  BY NextType, NextRuns DEF IInv
<1> QED
  BY <1>1, <1>2, PTL DEF Spec

\* No station is ever contacted before the one ahead of it said yes, in all
\* behaviours of claim_next_event, receipts, late sweeps and operator calls.
THEOREM StationsInOrder == Spec => []StationOnlyAfterAck
<1>1. IInv => StationOnlyAfterAck
  <2> SUFFICES ASSUME IInv, NEW x \in Rows, x[2] > 1,
                      delivered_at[x] \/ status[x] \in {"in_flight", "delivered"}
               PROVE  acked[<<x[1], x[2] - 1>>]
    BY DEF StationOnlyAfterAck
  <2>1. Contacted(x)
    BY DEF Contacted
  <2>2. PICK e \in Events, k \in 1..MaxStations : x = <<e, k>>
    BY DEF Rows
  <2>3. k > 1 /\ k - 1 \in 1..MaxStations /\ k - 1 < k
    BY <2>2, RelayAssumption
  <2>4. <<e, k - 1>> \in Rows /\ Behind(x, <<e, k - 1>>)
    BY <2>2, <2>3 DEF Rows, Behind
  <2> QED
    BY <2>1, <2>2, <2>4 DEF IInv, Runs, ReachedInOrder
<1> QED
  BY <1>1, RelayInvariant, PTL

\* Behind the station at which the API shows a run stopped, nothing is queued, in
\* flight or delivered, unless that station had said yes once: no path to a stop
\* forgets cascade_after_stop.
THEOREM StopsShutTheTail == Spec => []NothingWaitsBehindAStop
<1>1. IInv => NothingWaitsBehindAStop
  <2> SUFFICES ASSUME IInv, NEW e \in Events, StopStation(e) # 0,
                      ~acked[<<e, StopStation(e)>>],
                      NEW k \in (StopStation(e) + 1)..Len(route[e])
               PROVE  /\ status[<<e, k>>] \notin {"pending", "in_flight", "delivered"}
                      /\ ~delivered_at[<<e, k>>]
    BY DEF NothingWaitsBehindAStop
  <2> DEFINE stops == {j \in 1..Len(route[e]) : HasStopped(<<e, j>>)}
             n == StopStation(e)
  <2>1. Len(route[e]) \in 0..MaxStations
    <3>1. route[e] \in (UNION {Chains[f] : f \in Events}) \cup {<<>>}
      BY DEF IInv, TypeOK
    <3>2. ASSUME NEW f \in Events, route[e] \in Chains[f]
          PROVE  Len(route[e]) \in 1..MaxStations
      BY <3>2, RelayAssumption
    <3>3. ASSUME route[e] = <<>>
          PROVE  Len(route[e]) \in 0..MaxStations
      BY <3>3, RelayAssumption
    <3>4. route[e] = <<>> \/ \E f \in Events : route[e] \in Chains[f]
      BY <3>1
    <3> QED
      BY <3>2, <3>3, <3>4, RelayAssumption
  <2>2. stops # {}
    BY DEF StopStation
  <2>3. \E j \in stops : \A i \in stops : j <= i
    <3>1. stops \in SUBSET Nat
      BY <2>1
    <3> HIDE DEF stops
    <3> QED
      BY <2>2, <3>1, FirstExists
  <2>4. n \in stops
    BY <2>2, <2>3 DEF StopStation
  <2> HIDE DEF n
  <2>5. n \in 1..MaxStations /\ HasStopped(<<e, n>>) /\ k \in 1..MaxStations /\ n < k
    BY <2>1, <2>4, RelayAssumption DEF n
  <2>6. <<e, n>> \in Rows /\ <<e, k>> \in Rows /\ Behind(<<e, k>>, <<e, n>>)
    BY <2>5 DEF Rows, Behind
  <2>7. ~acked[<<e, n>>]
    BY DEF n
  <2>8. Shut(<<e, k>>)
    BY <2>5, <2>6, <2>7 DEF IInv, Runs, TailsShut
  <2> QED
    BY <2>8 DEF Shut
<1> QED
  BY <1>1, RelayInvariant, PTL

\* A skipped station is skipped for good, and its run never shows as completed,
\* whatever is requeued or revived in front of it; only a sweep that had found it
\* before parks it.
THEOREM SkippedStaysSkipped == Spec => SkippedForGood
<1> DEFINE Swept(x) == \E s \in Sweepers : x \in found[s] /\ found'[s] = {}
           Kept == \A x \in Rows : status[x] = "relay_skipped" =>
                     /\ \/ status'[x] = "relay_skipped"
                        \/ \E s \in Sweepers : x \in found[s] /\ found'[s] = {}
                     /\ ~Completed(x[1])'
<1>1. ASSUME IInv, IInv', Next
      PROVE  Kept
  <2> SUFFICES ASSUME NEW x \in Rows, status[x] = "relay_skipped"
               PROVE  /\ status'[x] = "relay_skipped" \/ Swept(x)
                      /\ ~Completed(x[1])'
    OBVIOUS
  <2>1. \/ status'[x] = "relay_skipped"
        \/ Swept(x) /\ reconcile_state'[x] = "timed_out" /\ status'[x] # "absent"
    <3>1. TypeOK /\ status \in [Rows -> Status]
      BY <1>1 DEF IInv, TypeOK
    <3>2. CASE \E e \in Events : CutoffPasses(e)
      BY <3>2 DEF CutoffPasses, copyVars
    <3>3. ASSUME NEW e \in Events, NEW c \in Chains[e], FanOutRelayEvent(e, c)
          PROVE  status'[x] = "relay_skipped"
      <4>1. x[2] <= Len(route[x[1]]) /\ x[2] > 0 /\ route[e] = <<>>
        BY <1>1, <3>3 DEF IInv, Runs, RoutesFit, Rows, FanOutRelayEvent
      <4>2. x[1] # e
        BY <4>1 DEF Rows
      <4> QED
        BY <3>3, <4>2 DEF FanOutRelayEvent
    <3>4. CASE \/ \E e \in Events : CancelEvent(e)
               \/ \E d \in Dests : Relocate(d)
               \/ \E S \in SUBSET Overdue : ExpireDeliveryDeadlines(S)
      BY <3>1, <3>4, ClosingSteps DEF Closes
    <3>5. CASE \E S \in SUBSET Overdue : ClaimNextEvent(S)
      <4>1. PICK tidied :
               /\ Closes(status, tidied)
               /\ \/ status' = tidied
                  \/ \E y \in Rows : /\ tidied[y] = "pending"
                                     /\ Open(y)
                                     /\ status' = [tidied EXCEPT ![y] = "in_flight"]
        BY <3>1, <3>5, ClaimSteps
      <4>2. tidied \in [Rows -> Status] /\ tidied[x] = "relay_skipped"
        BY <4>1 DEF Closes
      <4> QED
        BY <4>1, <4>2
    <3>6. ASSUME NEW y \in Rows, RowStep(y)
          PROVE  status'[x] = "relay_skipped"
      <4>1. CASE RecordSuccess(y) \/ RecordFailure(y)
        <5>1. status[y] = "in_flight" /\ \E s : Record(y, s)
          BY <4>1 DEF RecordSuccess, RecordFailure
        <5> QED
          BY <3>1, <5>1 DEF Record, Cascade
      <4>2. CASE IngestReceipt(y)
        <5>1. \E outcome, parked : Conclude(y, outcome, parked)
          BY <4>2 DEF IngestReceipt
        <5>2. reconcile_state[y] = "awaiting"
          BY <5>1 DEF Conclude
        <5>3. y # x
          BY <1>1, <5>2 DEF IInv, Runs, VerdictsFit
        <5> QED
          BY <3>1, <5>1, <5>3 DEF Conclude, Cascade
      <4>3. CASE Lost(y) \/ SendAgain(y)
        <5>1. y # x /\ status' = [status EXCEPT ![y] = "pending"]
          BY <4>3 DEF Lost, SendAgain, BackToQueue
        <5> QED
          BY <3>1, <5>1
      <4> QED
        BY <3>6, <4>1, <4>2, <4>3 DEF RowStep
    <3>7. ASSUME NEW s \in Sweepers, NEW S \in SUBSET Awaiting, SweepSelect(s, S)
          PROVE  status'[x] = "relay_skipped"
      BY <3>7 DEF SweepSelect, copyVars
    <3>8. ASSUME NEW s \in Sweepers, NEW Parked \in SUBSET found[s],
                 SweepCommit(s, Parked)
          PROVE  \/ status'[x] = "relay_skipped"
                 \/ Swept(x) /\ reconcile_state'[x] = "timed_out" /\ status'[x] # "absent"
      <4>1. CASE x \notin Parked
        BY <3>8, <4>1 DEF SweepCommit, Cascade, SetAll
      <4>2. CASE x \in Parked
        <5>1. x \in found[s] /\ found'[s] = {} /\ reconcile_state'[x] = "timed_out"
          BY <1>1, <3>8, <4>2 DEF SweepCommit, IInv, TypeOK
        <5>2. status'[x] = "dead_lettered"
          BY <3>8, <4>2 DEF SweepCommit, Cascade, SetAll
        <5> QED
          BY <5>1, <5>2
      <4> QED
        BY <4>1, <4>2
    <3> QED
      BY <1>1, <3>2, <3>3, <3>4, <3>5, <3>6, <3>7, <3>8 DEF Next, EventStep, SweepStep
  <2>2. reconcile_state'[x] # "acknowledged" /\ x[2] <= Len(route'[x[1]])
    BY <1>1, <2>1 DEF IInv, Runs, VerdictsFit, RoutesFit
  <2>3. x[2] \in 1..Len(route'[x[1]]) /\ x = <<x[1], x[2]>>
    <3>1. Len(route'[x[1]]) \in Nat
      BY <1>1, RelayAssumption DEF IInv, TypeOK, Rows
    <3> QED
      BY <2>2, <3>1 DEF Rows
  <2>4. ~Completed(x[1])'
    BY <2>2, <2>3 DEF Completed
  <2> QED
    BY <2>1, <2>4
<1>2. IInv /\ IInv' /\ [Next]_vars => [Kept]_vars
  BY <1>1
<1> QED
  BY <1>2, RelayInvariant, PTL DEF Spec, SkippedForGood
============================================================================
