-------------------------- MODULE EventOpsProofs --------------------------
(***************************************************************************)
(* Theorems about EventOps, for any events, any finite set of subscribers, *)
(* any number of concurrent calls and every value of the settings.         *)
(***************************************************************************)
EXTENDS EventOps, FiniteSetTheorems, TLAPS

\* A verdict is awaited or positive only for a copy that is delivered.
VerdictsFit ==
  \A c \in Copies :
    reconcile_state[c] \in {"awaiting", "acknowledged"} => status[c] = "delivered"

\* A copy belongs to a stored event.
CopiesFit == \A c \in Copies : status[c] # "absent" => stored[c[1]]

\* A call is for a stored event.
CallsFit == \A r \in Calls : call[r].event \in Events => stored[call[r].event]

\* Only a stored event is cancelled.
CancelledFit == \A e \in Events : cancelled[e] => stored[e]

\* A sweep under way has found copies that exist, whatever they are by now.
SweepsFit ==
  \A s \in Sweepers : /\ exhausted[s] \subseteq found[s]
                      /\ \A c \in found[s] : status[c] # "absent"

IInv == TypeOK /\ VerdictsFit /\ CopiesFit /\ CallsFit /\ CancelledFit /\ SweepsFit

\* What a step does to a stored event.
EventMoves(e) ==
  /\ stored'[e]
  /\ required_ack_count'[e] = required_ack_count[e]
  /\ cancelled[e] => cancelled'[e]

\* What a step does to a copy of a stored event: the fan-out is over; and unless a
\* late sweep writes to it, a closed copy is not touched again and an acknowledgement
\* is not taken back.
CopyMoves(c) ==
  /\ observe_only'[c] = observe_only[c]
  /\ status'[c] = "absent" <=> status[c] = "absent"
  /\ ~SweptLate(c) =>
       /\ status[c] \in {"superseded", "deadline_expired", "cancelled"} =>
            status'[c] = status[c]
       /\ reconcile_state[c] = "acknowledged" =>
            reconcile_state'[c] = "acknowledged"

\* What becomes cancelled is cancelled with all its copies.
CancelsAll(e) ==
  cancelled'[e] => \/ cancelled[e]
                   \/ \A c \in Copies : c[1] = e => status'[c] \in {"absent", "cancelled"}

StoredMove ==
  /\ \A e \in Events : stored[e] => EventMoves(e)
  /\ \A e \in Events : CancelsAll(e)
  /\ \A c \in Copies : stored[c[1]] => CopyMoves(c)

----------------------------------------------------------------------------
(***************************************************************************)
(* The operators of the model.                                             *)
(***************************************************************************)
\* A copy is an event and a destination.
LEMMA CopyFacts ==
  \A c \in Copies : c[1] \in Events /\ c[2] \in Dests /\ c = <<c[1], c[2]>>
BY DEF Copies

\* An event has finitely many copies.
LEMMA FiniteCopies ==
  ASSUME NEW e \in Events, NEW C, C \subseteq {c \in Copies : c[1] = e}
  PROVE  IsFiniteSet(C) /\ Cardinality(C) \in Nat
<1>1. IsFiniteSet({e} \X Dests)
  BY FS_Singleton, FS_Product, EventAssumption
<1>2. C \subseteq {e} \X Dests
  BY DEF Copies
<1>3. IsFiniteSet(C)
  BY <1>1, <1>2, FS_Subset
<1> QED
  BY <1>3, FS_CardinalityType

\* The snapshot of the threshold is a number of copies.
LEMMA RequiredType ==
  ASSUME TypeOK, NEW n \in Nat
  PROVE  Required(n) \in Nat
BY EventAssumption DEF TypeOK, Required, AtMost

----------------------------------------------------------------------------
(***************************************************************************)
(* The types.                                                              *)
(***************************************************************************)
\* The initial state has the right types.
LEMMA InitType == Init => TypeOK
BY EventAssumption DEF Init, TypeOK, Status, ReconcileState, NoCall

\* The fan-out of an event or a correction.
LEMMA FanOutType ==
  ASSUME TypeOK, NEW e \in Events, NEW C, NEW S, FanOut(e, C, S),
         C \subseteq {c \in Copies : c[1] = e}
  PROVE  /\ stored' \in [Events -> BOOLEAN]
         /\ status' \in [Copies -> Status]
         /\ observe_only' \in [Copies -> BOOLEAN]
         /\ required_ack_count' \in [Events -> Nat]
<1>1. Required(Cardinality(C \ S)) \in Nat
  BY FiniteCopies, RequiredType
<1>2. stored' \in [Events -> BOOLEAN]
  BY DEF FanOut, TypeOK
<1>3. status' \in [Copies -> Status]
  BY DEF FanOut, TypeOK, Status
<1>4. observe_only' \in [Copies -> BOOLEAN]
  <2>1. ASSUME NEW c \in Copies
        PROVE  (IF c \in C THEN c \in S ELSE observe_only[c]) \in BOOLEAN
    <3>1. observe_only[c] \in BOOLEAN
      BY DEF TypeOK
    <3>2. (c \in S) \in BOOLEAN
      OBVIOUS
    <3> QED
      BY <3>1, <3>2, Zenon
  <2>2. observe_only' = [c \in Copies |-> IF c \in C THEN c \in S ELSE observe_only[c]]
    BY DEF FanOut
  <2> QED
    BY <2>1, <2>2, Zenon
<1>5. required_ack_count' \in [Events -> Nat]
  BY <1>1 DEF FanOut, TypeOK
<1> QED
  BY <1>2, <1>3, <1>4, <1>5

\* What happens to an event.
LEMMA EventStepType ==
  ASSUME TypeOK, NEW e \in Events, EventStep(e)
  PROVE  TypeOK'
<1>1. CASE StoreEvent(e)
  <2> DEFINE C == {e} \X Dests
             S == {c \in C : shadow[c[2]]}
  <2>1. FanOut(e, C, S) /\ C \subseteq {c \in Copies : c[1] = e}
    BY <1>1 DEF StoreEvent, Copies
  <2> HIDE DEF C, S
  <2>2. not_before' \in [Copies -> BOOLEAN]
    <3>1. ASSUME NEW c \in Copies
          PROVE  (IF c \in C THEN e \in Scheduled ELSE not_before[c]) \in BOOLEAN
      <4>1. not_before[c] \in BOOLEAN
        BY DEF TypeOK
      <4>2. (e \in Scheduled) \in BOOLEAN
        OBVIOUS
      <4> QED
        BY <4>1, <4>2, Zenon
    <3>2. not_before' = [c \in Copies |-> IF c \in C THEN e \in Scheduled ELSE not_before[c]]
      BY <1>1 DEF StoreEvent, C
    <3> QED
      BY <3>1, <3>2, Zenon
  <2>3. deliver_by' \in [Copies -> {Null, "future", "past"}]
    BY <1>1 DEF StoreEvent, TypeOK
  <2>4. /\ stored' \in [Events -> BOOLEAN]
        /\ status' \in [Copies -> Status]
        /\ observe_only' \in [Copies -> BOOLEAN]
        /\ required_ack_count' \in [Events -> Nat]
    BY <2>1, FanOutType
  <2> QED
    BY <1>1, <2>1, <2>2, <2>3, <2>4
    DEF StoreEvent, FanOut, TypeOK, configVars, budgetVars, sweepVars
<1>2. ASSUME NEW f \in Events, CreateCorrection(e, f)
      PROVE  TypeOK'
  <2> DEFINE C == {c \in Copies : c[1] = e /\ delivered_at[<<f, c[2]>>]}
             S == {c \in C : observe_only[<<f, c[2]>>]}
  <2>1. FanOut(e, C, S) /\ C \subseteq {c \in Copies : c[1] = e}
    BY <1>2 DEF CreateCorrection
  <2> HIDE DEF C, S
  <2>2. corrects' \in [Events -> Events \cup {Null}]
    BY <1>2 DEF CreateCorrection, TypeOK
  <2>3. /\ stored' \in [Events -> BOOLEAN]
        /\ status' \in [Copies -> Status]
        /\ observe_only' \in [Copies -> BOOLEAN]
        /\ required_ack_count' \in [Events -> Nat]
    BY <2>1, FanOutType
  <2> QED
    BY <1>2, <2>1, <2>2, <2>3
    DEF CreateCorrection, OperatorCall, FanOut, TypeOK, configVars, gateVars,
        budgetVars, sweepVars
<1>3. ASSUME NEW by \in {Null, "future"}, UpdateDeliverBy(e, by)
      PROVE  TypeOK'
  <2>1. deliver_by' \in [Copies -> {Null, "future", "past"}]
    BY <1>3 DEF UpdateDeliverBy, TypeOK
  <2> QED
    BY <1>3, <2>1
    DEF UpdateDeliverBy, OperatorCall, TypeOK, configVars, eventVars, budgetVars,
        sweepVars
<1>4. CASE NotBeforePasses(e)
  <2>1. not_before' \in [Copies -> BOOLEAN]
    BY <1>4 DEF NotBeforePasses, TypeOK
  <2> QED
    BY <1>4, <2>1
    DEF NotBeforePasses, TypeOK, configVars, eventVars, callVars, budgetVars, sweepVars
<1>5. CASE CutoffPasses(e)
  <2>1. deliver_by' \in [Copies -> {Null, "future", "past"}]
    BY <1>5 DEF CutoffPasses, TypeOK
  <2> QED
    BY <1>5, <2>1
    DEF CutoffPasses, TypeOK, configVars, eventVars, callVars, budgetVars, sweepVars
<1> QED
  BY <1>1, <1>2, <1>3, <1>4, <1>5 DEF EventStep

\* A copy back in the queue.
LEMMA SendAgainType ==
  ASSUME TypeOK, NEW C, SendAgain(C)
  PROVE  /\ status' \in [Copies -> Status]
         /\ reconcile_state' \in [Copies -> ReconcileState]
BY DEF SendAgain, TypeOK, Status, ReconcileState

\* REQUEUE_SET_SQL.
LEMMA RequeueType ==
  ASSUME TypeOK, NEW C, Requeue(C)
  PROVE  /\ status' \in [Copies -> Status]
         /\ reconcile_state' \in [Copies -> ReconcileState]
         /\ requeue_count' \in [Copies -> Nat]
         /\ UNCHANGED failures
<1>1. \A c \in Copies : AtMost(requeue_count[c] + 1, MaxRequeueCycles) \in Nat
  BY EventAssumption DEF TypeOK, AtMost
<1>2. requeue_count' \in [Copies -> Nat]
  BY <1>1 DEF Requeue, TypeOK
<1> QED
  BY <1>2, SendAgainType DEF Requeue

\* What happens to one copy.
LEMMA CopyStepType ==
  ASSUME TypeOK, NEW c \in Copies, CopyStep(c)
  PROVE  TypeOK'
<1>1. ASSUME NEW success \in BOOLEAN, RecordResult(c, success)
      PROVE  TypeOK'
  <2>1. status' \in [Copies -> Status]
    BY <1>1 DEF RecordResult, TypeOK, Status
  <2>2. reconcile_state' \in [Copies -> ReconcileState]
    BY <1>1 DEF RecordResult, TypeOK, ReconcileState
  <2>3. delivered_at' \in [Copies -> BOOLEAN]
    BY <1>1 DEF RecordResult, TypeOK
  <2>4. failures' \in [Copies -> Nat]
    BY <1>1 DEF RecordResult, TypeOK
  <2> QED
    BY <1>1, <2>1, <2>2, <2>3, <2>4
    DEF RecordResult, TypeOK, configVars, eventVars, gateVars, callVars,
        budgetVars, sweepVars
<1>2. CASE IngestReceipt(c)
  <2>1. PICK outcome \in ReconcileState, parked \in BOOLEAN : Conclude(c, outcome, parked)
    <3>1. Exhausted(c) \in BOOLEAN
      BY DEF Exhausted
    <3> QED
      BY <1>2, <3>1, Zenon DEF IngestReceipt, ReconcileState
  <2>2. status' \in [Copies -> Status]
    BY <2>1 DEF Conclude, TypeOK, Status
  <2> QED
    BY <2>1, <2>2
    DEF Conclude, TypeOK, configVars, eventVars, gateVars, callVars, budgetVars,
        sweepVars
<1>3. CASE RequeueDelivery(c)
  BY <1>3, RequeueType
  DEF RequeueDelivery, OperatorCall, TypeOK, configVars, eventVars, gateVars,
      budgetVars, sweepVars
<1>4. CASE ReviveDeadLetter(c)
  BY <1>4, SendAgainType
  DEF ReviveDeadLetter, OperatorCall, TypeOK, configVars, eventVars, gateVars,
      budgetVars, sweepVars
<1>5. CASE Claim(c)
  <2>1. status' \in [Copies -> Status]
    BY <1>5 DEF Claim, TypeOK, Status
  <2> QED
    BY <1>5, <2>1
    DEF Claim, TypeOK, configVars, eventVars, gateVars, callVars, budgetVars, sweepVars
<1> QED
  BY <1>1, <1>2, <1>3, <1>4, <1>5 DEF CopyStep

\* What happens to a destination.
LEMMA DestStepType ==
  ASSUME TypeOK, NEW d \in Dests, DestStep(d)
  PROVE  TypeOK'
<1>1. CASE RequeueUnreconciled(d)
  <2>1. \E C : Requeue(C)
    BY <1>1 DEF RequeueUnreconciled
  <2> QED
    BY <1>1, <2>1, RequeueType
    DEF RequeueUnreconciled, OperatorCall, TypeOK, configVars, eventVars, gateVars,
        budgetVars, sweepVars
<1>2. CASE Relocate(d)
  <2>1. status' \in [Copies -> Status]
    BY <1>2 DEF Relocate, TypeOK, Status
  <2>2. old_location' \in [Copies -> BOOLEAN]
    BY <1>2 DEF Relocate, TypeOK
  <2> QED
    BY <1>2, <2>1, <2>2
    DEF Relocate, OperatorCall, TypeOK, configVars, eventVars, gateVars,
        budgetVars, sweepVars
<1>3. CASE SetObserveOnly(d)
  BY <1>3
  DEF SetObserveOnly, OperatorCall, TypeOK, eventVars, copyVars, gateVars, budgetVars,
      sweepVars
<1> QED
  BY <1>1, <1>2, <1>3 DEF DestStep

\* The calls for a whole event.
LEMMA CallStepType ==
  ASSUME TypeOK, NEW r \in Calls, CallStep(r)
  PROVE  TypeOK'
<1>1. CASE BeginCall(r)
  BY <1>1
  DEF BeginCall, OperatorCall, TypeOK, configVars, eventVars, copyVars, gateVars,
      budgetVars, sweepVars
<1>2. ASSUME EndCall(r)
      PROVE  call' \in [Calls -> [op: EventOp \cup {Null}, event: Events \cup {Null}]]
  BY <1>2 DEF EndCall, NoCall, TypeOK
<1>3. CASE FinishCancel(r)
  <2>1. cancelled' \in [Events -> BOOLEAN]
    BY <1>3 DEF FinishCancel, TypeOK
  <2>2. status' \in [Copies -> Status]
    BY <1>3 DEF FinishCancel, TypeOK, Status
  <2> QED
    BY <1>2, <1>3, <2>1, <2>2
    DEF FinishCancel, TypeOK, configVars, gateVars, budgetVars, sweepVars
<1>4. CASE FinishReschedule(r)
  <2>1. not_before' \in [Copies -> BOOLEAN]
    BY <1>4 DEF FinishReschedule, TypeOK
  <2> QED
    BY <1>2, <1>4, <2>1
    DEF FinishReschedule, TypeOK, configVars, eventVars, budgetVars, sweepVars
<1>5. CASE FinishRequeue(r)
  BY <1>2, <1>5, RequeueType
  DEF FinishRequeue, TypeOK, configVars, eventVars, gateVars, budgetVars, sweepVars
<1> QED
  BY <1>1, <1>3, <1>4, <1>5 DEF CallStep, FinishCall

\* The reconciler.
LEMMA SweepStepType ==
  ASSUME TypeOK, NEW s \in Sweepers, SweepStep(s)
  PROVE  TypeOK'
<1>1. ASSUME NEW S \in SUBSET Awaiting, SweepSelect(s, S)
      PROVE  TypeOK'
  <2>1. S \subseteq Copies /\ {c \in S : Exhausted(c)} \subseteq Copies
    BY DEF Awaiting
  <2>2. found' \in [Sweepers -> SUBSET Copies] /\ exhausted' \in [Sweepers -> SUBSET Copies]
    BY <1>1, <2>1 DEF SweepSelect, TypeOK
  <2> QED
    BY <1>1, <2>2
    DEF SweepSelect, TypeOK, configVars, eventVars, copyVars, gateVars, budgetVars, callVars
<1>2. CASE SweepCommit(s)
  <2>1. status' \in [Copies -> Status] /\ reconcile_state' \in [Copies -> ReconcileState]
    BY <1>2 DEF SweepCommit, TypeOK, Status, ReconcileState
  <2>2. found' \in [Sweepers -> SUBSET Copies] /\ exhausted' \in [Sweepers -> SUBSET Copies]
    BY <1>2 DEF SweepCommit, TypeOK
  <2> QED
    BY <1>2, <2>1, <2>2
    DEF SweepCommit, TypeOK, configVars, eventVars, gateVars, budgetVars, callVars
<1> QED
  BY <1>1, <1>2 DEF SweepStep

\* Every step keeps the types.
LEMMA NextType ==
  ASSUME TypeOK, [Next]_vars
  PROVE  TypeOK'
<1>1. ASSUME NEW n \in Thresholds \cup {Null}, SetAckThreshold(n)
      PROVE  TypeOK'
  BY <1>1
  DEF SetAckThreshold, OperatorCall, TypeOK, eventVars, copyVars, gateVars, budgetVars,
      sweepVars
<1>2. ASSUME NEW S \in SUBSET Overdue, ExpireDueDeliveries(S)
      PROVE  TypeOK'
  <2>1. status' \in [Copies -> Status]
    BY <1>2 DEF ExpireDueDeliveries, TypeOK, Status
  <2> QED
    BY <1>2, <2>1 DEF ExpireDueDeliveries, TypeOK, configVars, eventVars, gateVars,
                      callVars, budgetVars, sweepVars
<1>3. CASE UNCHANGED vars
  BY <1>3
  DEF vars, configVars, eventVars, copyVars, gateVars, callVars, TypeOK, budgetVars,
      sweepVars
<1> QED
  BY <1>1, <1>2, <1>3, CallStepType, EventStepType, CopyStepType, DestStepType,
     SweepStepType DEF Next

----------------------------------------------------------------------------
(***************************************************************************)
(* The copies.                                                             *)
(***************************************************************************)
\* What workers, receipts, sweeps and operator calls may do to a copy.
Transit(c) ==
  \/ /\ status'[c] = status[c]
     /\ reconcile_state'[c] = reconcile_state[c]
  \/ /\ status[c] \in {"pending", "in_flight", "delivered", "dead_lettered"}
     /\ status'[c] # "absent"
     /\ reconcile_state[c] # "acknowledged"
     /\ reconcile_state'[c] \in {"awaiting", "acknowledged"} =>
          status'[c] = "delivered"
  \/ /\ SweptLate(c)
     /\ status[c] # "absent" /\ status'[c] # "absent"
     /\ reconcile_state'[c] = "timed_out"

\* The steps that move copies, and cancel_event among them.
LEMMA TransitKeeps ==
  ASSUME IInv, \A c \in Copies : Transit(c),
         \A e \in Events : /\ cancelled[e] => cancelled'[e]
                           /\ cancelled'[e] => stored[e]
                           /\ CancelsAll(e),
         UNCHANGED <<stored, required_ack_count, observe_only>>
  PROVE  StoredMove /\ VerdictsFit' /\ CopiesFit' /\ CancelledFit'
<1>1. \A e \in Events : stored[e] => EventMoves(e)
  BY DEF EventMoves
<1>2. \A c \in Copies : CopyMoves(c)
  BY DEF CopyMoves, Transit
<1>3. VerdictsFit'
  BY DEF Transit, IInv, VerdictsFit
<1>4. CopiesFit'
  BY <1>2 DEF CopyMoves, IInv, CopiesFit
<1>5. CancelledFit'
  BY DEF CancelledFit
<1> QED
  BY <1>1, <1>2, <1>3, <1>4, <1>5 DEF StoredMove

\* The fan-out: the copies are new.
LEMMA FanOutKeeps ==
  ASSUME IInv, NEW e \in Events, NEW C, NEW S, FanOut(e, C, S),
         C \subseteq {c \in Copies : c[1] = e}
  PROVE  StoredMove /\ VerdictsFit' /\ CopiesFit' /\ CancelledFit'
<1>1. /\ ~stored[e] /\ stored'[e]
      /\ \A f \in Events : f # e => /\ stored'[f] = stored[f]
                                    /\ required_ack_count'[f] = required_ack_count[f]
      /\ UNCHANGED <<cancelled, reconcile_state>>
  BY DEF FanOut, IInv, TypeOK
<1>2. \A c \in Copies : /\ c \in C => /\ c[1] = e /\ status[c] = "absent"
                                      /\ status'[c] = "pending"
                        /\ c \notin C => /\ status'[c] = status[c]
                                         /\ observe_only'[c] = observe_only[c]
  BY <1>1 DEF FanOut, IInv, CopiesFit
<1>3. \A f \in Events : CancelsAll(f) /\ (stored[f] => EventMoves(f))
  BY <1>1 DEF EventMoves, CancelsAll
<1>4. \A c \in Copies : stored[c[1]] => CopyMoves(c)
  BY <1>1, <1>2 DEF CopyMoves
<1>5. VerdictsFit'
  BY <1>1, <1>2 DEF IInv, VerdictsFit
<1>6. CopiesFit'
  BY <1>1, <1>2, CopyFacts DEF IInv, CopiesFit
<1>7. CancelledFit'
  BY <1>1, <1>2 DEF IInv, CancelledFit
<1> QED
  BY <1>3, <1>4, <1>5, <1>6, <1>7 DEF StoredMove

\* A requeue of copies whose verdict is bad, or of parked ones.
LEMMA SendAgainTransits ==
  ASSUME IInv, NEW C, SendAgain(C),
         \A c \in C : \/ Requeueable(c)
                      \/ status[c] = "dead_lettered"
  PROVE  \A c \in Copies : Transit(c)
<1> SUFFICES ASSUME NEW c \in Copies
             PROVE  Transit(c)
  OBVIOUS
<1>1. /\ status'[c] = IF c \in C THEN "pending" ELSE status[c]
      /\ reconcile_state'[c] = IF c \in C THEN "none" ELSE reconcile_state[c]
  BY DEF SendAgain
<1>2. c \in C => /\ status[c] \in {"delivered", "dead_lettered"}
                 /\ reconcile_state[c] # "acknowledged"
  BY DEF Requeueable, IInv, VerdictsFit
<1> QED
  BY <1>1, <1>2 DEF Transit

\* Every step moves stored events and their copies in order.
LEMMA NextKeeps ==
  ASSUME IInv, [Next]_vars
  PROVE  StoredMove /\ VerdictsFit' /\ CopiesFit' /\ CancelledFit'
<1> DEFINE Goal == StoredMove /\ VerdictsFit' /\ CopiesFit' /\ CancelledFit'
<1>0. status \in [Copies -> Status] /\ reconcile_state \in [Copies -> ReconcileState]
  BY DEF IInv, TypeOK
<1>1. ASSUME \A c \in Copies : Transit(c), UNCHANGED <<eventVars, observe_only>>
      PROVE  Goal
  <2>1. \A e \in Events : /\ cancelled[e] => cancelled'[e]
                          /\ cancelled'[e] => stored[e]
                          /\ CancelsAll(e)
    BY <1>1 DEF eventVars, IInv, CancelledFit, CancelsAll
  <2> QED
    BY <1>1, <2>1, TransitKeeps DEF eventVars
<1>2. ASSUME UNCHANGED <<eventVars, observe_only, status, reconcile_state>>
      PROVE  Goal
  BY <1>1, <1>2 DEF Transit
<1>3. ASSUME NEW e \in Events, EventStep(e)
      PROVE  Goal
  <2>1. CASE StoreEvent(e)
    <3> DEFINE C == {e} \X Dests
    <3>1. C \subseteq {c \in Copies : c[1] = e} /\ \E S : FanOut(e, C, S)
      BY <2>1 DEF StoreEvent, Copies
    <3> HIDE DEF C
    <3> QED
      BY <3>1, FanOutKeeps
  <2>2. ASSUME NEW f \in Events, CreateCorrection(e, f)
        PROVE  Goal
    <3> DEFINE C == {c \in Copies : c[1] = e /\ delivered_at[<<f, c[2]>>]}
    <3>1. C \subseteq {c \in Copies : c[1] = e} /\ \E S : FanOut(e, C, S)
      BY <2>2 DEF CreateCorrection
    <3> HIDE DEF C
    <3> QED
      BY <3>1, FanOutKeeps
  <2>3. CASE \/ \E by \in {Null, "future"} : UpdateDeliverBy(e, by)
             \/ NotBeforePasses(e) \/ CutoffPasses(e)
    BY <1>2, <2>3 DEF UpdateDeliverBy, NotBeforePasses, CutoffPasses
  <2> QED
    BY <1>3, <2>1, <2>2, <2>3 DEF EventStep
<1>4. ASSUME NEW x \in Copies, CopyStep(x)
      PROVE  Goal
  <2>1. ASSUME NEW success \in BOOLEAN, RecordResult(x, success)
        PROVE  Goal
    <3>1. /\ status[x] = "in_flight" /\ UNCHANGED <<eventVars, observe_only>>
          /\ \A c \in Copies : c # x => /\ status'[c] = status[c]
                                        /\ reconcile_state'[c] = reconcile_state[c]
      BY <1>0, <2>1 DEF RecordResult
    <3>2. reconcile_state[x] \notin {"awaiting", "acknowledged"}
      BY <3>1 DEF IInv, VerdictsFit
    <3>3. /\ status'[x] # "absent"
          /\ reconcile_state'[x] = IF status'[x] = "delivered" THEN "awaiting"
                                   ELSE reconcile_state[x]
      BY <1>0, <2>1 DEF RecordResult
    <3>4. \A c \in Copies : Transit(c)
      BY <3>1, <3>2, <3>3 DEF Transit
    <3> QED
      BY <1>1, <3>1, <3>4
  <2>2. CASE IngestReceipt(x)
    <3>1. PICK outcome \in ReconcileState, parked \in BOOLEAN :
             Conclude(x, outcome, parked) /\ (outcome \in {"awaiting", "acknowledged"} => ~parked)
      <4>1. Exhausted(x) \in BOOLEAN
        BY DEF Exhausted
      <4> QED
        BY <2>2, <4>1, Zenon DEF IngestReceipt, ReconcileState
    <3>2. /\ UNCHANGED <<eventVars, observe_only>>
          /\ reconcile_state[x] = "awaiting" /\ reconcile_state'[x] = outcome
          /\ status'[x] = IF parked THEN "dead_lettered" ELSE status[x]
          /\ \A c \in Copies : c # x => /\ status'[c] = status[c]
                                        /\ reconcile_state'[c] = reconcile_state[c]
      BY <1>0, <3>1 DEF Conclude
    <3>3. status[x] = "delivered"
      BY <3>2 DEF IInv, VerdictsFit
    <3>4. \A c \in Copies : Transit(c)
      BY <3>1, <3>2, <3>3 DEF Transit
    <3> QED
      BY <1>1, <3>2, <3>4
  <2>3. CASE RequeueDelivery(x) \/ ReviveDeadLetter(x)
    <3>1. /\ SendAgain({x}) /\ UNCHANGED <<eventVars, observe_only>>
          /\ \A c \in {x} : Requeueable(c) \/ status[c] = "dead_lettered"
      BY <2>3 DEF RequeueDelivery, ReviveDeadLetter, Requeue
    <3> QED
      BY <1>1, <3>1, SendAgainTransits
  <2>4. CASE Claim(x)
    <3>1. /\ UNCHANGED <<eventVars, observe_only, reconcile_state>>
          /\ status[x] = "pending" /\ status'[x] = "in_flight"
          /\ \A c \in Copies : c # x => status'[c] = status[c]
      BY <1>0, <2>4 DEF Claim, Ready
    <3>2. \A c \in Copies : Transit(c)
      BY <3>1 DEF Transit, IInv, VerdictsFit
    <3> QED
      BY <1>1, <3>1, <3>2
  <2> QED
    BY <1>4, <2>1, <2>2, <2>3, <2>4 DEF CopyStep
<1>5. ASSUME NEW d \in Dests, DestStep(d)
      PROVE  Goal
  <2>1. CASE RequeueUnreconciled(d)
    <3>1. /\ UNCHANGED <<eventVars, observe_only>>
          /\ \E C : SendAgain(C) /\ \A c \in C : Requeueable(c)
      BY <2>1 DEF RequeueUnreconciled, Requeue
    <3> QED
      BY <1>1, <3>1, SendAgainTransits
  <2>2. CASE Relocate(d)
    <3>1. /\ UNCHANGED <<eventVars, observe_only, reconcile_state>>
          /\ \A c \in Copies : \/ status'[c] = status[c]
                               \/ status[c] = "pending" /\ status'[c] = "superseded"
      BY <2>2 DEF Relocate
    <3>2. \A c \in Copies : Transit(c)
      BY <3>1 DEF Transit, IInv, VerdictsFit
    <3> QED
      BY <1>1, <3>1, <3>2
  <2>3. CASE SetObserveOnly(d)
    BY <1>2, <2>3 DEF SetObserveOnly, copyVars
  <2> QED
    BY <1>5, <2>1, <2>2, <2>3 DEF DestStep
<1>6. ASSUME NEW r \in Calls, CallStep(r)
      PROVE  Goal
  <2>1. CASE BeginCall(r) \/ FinishReschedule(r)
    BY <1>2, <2>1 DEF BeginCall, FinishReschedule, copyVars
  <2>2. CASE FinishRequeue(r)
    <3>1. /\ UNCHANGED <<eventVars, observe_only>>
          /\ SendAgain(PullList(call[r].event))
      BY <2>2 DEF FinishRequeue, Requeue
    <3>2. \A c \in PullList(call[r].event) : Requeueable(c)
      BY DEF PullList
    <3> QED
      BY <1>1, <3>1, <3>2, SendAgainTransits
  <2>3. CASE FinishCancel(r)
    <3> DEFINE e == call[r].event
               accepted == ~cancelled[e] /\ StillQueued(e)
    <3>1. /\ UNCHANGED <<stored, required_ack_count, observe_only, reconcile_state,
                         delivered_at>>
          /\ \A f \in Events : cancelled'[f] = (cancelled[f] \/ (f = e /\ accepted))
          /\ \A c \in Copies : status'[c] = IF accepted /\ c[1] = e /\ status[c] = "pending"
                                            THEN "cancelled" ELSE status[c]
      BY <2>3 DEF FinishCancel, IInv, TypeOK
    <3>2. \A c \in Copies : Transit(c)
      BY <3>1 DEF Transit, IInv, VerdictsFit
    <3>3. e \in Events => stored[e]
      BY DEF IInv, CallsFit
    <3>4. accepted => \A c \in Copies : c[1] = e =>
                        status[c] \in {"absent", "pending", "cancelled"}
      BY DEF StillQueued, CopiesOf, In
    <3> HIDE DEF e, accepted
    <3>5. ASSUME NEW f \in Events
          PROVE  /\ cancelled[f] => cancelled'[f]
                 /\ cancelled'[f] => stored[f]
                 /\ CancelsAll(f)
      BY <3>1, <3>3, <3>4 DEF CancelsAll, IInv, CancelledFit
    <3> QED
      BY <3>1, <3>2, <3>5, TransitKeeps
  <2> QED
    BY <1>6, <2>1, <2>2, <2>3 DEF CallStep, FinishCall
<1>7. ASSUME NEW S \in SUBSET Overdue, ExpireDueDeliveries(S)
      PROVE  Goal
  <2>1. /\ UNCHANGED <<eventVars, observe_only, reconcile_state>>
        /\ \A c \in Copies : \/ status'[c] = status[c]
                             \/ status[c] = "pending" /\ status'[c] = "deadline_expired"
    BY <1>7 DEF ExpireDueDeliveries, Overdue
  <2>2. \A c \in Copies : Transit(c)
    BY <2>1 DEF Transit, IInv, VerdictsFit
  <2> QED
    BY <1>1, <2>1, <2>2
<1>8. CASE \E n \in Thresholds \cup {Null} : SetAckThreshold(n)
  BY <1>2, <1>8 DEF SetAckThreshold, copyVars
<1>9. CASE UNCHANGED vars
  BY <1>2, <1>9 DEF vars, copyVars
<1>10. ASSUME NEW s \in Sweepers, SweepStep(s)
       PROVE  Goal
  <2>1. ASSUME NEW S \in SUBSET Awaiting, SweepSelect(s, S)
        PROVE  Goal
    BY <1>2, <2>1 DEF SweepSelect, copyVars
  <2>2. CASE SweepCommit(s)
    <3>1. /\ UNCHANGED <<eventVars, observe_only>>
          /\ found'[s] = {} /\ exhausted[s] \subseteq found[s]
          /\ \A c \in Copies :
               /\ status'[c] = IF c \in exhausted[s] THEN "dead_lettered" ELSE status[c]
               /\ reconcile_state'[c] = IF c \in found[s] THEN "timed_out"
                                        ELSE reconcile_state[c]
      BY <2>2 DEF SweepCommit, IInv, TypeOK, SweepsFit
    <3>2. ASSUME NEW c \in Copies
          PROVE  Transit(c)
      <4>1. CASE c \notin found[s]
        BY <3>1, <4>1 DEF Transit
      <4>2. CASE c \in found[s] /\ reconcile_state[c] = "awaiting"
        <5>1. status[c] = "delivered"
          BY <4>2 DEF IInv, VerdictsFit
        <5> QED
          BY <3>1, <4>2, <5>1 DEF Transit
      <4>3. CASE c \in found[s] /\ reconcile_state[c] # "awaiting"
        <5>1. SweptLate(c) /\ status[c] # "absent"
          BY <3>1, <4>3 DEF SweptLate, IInv, SweepsFit
        <5> QED
          BY <3>1, <4>3, <5>1 DEF Transit
      <4> QED
        BY <4>1, <4>2, <4>3
    <3> QED
      BY <1>1, <3>1, <3>2
  <2> QED
    BY <1>10, <2>1, <2>2 DEF SweepStep
<1> QED
  BY <1>3, <1>4, <1>5, <1>6, <1>7, <1>8, <1>9, <1>10 DEF Next

\* Every call stays one for a stored event.
LEMMA NextCalls ==
  ASSUME IInv, [Next]_vars
  PROVE  CallsFit'
<1>1. \A e \in Events : stored[e] => stored'[e]
  BY NextKeeps DEF StoredMove, EventMoves
<1>2. CASE UNCHANGED call
  BY <1>1, <1>2 DEF IInv, CallsFit
<1>3. ASSUME NEW r \in Calls, BeginCall(r)
      PROVE  CallsFit'
  <2>1. PICK e \in Events, op \in EventOp :
           stored[e] /\ call' = [call EXCEPT ![r] = [op |-> op, event |-> e]]
    BY <1>3 DEF BeginCall
  <2>2. /\ call'[r].event = e
        /\ \A q \in Calls : q # r => call'[q] = call[q]
    BY <2>1 DEF IInv, TypeOK
  <2> QED
    BY <1>1, <2>1, <2>2 DEF IInv, CallsFit
<1>4. ASSUME NEW r \in Calls, EndCall(r)
      PROVE  CallsFit'
  <2>1. /\ call'[r].event = Null
        /\ \A q \in Calls : q # r => call'[q] = call[q]
    BY <1>4 DEF EndCall, NoCall, IInv, TypeOK
  <2> QED
    BY <1>1, <2>1, EventAssumption DEF IInv, CallsFit
<1>5. \/ UNCHANGED call
      \/ \E r \in Calls : BeginCall(r) \/ EndCall(r)
  <2>1. ASSUME NEW r \in Calls, CallStep(r) PROVE BeginCall(r) \/ EndCall(r)
    BY <2>1 DEF CallStep, FinishCall, FinishCancel, FinishReschedule, FinishRequeue
  <2>2. ASSUME NEW e \in Events, EventStep(e) PROVE UNCHANGED call
    BY <2>2 DEF EventStep, StoreEvent, CreateCorrection, FanOut, UpdateDeliverBy,
                NotBeforePasses, CutoffPasses, callVars
  <2>3. ASSUME NEW c \in Copies, CopyStep(c) PROVE UNCHANGED call
    BY <2>3 DEF CopyStep, Claim, RecordResult, IngestReceipt, Conclude,
                RequeueDelivery, ReviveDeadLetter, callVars
  <2>4. ASSUME NEW d \in Dests, DestStep(d) PROVE UNCHANGED call
    BY <2>4 DEF DestStep, RequeueUnreconciled, Relocate, SetObserveOnly,
                callVars
  <2>5. ASSUME \/ \E n \in Thresholds \cup {Null} : SetAckThreshold(n)
               \/ \E S \in SUBSET Overdue : ExpireDueDeliveries(S)
               \/ \E s \in Sweepers : SweepStep(s)
               \/ UNCHANGED vars
        PROVE  UNCHANGED call
    BY <2>5 DEF SetAckThreshold, ExpireDueDeliveries, SweepStep, SweepSelect,
                SweepCommit, callVars, vars
  <2> QED
    BY <2>1, <2>2, <2>3, <2>4, <2>5 DEF Next
<1> QED
  BY <1>2, <1>3, <1>4, <1>5

\* What a sweep has found stays a copy.
LEMMA NextSweeps ==
  ASSUME IInv, [Next]_vars
  PROVE  SweepsFit'
<1>1. \A c \in Copies : status[c] # "absent" => status'[c] # "absent"
  <2>1. \A c \in Copies : status[c] # "absent" => CopyMoves(c)
    BY NextKeeps DEF StoredMove, IInv, CopiesFit
  <2> QED
    BY <2>1 DEF CopyMoves
<1>2. \A s \in Sweepers : found[s] \subseteq Copies
  BY DEF IInv, TypeOK
<1>3. CASE UNCHANGED sweepVars
  BY <1>1, <1>2, <1>3 DEF sweepVars, IInv, SweepsFit
<1>4. ASSUME NEW s \in Sweepers, SweepStep(s)
      PROVE  SweepsFit'
  <2>1. ASSUME NEW S \in SUBSET Awaiting, SweepSelect(s, S)
        PROVE  SweepsFit'
    <3>1. \A c \in S : c \in Copies /\ status[c] # "absent"
      BY DEF Awaiting, IInv, VerdictsFit
    <3>2. /\ found'[s] = S /\ exhausted'[s] \subseteq S
          /\ \A q \in Sweepers : q # s => found'[q] = found[q] /\ exhausted'[q] = exhausted[q]
      BY <2>1 DEF SweepSelect, IInv, TypeOK
    <3> QED
      BY <1>1, <1>2, <3>1, <3>2 DEF IInv, SweepsFit
  <2>2. CASE SweepCommit(s)
    <3>1. /\ found'[s] = {} /\ exhausted'[s] = {}
          /\ \A q \in Sweepers : q # s => found'[q] = found[q] /\ exhausted'[q] = exhausted[q]
      BY <2>2 DEF SweepCommit, IInv, TypeOK
    <3> QED
      BY <1>1, <1>2, <3>1 DEF IInv, SweepsFit
  <2> QED
    BY <1>4, <2>1, <2>2 DEF SweepStep
<1>5. \/ UNCHANGED sweepVars
      \/ \E s \in Sweepers : SweepStep(s)
  <2>1. ASSUME NEW r \in Calls, CallStep(r) PROVE UNCHANGED sweepVars
    BY <2>1 DEF CallStep, BeginCall, FinishCall, FinishCancel, FinishReschedule,
                FinishRequeue
  <2>2. ASSUME NEW e \in Events, EventStep(e) PROVE UNCHANGED sweepVars
    BY <2>2 DEF EventStep, StoreEvent, CreateCorrection, FanOut, UpdateDeliverBy,
                NotBeforePasses, CutoffPasses
  <2>3. ASSUME NEW c \in Copies, CopyStep(c) PROVE UNCHANGED sweepVars
    BY <2>3 DEF CopyStep, Claim, RecordResult, IngestReceipt, Conclude,
                RequeueDelivery, ReviveDeadLetter
  <2>4. ASSUME NEW d \in Dests, DestStep(d) PROVE UNCHANGED sweepVars
    BY <2>4 DEF DestStep, RequeueUnreconciled, Relocate, SetObserveOnly
  <2>5. ASSUME \/ \E n \in Thresholds \cup {Null} : SetAckThreshold(n)
               \/ \E S \in SUBSET Overdue : ExpireDueDeliveries(S)
               \/ UNCHANGED vars
        PROVE  UNCHANGED sweepVars
    BY <2>5 DEF SetAckThreshold, ExpireDueDeliveries, vars
  <2> QED
    BY <2>1, <2>2, <2>3, <2>4, <2>5 DEF Next
<1> QED
  BY <1>3, <1>4, <1>5

----------------------------------------------------------------------------
(***************************************************************************)
(* The theorems.                                                           *)
(***************************************************************************)
\* The inductive invariant of the event operations.
THEOREM EventInvariant == Spec => []IInv
<1>1. Init => IInv
  BY InitType, EventAssumption, CopyFacts
  DEF Init, IInv, VerdictsFit, CopiesFit, CallsFit, CancelledFit, SweepsFit, NoCall
<1>2. IInv /\ [Next]_vars => IInv'
  <2> SUFFICES ASSUME IInv, [Next]_vars
               PROVE  IInv'
    OBVIOUS
  <2>1. TypeOK'
    BY NextType DEF IInv
  <2> QED
    BY <2>1, NextKeeps, NextCalls, NextSweeps DEF IInv
<1> QED
  BY <1>1, <1>2, PTL DEF Spec

\* The acknowledged copies are live ones, and both are finitely many.
LiveFacts(e) ==
  LET A == {c \in Real(e) : reconcile_state[c] = "acknowledged"}
      L == Live(Real(e))
  IN  /\ A \subseteq L
      /\ IsFiniteSet(L) /\ Cardinality(L) \in Nat
      /\ IsFiniteSet(A) /\ Cardinality(A) \in Nat
      /\ A # {} => Cardinality(L) > 0

\* An acknowledged copy is delivered, so it is neither superseded nor expired.
LEMMA AcknowledgedAreLive == IInv => \A e \in Events : LiveFacts(e)
<1> SUFFICES ASSUME IInv, NEW e \in Events
             PROVE  LiveFacts(e)
  OBVIOUS
<1> DEFINE A == {c \in Real(e) : reconcile_state[c] = "acknowledged"}
           L == Live(Real(e))
<1>1. A \subseteq L
  BY DEF Live, In, Real, CopiesOf, IInv, VerdictsFit
<1>2. L \subseteq {c \in Copies : c[1] = e} /\ A \subseteq {c \in Copies : c[1] = e}
  BY DEF Live, Real, CopiesOf
<1> HIDE DEF A, L
<1>3. IsFiniteSet(L) /\ Cardinality(L) \in Nat /\ IsFiniteSet(A) /\ Cardinality(A) \in Nat
  BY <1>2, FiniteCopies
<1>4. A # {} => Cardinality(L) > 0
  <2>1. Cardinality(L) = 0 <=> L = {}
    BY <1>3, FS_EmptySet
  <2> QED
    BY <1>1, <1>3, <2>1
<1> QED
  BY <1>1, <1>3, <1>4 DEF LiveFacts, A, L

\* What event_response calls acknowledged leaves requeue_event_unreconciled nothing to
\* send.  Where the two disagree about the number required, because expired copies
\* count for the one and not for the other, every live copy is acknowledged.
THEOREM AcknowledgedIsNotPulled == Spec => []NothingToPullOnceAcknowledged
<1>1. IInv => NothingToPullOnceAcknowledged
  <2> SUFFICES ASSUME IInv, NEW e \in Events, Acknowledged(e)
               PROVE  PullList(e) = {}
    BY DEF NothingToPullOnceAcknowledged
  <2> DEFINE A == {c \in Real(e) : reconcile_state[c] = "acknowledged"}
             L == Live(Real(e))
             P == Real(e) \ In(Real(e), {"superseded"})
             n == required_ack_count[e]
  <2>1. /\ A \subseteq L
        /\ IsFiniteSet(L) /\ Cardinality(L) \in Nat /\ Cardinality(A) \in Nat
    BY AcknowledgedAreLive DEF LiveFacts
  <2>2. L \subseteq P /\ P \subseteq {c \in Copies : c[1] = e}
    BY DEF Live, In, Real, CopiesOf
  <2>3. IsFiniteSet(P) /\ Cardinality(P) \in Nat
    <3> HIDE DEF P
    <3> QED
      BY <2>2, FiniteCopies
  <2>4. n \in Nat
    BY DEF IInv, TypeOK
  <2>5. /\ AtMost(n, Cardinality(L)) > 0
        /\ Cardinality(A) >= AtMost(n, Cardinality(L))
    BY DEF Acknowledged, AcknowledgedCount
  <2>6. PullList(e) = IF /\ AtMost(n, Cardinality(P)) > 0
                         /\ Cardinality(A) >= AtMost(n, Cardinality(P))
                      THEN {} ELSE {c \in Real(e) : Requeueable(c)}
    BY DEF PullList, AcknowledgedCount
  <2>7. {c \in Real(e) : Requeueable(c)} \subseteq L \ A
    BY DEF Live, In, Requeueable
  <2> HIDE DEF A, L, P, n
  <2>8. Cardinality(L) <= Cardinality(P)
    BY <2>2, <2>3, FS_Subset
  <2>9. CASE n <= Cardinality(L)
    BY <2>1, <2>3, <2>4, <2>5, <2>6, <2>8, <2>9 DEF AtMost
  <2>10. CASE n > Cardinality(L)
    <3>1. Cardinality(A) >= Cardinality(L)
      BY <2>1, <2>4, <2>5, <2>10 DEF AtMost
    <3>2. A = L
      BY <2>1, <3>1, FS_Subset
    <3> QED
      BY <2>6, <2>7, <3>2
  <2> QED
    BY <2>1, <2>4, <2>9, <2>10
<1> QED
  BY <1>1, EventInvariant, PTL

\* An acknowledged event stays acknowledged, unless a late sweep writes to one of its
\* copies: its acknowledgements are kept, no copy becomes live again, and those
\* acknowledged are always live.
THEOREM AcknowledgedEventsStay == Spec => AcknowledgedForGood
<1>0. (IInv => \A e \in Events : LiveFacts(e))'
  BY AcknowledgedAreLive, PTL
<1>1. ASSUME IInv, IInv', Next, NEW e \in Events, Acknowledged(e),
             \A c \in Real(e) : ~SweptLate(c)
      PROVE  Acknowledged(e)'
  <2> DEFINE A == {c \in Real(e) : reconcile_state[c] = "acknowledged"}
             L == Live(Real(e))
             n == required_ack_count[e]
  <2>1. /\ A \subseteq L
        /\ IsFiniteSet(L) /\ Cardinality(L) \in Nat
        /\ IsFiniteSet(A) /\ Cardinality(A) \in Nat
    BY <1>1, AcknowledgedAreLive DEF LiveFacts
  <2>2. /\ A' \subseteq L'
        /\ IsFiniteSet(L') /\ Cardinality(L') \in Nat
        /\ IsFiniteSet(A') /\ Cardinality(A') \in Nat
        /\ A' # {} => Cardinality(L') > 0
    BY <1>0, <1>1 DEF LiveFacts
  <2>3. n > 0 /\ n \in Nat /\ Cardinality(L) > 0 /\ Cardinality(A) >= AtMost(n, Cardinality(L))
    BY <1>1, <2>1 DEF Acknowledged, AcknowledgedCount, AtMost, IInv, TypeOK
  <2>4. A # {}
    <3> HIDE DEF A, L, n
    <3> QED
      BY <2>1, <2>3, FS_EmptySet DEF AtMost
  <2>5. stored[e]
    BY <1>1, <2>4 DEF Real, CopiesOf, IInv, CopiesFit
  <2>6. n' = n /\ \A c \in Copies : c[1] = e => CopyMoves(c)
    BY <1>1, <2>5, NextKeeps DEF StoredMove, EventMoves
  <2>7. A \subseteq A'
    BY <1>1, <2>6 DEF CopyMoves, Real, CopiesOf
  <2>8. L' \subseteq L
    BY <1>1, <2>6 DEF CopyMoves, Real, CopiesOf, Live, In
  <2> HIDE DEF A, L, n
  <2>9. Cardinality(A) <= Cardinality(A') /\ Cardinality(L') <= Cardinality(L)
    BY <2>1, <2>2, <2>7, <2>8, FS_Subset
  <2>10. AtMost(n', Cardinality(L')) > 0 /\ Cardinality(A') >= AtMost(n', Cardinality(L'))
    BY <2>1, <2>2, <2>3, <2>4, <2>6, <2>7, <2>9 DEF AtMost
  <2> QED
    BY <2>10 DEF Acknowledged, AcknowledgedCount, AtMost, A, L, n
<1>2. IInv /\ IInv' /\ [Next]_vars =>
        [\A e \in Events : Acknowledged(e) =>
           Acknowledged(e)' \/ \E c \in Real(e) : SweptLate(c)]_vars
  BY <1>1
<1> QED
  BY <1>2, EventInvariant, PTL DEF Spec, AcknowledgedForGood

\* A cancelled event stays cancelled; it was cancelled with all its copies, and only a
\* late sweep moves one of them.
THEOREM CancelledEventsStay == Spec => CancelledForGood
<1>1. ASSUME IInv, Next, NEW e \in Events
      PROVE  /\ cancelled[e] => cancelled'[e]
             /\ cancelled'[e] => \A c \in CopiesOf(e) :
                  \/ status'[c] = "cancelled"
                  \/ SweptLate(c)
                  \/ cancelled[e] /\ status[c] # "cancelled"
  <2>1. StoredMove
    BY <1>1, NextKeeps
  <2>2. cancelled[e] => cancelled'[e]
    BY <1>1, <2>1 DEF StoredMove, EventMoves, IInv, CancelledFit
  <2>3. ASSUME NEW c \in CopiesOf(e), cancelled'[e]
        PROVE  \/ status'[c] = "cancelled"
               \/ SweptLate(c)
               \/ cancelled[e] /\ status[c] # "cancelled"
    <3>1. c \in Copies /\ c[1] = e /\ status[c] # "absent"
      BY DEF CopiesOf
    <3>2. CopyMoves(c)
      BY <1>1, <2>1, <3>1 DEF StoredMove, IInv, CopiesFit
    <3>3. CASE cancelled[e]
      BY <3>2, <3>3 DEF CopyMoves
    <3>4. CASE ~cancelled[e]
      BY <2>1, <2>3, <3>1, <3>2, <3>4 DEF StoredMove, CancelsAll, CopyMoves
    <3> QED
      BY <3>3, <3>4
  <2> QED
    BY <2>2, <2>3
<1>2. IInv /\ [Next]_vars =>
        [\A e \in Events :
           /\ cancelled[e] => cancelled'[e]
           /\ cancelled'[e] => \A c \in CopiesOf(e) :
                \/ status'[c] = "cancelled"
                \/ SweptLate(c)
                \/ cancelled[e] /\ status[c] # "cancelled"]_vars
  BY <1>1
<1> QED
  BY <1>2, EventInvariant, PTL DEF Spec, CancelledForGood
============================================================================
