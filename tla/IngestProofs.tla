--------------------------- MODULE IngestProofs ---------------------------
(***************************************************************************)
(* Theorems about Ingest, for all sets of requests, keys, bodies,          *)
(* conditions, destinations and chains, whatever the conditions judge.     *)
(***************************************************************************)
EXTENDS Ingest, FiniteSetTheorems, TLAPS

\* Every event has one request, which has it open or has committed it.
EventsFit ==
  /\ \A r \in Requests :
       /\ pc[r] \notin {"new", "done"} => push[r] # Nothing
       /\ pc[r] \in {"route", "lock", "copy"} =>
            events[push[r].key].owner = r /\ ~events[push[r].key].committed
  /\ \A k \in Keys : events[k].owner = Null => events[k] = NoEvent
  /\ \A k \in Keys, r \in Requests : events[k].owner = r =>
       /\ push[r].key = k
       /\ IF events[k].committed THEN pc[r] = "done"
          ELSE pc[r] \in {"route", "lock", "copy"}

\* An answer is given at the end, and is true.
AnswersFit ==
  \A r \in Requests : attempt[r] \in Stored \cup {"duplicate"} =>
    /\ pc[r] = "done"
    /\ push[r] # Nothing
    /\ IsStored(push[r].key)
    /\ attempt[r] \in Stored => events[push[r].key].owner = r

\* Locks are exclusive and kept to the end; what was confirmed under a lock is.
LocksFit ==
  /\ \A r \in Requests : pc[r] \notin {"lock", "copy"} => held[r] = {}
  /\ \A r, s \in Requests : \A d \in Dests : d \in held[r] /\ d \in held[s] => r = s
  /\ \A r \in Requests : \A row \in subscribers[r] :
       row[1] \in held[r] /\ (along[r] = Null => confirmed[row[1]])
  /\ \A r \in Requests : pc[r] \in {"lock", "copy"} /\ along[r] # Null =>
       \A d \in Range(along[r]) :
         d \in held[r] \/ (pc[r] = "lock" /\ <<d, Null>> \in listed[r])

InsertedAt(r, d) == {x \in Inserted(r) : x.dest = d}

\* Uncommitted rows are the last ones of destinations their request has locked.
RowsFit ==
  /\ IsFiniteSet(deliveries)
  /\ \A x \in deliveries :
       /\ events[x.key].owner # Null
       /\ ~events[x.key].committed =>
            /\ pc[events[x.key].owner] = "copy"
            /\ x.dest \in held[events[x.key].owner]
       /\ x.seq <= next_event_seq[x.dest]
  /\ \A x, y \in deliveries : x.dest = y.dest /\ x.seq = y.seq => x = y
  /\ \A r \in Requests : \A d \in held[r] : pc[r] = "copy" =>
       /\ Cardinality(InsertedAt(r, d)) <= next_event_seq[d]
       /\ \A x \in deliveries : x.dest = d /\ events[x.key].owner # r =>
            x.seq + Cardinality(InsertedAt(r, d)) <= next_event_seq[d]

Made(k) == {<<x.dest, x.kind>> : x \in Rows(k)}

\* What is inserted and what is still to be inserted is what was decided.
PlanFor(r) ==
  /\ todo[r] \cup Made(push[r].key) = Copies(r)
  /\ todo[r] \cap Made(push[r].key) = {}
  /\ \A d \in Dests : <<d, "preview">> \in todo[r] => <<d, "body">> \in todo[r]
  /\ events[push[r].key].required = Required(r)
  /\ events[push[r].key].disposition = "accepted" <=> Copies(r) # {}

PlanFits == \A r \in Requests : pc[r] = "copy" => PlanFor(r)

\* An event has at most one preview and one body for a destination.
CopiesDiffer ==
  \A x, y \in deliveries :
    /\ x.key = y.key /\ x.dest = y.dest
    /\ x.kind = y.kind \/ (x.kind # "preview" /\ y.kind # "preview")
    => x = y

\* A preview's body is right behind it, or is the next copy of its destination.
PairsFit ==
  \A x \in deliveries : x.kind = "preview" =>
    \/ \E y \in Rows(x.key) :
         y.dest = x.dest /\ y.kind = "body" /\ y.seq = x.seq + 1
    \/ /\ ~events[x.key].committed
       /\ x.seq = next_event_seq[x.dest]
       /\ <<x.dest, "body">> \in todo[events[x.key].owner]

\* Only committed fan-outs have rows of other events behind them, and the rows of
\* two events are in one order wherever they meet.
StoredFirst ==
  /\ \A x, y \in deliveries :
       x.dest = y.dest /\ x.key # y.key /\ x.seq < y.seq => IsStored(x.key)
  /\ \A x, y, u, v \in deliveries :
       /\ x.key = y.key /\ u.key = v.key /\ x.key # u.key
       /\ x.dest = u.dest /\ y.dest = v.dest /\ x.seq < u.seq
       => y.seq <= v.seq

IInv == /\ TypeOK
        /\ EventsFit
        /\ AnswersFit
        /\ LocksFit
        /\ RowsFit
        /\ PlanFits
        /\ CopiesDiffer
        /\ PairsFit
        /\ StoredFirst
        /\ QuorumWithinCopies

----------------------------------------------------------------------------
(***************************************************************************)
(* The operators of the model.                                             *)
(***************************************************************************)
\* A set of numbers has a first one.
LEMMA LeastExists ==
  ASSUME NEW S \in SUBSET Nat, S # {}
  PROVE  \E k \in S : \A j \in S : k <= j
<1> DEFINE R == {ss \in Nat \X Nat : ss[1] < ss[2]}
<1>1. IsWellFoundedOn(R, Nat)
  BY NatLessThanWellFounded, Zenon DEF OpToRel
<1>2. PICK k \in S : \A j \in S : ~(<<j, k>> \in R)
  <2> HIDE DEF R
  <2> QED
    BY <1>1, WFMin, Zenon
<1>3. \A j \in S : ~(j < k)
  BY <1>2
<1> QED
  BY <1>3

\* A refusal is recorded under a reason, or not recorded at all.
LEMMA VerdictType ==
  ASSUME NEW h \in Header, Verdict(h) # "admitted"
  PROVE  Verdict(h) \in Rejected \cup {Null}
<1> DEFINE checks ==
        << <<h.signed_at = "garbled", Null>>,
           <<h.source = "malformed", "source_unknown">>,
           <<h.signed_at = "missing", "invalid_timestamp">>,
           <<h.signature = 0, "bad_signature">>,
           <<h.source = "unknown", "source_unknown">>,
           <<h.signature # secret, "bad_signature">>,
           <<h.signed_at = "stale", "stale_timestamp">>,
           <<h.signed_at = "future", "future_timestamp">>,
           <<disabled, "source_disabled">>,
           <<~h.wellformed, "invalid_body">> >>
<1> DEFINE failed == {i \in DOMAIN checks : checks[i][1]}
<1>1. Verdict(h) = IF failed = {} THEN "admitted" ELSE checks[Min(failed)][2]
  BY DEF Verdict
<1>2. DOMAIN checks = 1..10
  OBVIOUS
<1>3. \A i \in 1..10 : checks[i][2] \in Rejected \cup {Null}
  BY DEF Rejected
<1>4. failed \in SUBSET (1..10) /\ failed # {}
  BY <1>1, <1>2
<1> HIDE DEF checks, failed
<1>5. Min(failed) \in failed
  <2>1. \E k \in failed : \A j \in failed : k <= j
    BY <1>4, LeastExists
  <2> QED
    BY <2>1 DEF Min
<1> QED
  BY <1>1, <1>3, <1>4, <1>5

\* The row that is locked next is one of those listed.
LEMMA NextToLockListed ==
  ASSUME TypeOK, NEW r \in Requests, listed[r] # {}
  PROVE  NextToLock(r) \in listed[r]
<1>1. listed[r] \subseteq Row
  BY DEF TypeOK
<1> DEFINE ids == {row[1] : row \in listed[r]}
<1>2. ids \in SUBSET Nat /\ ids # {}
  <2>1. ASSUME NEW row \in listed[r] PROVE row[1] \in Nat
    BY <1>1, IngestAssumption DEF Row
  <2> QED
    BY <2>1
<1>3. PICK k \in ids : \A j \in ids : k <= j
  <2> HIDE DEF ids
  <2> QED
    BY <1>2, LeastExists
<1>4. \E row \in listed[r] : \A other \in listed[r] : row[1] <= other[1]
  BY <1>3
<1> QED
  BY <1>4 DEF NextToLock

\* Copies go to destinations, and are of a kind.
LEMMA CopiesType ==
  ASSUME TypeOK, NEW r \in Requests
  PROVE  Routed(r) \subseteq Dests /\ Copies(r) \in SUBSET (Dests \X Kinds)
<1>1. Routed(r) \subseteq Dests
  BY DEF TypeOK, Routed, Row
<1>2. along[r] # Null => Range(along[r]) \subseteq Dests
  BY IngestAssumption DEF TypeOK, Range
<1> QED
  BY <1>1, <1>2 DEF Copies, Kinds

\* What is asked of an event is a number.
LEMMA RequiredType ==
  ASSUME TypeOK, NEW r \in Requests
  PROVE  Required(r) \in Nat
<1>1. Routed(r) \ Shadow \subseteq Dests
  BY CopiesType
<1>2. IsFiniteSet(Routed(r) \ Shadow)
  BY <1>1, FS_Subset, IngestAssumption
<1>3. Cardinality(Routed(r) \ Shadow) \in Nat
  BY <1>2, FS_CardinalityType
<1>4. along[r] # Null => Len(along[r]) \in Nat
  BY IngestAssumption DEF TypeOK
<1> QED
  BY <1>3, <1>4, IngestAssumption DEF Required

\* The outcome is one of a stored event, and "accepted" when there are copies.
LEMMA OutcomeType ==
  ASSUME TypeOK, NEW r \in Requests
  PROVE  /\ Outcome(r) \in Stored
         /\ Outcome(r) = "accepted" <=> Copies(r) # {}
<1>1. along[r] # Null => Range(along[r]) # {}
  BY IngestAssumption DEF TypeOK, Range
<1>2. Copies(r) # {} <=> along[r] # Null \/ Routed(r) # {}
  <2>1. \A S, T : S # {} /\ T # {} => S \X T # {}
    <3>1. ASSUME NEW S, NEW T, S # {}, T # {} PROVE S \X T # {}
      <4>1. PICK a \in S, b \in T : TRUE
        BY <3>1
      <4>2. <<a, b>> \in S \X T
        BY <4>1
      <4> QED
        BY <4>2
    <3> QED
      BY <3>1
  <2>2. CASE along[r] # Null
    BY <1>1, <2>1, <2>2 DEF Copies
  <2>3. CASE along[r] = Null /\ Routed(r) # {}
    BY <2>1, <2>3 DEF Copies
  <2>4. CASE along[r] = Null /\ Routed(r) = {}
    BY <2>4 DEF Copies
  <2> QED
    BY <2>2, <2>3, <2>4
<1>3. CASE along[r] # Null \/ Routed(r) # {}
  BY <1>2, <1>3 DEF Outcome, Stored
<1>4. CASE ~(along[r] # Null \/ Routed(r) # {})
  BY <1>2, <1>4 DEF Outcome, Stored
<1> QED
  BY <1>3, <1>4

----------------------------------------------------------------------------
(***************************************************************************)
(* Types.                                                                  *)
(***************************************************************************)
\* The columns that an ended request leaves behind.
LEMMA EndedType ==
  ASSUME TypeOK, NEW r \in Requests,
         NEW x \in Stored \cup Rejected \cup {"duplicate", Null}, Ended(r, x)
  PROVE  /\ pc' \in [Requests -> {"new", "policy", "chain", "insert", "route", "lock",
                                  "copy", "done"}]
         /\ gated' \in [Requests -> BOOLEAN]
         /\ along' \in [Requests -> Chains \cup {Null}]
         /\ listed' \in [Requests -> SUBSET Row]
         /\ held' \in [Requests -> SUBSET Dests]
         /\ subscribers' \in [Requests -> SUBSET Row]
         /\ todo' \in [Requests -> SUBSET (Dests \X Kinds)]
         /\ attempt' \in [Requests -> Stored \cup Rejected \cup {"duplicate", Null}]
BY DEF TypeOK, Ended

\* The statements of a request before it has an event.
LEMMA EarlyType ==
  ASSUME TypeOK, NEW r \in Requests,
         Admit(r) \/ ReadPolicy(r) \/ ReadChain(r) \/ Route(r)
  PROVE  TypeOK'
<1>1. CASE Admit(r)
  <2>1. UNCHANGED <<sourceVars, destVars, typeVars, storeVars, boundVars>>
    BY <1>1 DEF Admit
  <2>2. PICK verdict \in {Verdict(h) : h \in Header} :
       \/ verdict # "admitted" /\ Ended(r, verdict) /\ UNCHANGED push
       \/ /\ verdict = "admitted"
          /\ \E p \in Pushes : push' = [push EXCEPT ![r] = p]
          /\ pc' = [pc EXCEPT ![r] = "policy"]
          /\ UNCHANGED <<gated, along, listed, held, subscribers, todo, attempt>>
    BY <1>1 DEF Admit
  <2>3. CASE verdict # "admitted" /\ Ended(r, verdict) /\ UNCHANGED push
    <3>1. verdict \in Rejected \cup {Null}
      BY <2>2, <2>3, VerdictType
    <3> QED
      BY <2>1, <2>3, <3>1, EndedType DEF TypeOK, sourceVars, destVars, typeVars,
           storeVars, boundVars
  <2>4. CASE ~(verdict # "admitted" /\ Ended(r, verdict) /\ UNCHANGED push)
    BY <2>1, <2>2, <2>4 DEF TypeOK, sourceVars, destVars, typeVars, storeVars, boundVars
  <2> QED
    BY <2>3, <2>4
<1>2. CASE ReadPolicy(r)
  <2>1. UNCHANGED <<sourceVars, destVars, typeVars, storeVars, push, boundVars>>
    BY <1>2 DEF ReadPolicy
  <2>2. CASE Ended(r, "invalid_body")
    BY <2>1, <2>2, EndedType DEF TypeOK, sourceVars, destVars, typeVars,
         storeVars, boundVars, Rejected
  <2>3. CASE ~Ended(r, "invalid_body")
    BY <1>2, <2>1, <2>3 DEF ReadPolicy, TypeOK, sourceVars, destVars, typeVars,
         storeVars, boundVars
  <2> QED
    BY <2>2, <2>3
<1>3. CASE ReadChain(r)
  BY <1>3 DEF ReadChain, TypeOK, sourceVars, destVars, typeVars, storeVars, boundVars
<1>4. CASE Route(r)
  <2>1. Listed(r) \in SUBSET Row
    <3>1. along[r] # Null => Range(along[r]) \subseteq Dests
      BY IngestAssumption DEF TypeOK, Range
    <3> QED
      BY <3>1 DEF TypeOK, Listed, Row
  <2> QED
    BY <1>4, <2>1 DEF Route, TypeOK, sourceVars, destVars, typeVars, storeVars,
         boundVars
<1> QED
  BY <1>1, <1>2, <1>3, <1>4

\* The changes that the statements make to an event.
LEMMA EventEdits ==
  ASSUME NEW e \in Event, NEW r \in Requests
  PROVE  [e EXCEPT !.owner = r] \in Event /\ [e EXCEPT !.committed = TRUE] \in Event
<1>1. [e EXCEPT !.owner = r] \in Event
  BY DEF Event
<1>2. [e EXCEPT !.committed = TRUE] \in Event
  BY DEF Event
<1> QED
  BY <1>1, <1>2

\* What the decision writes into the event, and into no other.
LEMMA EvaluateEvent ==
  ASSUME TypeOK, NEW r \in Requests, NEW k \in Keys, k = push[r].key, Evaluate(r)
  PROVE  /\ events' \in [Keys -> Event]
         /\ events'[k].owner = events[k].owner
         /\ events'[k].committed = events[k].committed
         /\ events'[k].required = Required(r)
         /\ events'[k].disposition = Outcome(r)
         /\ \A l \in Keys : l # k => events'[l] = events[l]
<1>1. Required(r) \in Nat /\ Outcome(r) \in Stored \cup {Null}
  BY RequiredType, OutcomeType
<1>2. PICK n \in Nat, o \in Stored \cup {Null} : n = Required(r) /\ o = Outcome(r)
  BY <1>1
<1>3. PICK e \in Event : e = events[k]
  BY DEF TypeOK
<1>4. events' = [events EXCEPT ![k].required = n, ![k].disposition = o]
  BY <1>2 DEF Evaluate
<1>5. PICK f : f = [e EXCEPT !.required = n, !.disposition = o]
  OBVIOUS
<1>6. /\ f \in Event /\ f.owner = e.owner /\ f.committed = e.committed
      /\ f.required = n /\ f.disposition = o
  BY <1>5 DEF Event
<1>7. events'[k] = f /\ \A l \in Keys : l # k => events'[l] = events[l]
  BY <1>3, <1>4, <1>5 DEF TypeOK
<1>8. events' \in [Keys -> Event]
  <2>1. DOMAIN events' = Keys /\ events' = [l \in DOMAIN events' |-> events'[l]]
    BY <1>4 DEF TypeOK
  <2> QED
    BY <1>6, <1>7, <2>1 DEF TypeOK
<1> QED
  BY <1>2, <1>3, <1>6, <1>7, <1>8

\* The statements of a request that has, or looks for, its event.
LEMMA LateType ==
  ASSUME TypeOK, EventsFit, NEW r \in Requests,
         InsertEvent(r) \/ LockDest(r) \/ Evaluate(r) \/ InsertCopy(r) \/ Commit(r)
  PROVE  TypeOK'
<1>0. push[r] \in Pushes /\ push[r].key \in Keys
  <2>1. push[r] # Nothing
    BY DEF EventsFit, InsertEvent, LockDest, Evaluate, InsertCopy, Commit
  <2> QED
    BY <2>1, IngestAssumption DEF TypeOK, Push
<1>1. CASE InsertEvent(r)
  <2>1. UNCHANGED <<sourceVars, destVars, typeVars, deliveries, next_event_seq,
                    push, boundVars>>
    BY <1>1 DEF InsertEvent
  <2>2. CASE Ended(r, "duplicate") /\ UNCHANGED events
    BY <2>1, <2>2, EndedType DEF TypeOK, sourceVars, destVars, typeVars, boundVars
  <2>3. CASE ~(Ended(r, "duplicate") /\ UNCHANGED events)
    <3>1. events' = [events EXCEPT ![push[r].key].owner = r]
      BY <1>1, <2>3 DEF InsertEvent
    <3>2. [events[push[r].key] EXCEPT !.owner = r] \in Event
      BY <1>0, EventEdits DEF TypeOK
    <3>3. events' \in [Keys -> Event]
      BY <1>0, <3>1, <3>2 DEF TypeOK
    <3> QED
      BY <1>1, <2>1, <2>3, <3>3 DEF InsertEvent, TypeOK, sourceVars, destVars,
           typeVars, boundVars
  <2> QED
    BY <2>2, <2>3
<1>2. CASE LockDest(r)
  <2>1. NextToLock(r) \in listed[r]
    BY <1>2, NextToLockListed DEF LockDest
  <2>2. NextToLock(r) \in Row /\ NextToLock(r)[1] \in Dests
    BY <2>1 DEF TypeOK, Row
  <2>3. held' \in [Requests -> SUBSET Dests]
    BY <1>2, <2>2 DEF LockDest, TypeOK
  <2>4. subscribers' \in [Requests -> SUBSET Row]
    BY <1>2, <2>2 DEF LockDest, TypeOK
  <2>5. listed' \in [Requests -> SUBSET Row]
    BY <1>2 DEF LockDest, TypeOK
  <2> QED
    BY <1>2, <2>3, <2>4, <2>5 DEF LockDest, TypeOK, sourceVars, destVars, typeVars,
         storeVars, boundVars
<1>3. CASE Evaluate(r)
  <2>1. Copies(r) \in SUBSET (Dests \X Kinds) /\ Required(r) \in Nat
        /\ Outcome(r) \in Stored
    BY CopiesType, RequiredType, OutcomeType
  <2>2. events' \in [Keys -> Event]
    BY <1>0, <1>3, EvaluateEvent
  <2> QED
    BY <1>3, <2>1, <2>2 DEF Evaluate, TypeOK, sourceVars, destVars, typeVars, boundVars
<1>4. CASE InsertCopy(r)
  <2>1. PICK x \in todo[r] :
       /\ \/ next_event_seq' = next_event_seq
          \/ next_event_seq' = [next_event_seq EXCEPT ![x[1]] = next_event_seq[x[1]] + 1]
       /\ \/ deliveries' = deliveries
          \/ deliveries' = deliveries \cup {[key |-> push[r].key, dest |-> x[1],
                kind |-> x[2], seq |-> next_event_seq[x[1]] + 1]}
       /\ todo' = [todo EXCEPT ![r] = @ \ {x}]
    BY <1>4 DEF InsertCopy
  <2>2. x[1] \in Dests /\ x[2] \in Kinds
    BY DEF TypeOK
  <2>3. deliveries' \subseteq Delivery
    BY <1>0, <2>1, <2>2 DEF TypeOK, Delivery
  <2>4. next_event_seq' \in [Dests -> Nat]
    BY <2>1, <2>2 DEF TypeOK
  <2>5. todo' \in [Requests -> SUBSET (Dests \X Kinds)]
    BY <2>1 DEF TypeOK
  <2> QED
    BY <1>4, <2>3, <2>4, <2>5 DEF InsertCopy, TypeOK, sourceVars, destVars, typeVars,
         boundVars
<1>5. CASE Commit(r)
  <2>1. events' \in [Keys -> Event]
    <3>1. [events[push[r].key] EXCEPT !.committed = TRUE] \in Event
      BY <1>0, EventEdits DEF TypeOK
    <3> QED
      BY <1>0, <1>5, <3>1 DEF Commit, TypeOK
  <2>2. events[push[r].key].disposition \in Stored \cup {Null}
    BY <1>0 DEF TypeOK, Event
  <2> QED
    BY <1>5, <2>1, <2>2, EndedType DEF Commit, TypeOK, sourceVars, destVars, typeVars,
         boundVars
<1> QED
  BY <1>1, <1>2, <1>3, <1>4, <1>5

\* Operators and the handshake.
LEMMA OperatorType ==
  ASSUME TypeOK, Operator \/ \E d \in Dests : Confirm(d)
  PROVE  TypeOK' /\ UNCHANGED <<storeVars, requestVars>>
<1>1. OperatorCall => operator_calls' \in 0..MaxOperatorCalls /\ UNCHANGED faults
  BY IngestAssumption DEF OperatorCall, TypeOK
<1>2. CASE RotateKey \/ Disable \/ Enable \/ ClearPolicy \/ DeleteChain
  <2>1. CASE RotateKey \/ DeleteChain
    BY <1>1, <2>1 DEF RotateKey, DeleteChain, TypeOK, destVars, typeVars, storeVars,
         requestVars, sourceVars
  <2>2. CASE Disable \/ Enable
    <3>1. disabled' \in BOOLEAN
      BY <2>2 DEF Disable, Enable
    <3> QED
      BY <1>1, <2>2, <3>1 DEF Disable, Enable, TypeOK, destVars, typeVars, storeVars,
           requestVars
  <2>3. CASE ClearPolicy
    <3>1. policy' \in BOOLEAN
      BY <2>3 DEF ClearPolicy
    <3> QED
      BY <1>1, <2>3, <3>1 DEF ClearPolicy, TypeOK, destVars, storeVars, requestVars,
           sourceVars
  <2> QED
    BY <1>2, <2>1, <2>2, <2>3
<1>3. ASSUME NEW d \in Dests, Relocate(d) \/ Confirm(d)
      PROVE  TypeOK' /\ UNCHANGED <<storeVars, requestVars>>
  <2>1. confirmed' \in [Dests -> BOOLEAN]
    BY <1>3 DEF Relocate, Confirm, TypeOK
  <2>2. CASE Relocate(d)
    BY <1>1, <2>1, <2>2 DEF Relocate, TypeOK, typeVars, storeVars, requestVars, sourceVars
  <2>3. CASE Confirm(d)
    BY <2>1, <2>3 DEF Confirm, TypeOK, typeVars, storeVars, requestVars, sourceVars,
         boundVars
  <2> QED
    BY <1>3, <2>2, <2>3
<1>4. ASSUME NEW d \in Dests, NEW c \in Filters \cup {"none", Null}, SetCondition(d, c)
      PROVE  TypeOK' /\ UNCHANGED <<storeVars, requestVars>>
  BY <1>1, <1>4 DEF SetCondition, TypeOK, typeVars, storeVars, requestVars, sourceVars
<1>5. ASSUME NEW a \in Admins, BeginSetPolicy(a) \/ BeginDefineChain(a)
      PROVE  TypeOK' /\ UNCHANGED <<storeVars, requestVars>>
  BY <1>1, <1>5 DEF BeginSetPolicy, BeginDefineChain, TypeOK, destVars, storeVars,
       requestVars, sourceVars
<1>6. ASSUME NEW a \in Admins, FinishSetPolicy(a) \/ FinishDefineChain(a)
      PROVE  TypeOK' /\ UNCHANGED <<storeVars, requestVars>>
  BY <1>6 DEF FinishSetPolicy, FinishDefineChain, TypeOK, destVars, storeVars,
       requestVars, sourceVars, boundVars
<1> QED
  BY <1>2, <1>3, <1>4, <1>5, <1>6 DEF Operator

----------------------------------------------------------------------------
(***************************************************************************)
(* What a step leaves alone.                                               *)
(***************************************************************************)
\* Request s has not moved.
Same(s) ==
  /\ pc'[s] = pc[s] /\ push'[s] = push[s] /\ gated'[s] = gated[s]
  /\ along'[s] = along[s] /\ listed'[s] = listed[s] /\ held'[s] = held[s]
  /\ subscribers'[s] = subscribers[s] /\ todo'[s] = todo[s]
  /\ attempt'[s] = attempt[s]

\* A request that has not moved has decided what it had decided.
LEMMA SamePlan ==
  ASSUME NEW s \in Requests, Same(s)
  PROVE  /\ Copies(s)' = Copies(s)
         /\ Required(s)' = Required(s)
<1>1. Routed(s)' = Routed(s)
  BY DEF Same, Routed
<1> QED
  BY <1>1 DEF Same, Copies, Required

\* The end of a request is the end of that request only.
LEMMA EndedOthers ==
  ASSUME TypeOK, NEW r \in Requests, NEW x, Ended(r, x), UNCHANGED push
  PROVE  /\ \A s \in Requests \ {r} : Same(s)
         /\ pc'[r] = "done" /\ attempt'[r] = x /\ held'[r] = {}
         /\ subscribers'[r] = {} /\ push'[r] = push[r]
BY DEF TypeOK, Ended, Same

\* A step of one request moves no other request.
LEMMA OthersSame ==
  ASSUME TypeOK, NEW r \in Requests, Admit(r) \/ Step(r) \/ Die(r)
  PROVE  \A s \in Requests \ {r} : Same(s)
<1>1. CASE \E x : Ended(r, x) /\ UNCHANGED push
  BY <1>1, EndedOthers
<1>2. CASE ~ \E x : Ended(r, x) /\ UNCHANGED push
  <2>1. CASE Admit(r)
    BY <1>2, <2>1 DEF Admit, TypeOK, Same
  <2>2. CASE ReadPolicy(r) \/ ReadChain(r)
    BY <1>2, <2>2 DEF ReadPolicy, ReadChain, TypeOK, Same
  <2>3. CASE InsertEvent(r) \/ Route(r)
    BY <1>2, <2>3 DEF InsertEvent, Route, TypeOK, Same
  <2>4. CASE LockDest(r)
    BY <2>4 DEF LockDest, TypeOK, Same
  <2>5. CASE Evaluate(r) \/ InsertCopy(r)
    BY <2>5 DEF Evaluate, InsertCopy, TypeOK, Same
  <2>6. CASE Commit(r) \/ Die(r)
    BY <1>2, <2>6 DEF Commit, Die
  <2> QED
    BY <2>1, <2>2, <2>3, <2>4, <2>5, <2>6 DEF Step
<1> QED
  BY <1>1, <1>2

\* Steps that insert no row and move no request that inserts rows.
LEMMA RowsKept ==
  ASSUME IInv, TypeOK', UNCHANGED <<deliveries, next_event_seq>>,
         \A x \in deliveries : events'[x.key] = events[x.key],
         \A s \in Requests :
           \/ Same(s) /\ (pc[s] = "copy" => events'[push[s].key] = events[push[s].key])
           \/ /\ pc[s] # "copy"
              /\ pc'[s] = "copy" => /\ \A x \in deliveries : events[x.key].owner # s
                                    /\ PlanFor(s)',
         \A k \in Keys : IsStored(k)' => events'[k] = events[k]
  PROVE  /\ RowsFit' /\ PlanFits' /\ CopiesDiffer' /\ PairsFit' /\ StoredFirst'
         /\ QuorumWithinCopies'
<1>0. TypeOK /\ RowsFit /\ PlanFits /\ CopiesDiffer /\ PairsFit /\ StoredFirst
      /\ QuorumWithinCopies
  BY DEF IInv
<1>1. \A x \in deliveries : x.key \in Keys /\ x.dest \in Dests /\ x.seq \in Nat
  BY <1>0 DEF TypeOK, Delivery
<1>2. \A k : Rows(k)' = Rows(k) /\ Made(k)' = Made(k) /\ Bodies(k)' = Bodies(k)
             /\ Counting(k)' = Counting(k)
  BY DEF Rows, Made, Bodies, Counting
<1>3. \A r, d : InsertedAt(r, d)' = InsertedAt(r, d)
  BY DEF InsertedAt, Inserted
<1>4. \A x \in deliveries : ~events[x.key].committed =>
        /\ events[x.key].owner \in Requests
        /\ Same(events[x.key].owner) /\ pc[events[x.key].owner] = "copy"
  BY <1>0, <1>1 DEF RowsFit, TypeOK, Event
<1>5. RowsFit'
  <2>1. IsFiniteSet(deliveries')
    BY <1>0 DEF RowsFit
  <2>2. \A x \in deliveries :
       /\ events'[x.key].owner # Null
       /\ ~events'[x.key].committed =>
            /\ pc'[events'[x.key].owner] = "copy"
            /\ x.dest \in held'[events'[x.key].owner]
       /\ x.seq <= next_event_seq[x.dest]
    BY <1>0, <1>4 DEF RowsFit, Same
  <2>3. ASSUME NEW r \in Requests, NEW d \in held'[r], pc'[r] = "copy"
        PROVE  /\ Cardinality(InsertedAt(r, d)) <= next_event_seq[d]
               /\ \A x \in deliveries : x.dest = d /\ events'[x.key].owner # r =>
                    x.seq + Cardinality(InsertedAt(r, d)) <= next_event_seq[d]
    <3>1. CASE Same(r)
      <4>1. pc[r] = "copy" /\ d \in held[r]
        BY <2>3, <3>1 DEF Same
      <4> QED
        BY <1>0, <4>1 DEF RowsFit
    <3>2. CASE \A x \in deliveries : events[x.key].owner # r
      <4>1. InsertedAt(r, d) = {}
        BY <3>2 DEF InsertedAt, Inserted
      <4>2. Cardinality(InsertedAt(r, d)) = 0
        BY <4>1, FS_EmptySet
      <4>3. d \in Dests /\ next_event_seq[d] \in Nat
        BY <1>0 DEF TypeOK
      <4> QED
        BY <1>0, <1>1, <4>2, <4>3 DEF RowsFit
    <3> QED
      BY <2>3, <3>1, <3>2
  <2>4. \A x, y \in deliveries : x.dest = y.dest /\ x.seq = y.seq => x = y
    BY <1>0 DEF RowsFit
  <2> QED
    BY <1>3, <2>1, <2>2, <2>3, <2>4 DEF RowsFit
<1>6. PlanFits'
  <2>1. ASSUME NEW r \in Requests, pc'[r] = "copy" PROVE PlanFor(r)'
    <3>1. CASE Same(r) /\ pc[r] = "copy"
      <4>1. /\ push'[r] = push[r] /\ todo'[r] = todo[r]
            /\ events'[push[r].key] = events[push[r].key] /\ PlanFor(r)
        BY <1>0, <3>1 DEF Same, PlanFits
      <4>2. Copies(r)' = Copies(r) /\ Required(r)' = Required(r)
        BY <3>1, SamePlan
      <4>3. Made(push[r].key)' = Made(push[r].key)
        BY <4>1 DEF Made, Rows
      <4> QED
        BY <4>1, <4>2, <4>3 DEF PlanFor
    <3> QED
      BY <2>1, <3>1 DEF Same
  <2> QED
    BY <2>1 DEF PlanFits
<1>7. CopiesDiffer'
  BY <1>0 DEF CopiesDiffer
<1>8. PairsFit'
  <2>1. ASSUME NEW x \in deliveries, x.kind = "preview"
        PROVE  \/ \E y \in Rows(x.key)' :
                    y.dest = x.dest /\ y.kind = "body" /\ y.seq = x.seq + 1
               \/ /\ ~events'[x.key].committed
                  /\ x.seq = next_event_seq'[x.dest]
                  /\ <<x.dest, "body">> \in todo'[events'[x.key].owner]
    BY <1>0, <1>2, <1>4, <2>1 DEF PairsFit, Same
  <2> QED
    BY <2>1 DEF PairsFit
<1>9. StoredFirst'
  BY <1>0 DEF StoredFirst, IsStored
<1>10. QuorumWithinCopies'
  <2>1. ASSUME NEW k \in Keys, IsStored(k)'
        PROVE  /\ events'[k].required <= Cardinality(Counting(k)')
               /\ events'[k].required = 0 => Counting(k)' = {}
               /\ (events'[k].disposition = "accepted") <=> (Bodies(k)' # {})
    <3>1. events'[k] = events[k] /\ IsStored(k)
      BY <2>1 DEF IsStored
    <3> QED
      BY <1>0, <1>2, <3>1 DEF QuorumWithinCopies
  <2> QED
    BY <2>1 DEF QuorumWithinCopies
<1> QED
  BY <1>5, <1>6, <1>7, <1>8, <1>9, <1>10

\* A request that neither gets nor gives up an event.
LEMMA EventsKept ==
  ASSUME TypeOK, EventsFit, AnswersFit, UNCHANGED events,
         NEW r \in Requests, \A s \in Requests \ {r} : Same(s),
         \/ pc[r] \notin {"route", "lock", "copy", "done"}
              /\ pc'[r] \notin {"route", "lock", "copy"}
         \/ /\ pc[r] \in {"route", "lock", "copy"}
            /\ pc'[r] \in {"route", "lock", "copy"}
            /\ push'[r] = push[r],
         pc'[r] \notin {"new", "done"} => push'[r] # Nothing,
         attempt'[r] \in Stored \cup {"duplicate"} =>
           \/ attempt'[r] = attempt[r] /\ push'[r] = push[r] /\ pc'[r] = pc[r]
           \/ /\ pc'[r] = "done" /\ push'[r] # Nothing /\ IsStored(push'[r].key)
              /\ attempt'[r] \notin Stored
  PROVE  EventsFit' /\ AnswersFit'
<1>1. \A s \in Requests :
        /\ pc'[s] \notin {"new", "done"} => push'[s] # Nothing
        /\ pc'[s] \in {"route", "lock", "copy"} =>
             events'[push'[s].key].owner = s /\ ~events'[push'[s].key].committed
  <2>1. ASSUME NEW s \in Requests, s # r
        PROVE  /\ pc'[s] \notin {"new", "done"} => push'[s] # Nothing
               /\ pc'[s] \in {"route", "lock", "copy"} =>
                    events'[push'[s].key].owner = s /\ ~events'[push'[s].key].committed
    BY <2>1 DEF EventsFit, Same
  <2>2. /\ pc'[r] \notin {"new", "done"} => push'[r] # Nothing
        /\ pc'[r] \in {"route", "lock", "copy"} =>
             events'[push'[r].key].owner = r /\ ~events'[push'[r].key].committed
    BY DEF EventsFit
  <2> QED
    BY <2>1, <2>2
<1>2. \A k \in Keys : events'[k].owner = Null => events'[k] = NoEvent
  BY DEF EventsFit
<1>3. ASSUME NEW k \in Keys, NEW s \in Requests, events[k].owner = s
      PROVE  push'[s].key = k /\ IF events[k].committed THEN pc'[s] = "done"
                                 ELSE pc'[s] \in {"route", "lock", "copy"}
  <2>1. push[s].key = k /\ IF events[k].committed THEN pc[s] = "done"
                           ELSE pc[s] \in {"route", "lock", "copy"}
    BY <1>3 DEF EventsFit
  <2>2. CASE s = r
    BY <2>1, <2>2
  <2>3. CASE s # r
    BY <2>1, <2>3 DEF Same
  <2> QED
    BY <2>2, <2>3
<1>4. EventsFit'
  BY <1>1, <1>2, <1>3 DEF EventsFit
<1>5. ASSUME NEW s \in Requests, attempt'[s] \in Stored \cup {"duplicate"}
      PROVE  /\ pc'[s] = "done" /\ push'[s] # Nothing /\ IsStored(push'[s].key)
             /\ attempt'[s] \in Stored => events[push'[s].key].owner = s
  <2>1. CASE s = r
    BY <1>5, <2>1 DEF AnswersFit
  <2>2. CASE s # r
    BY <1>5, <2>2 DEF AnswersFit, Same
  <2> QED
    BY <2>1, <2>2
<1>6. AnswersFit'
  BY <1>5 DEF AnswersFit, IsStored
<1> QED
  BY <1>4, <1>6

\* A request without locks.
LEMMA LocksKept ==
  ASSUME LocksFit, UNCHANGED confirmed,
         NEW r \in Requests, \A s \in Requests \ {r} : Same(s),
         held'[r] = {}, subscribers'[r] = {}, pc'[r] \notin {"lock", "copy"}
  PROVE  LocksFit'
<1>1. \A s \in Requests : pc'[s] \notin {"lock", "copy"} => held'[s] = {}
  BY DEF LocksFit, Same
<1>2. \A s, t \in Requests : \A d \in Dests : d \in held'[s] /\ d \in held'[t] => s = t
  BY DEF LocksFit, Same
<1>3. \A s \in Requests : \A row \in subscribers'[s] :
        row[1] \in held'[s] /\ (along'[s] = Null => confirmed'[row[1]])
  BY DEF LocksFit, Same
<1>4. \A s \in Requests : pc'[s] \in {"lock", "copy"} /\ along'[s] # Null =>
       \A d \in Range(along'[s]) :
         d \in held'[s] \/ (pc'[s] = "lock" /\ <<d, Null>> \in listed'[s])
  BY DEF LocksFit, Same
<1> QED
  BY <1>1, <1>2, <1>3, <1>4 DEF LocksFit

\* A request that holds no lock has no rows either.
LEMMA NoLocks ==
  ASSUME LocksFit, NEW r \in Requests, pc[r] \notin {"lock", "copy"}
  PROVE  held[r] = {} /\ subscribers[r] = {}
BY DEF LocksFit

\* A request that ends before it has an event.
LEMMA EndStep ==
  ASSUME IInv, TypeOK', NEW r \in Requests, NEW x, Ended(r, x), UNCHANGED push,
         UNCHANGED <<destVars, storeVars>>,
         pc[r] \notin {"route", "lock", "copy", "done"},
         x \in Stored \cup {"duplicate"} =>
           x \notin Stored /\ push[r] # Nothing /\ IsStored(push[r].key)
  PROVE  IInv'
<1>1. /\ \A s \in Requests \ {r} : Same(s)
      /\ pc'[r] = "done" /\ attempt'[r] = x /\ held'[r] = {}
      /\ subscribers'[r] = {} /\ push'[r] = push[r]
  BY EndedOthers DEF IInv
<1>2. EventsFit' /\ AnswersFit'
  BY <1>1, EventsKept DEF IInv, storeVars
<1>3. LocksFit'
  BY <1>1, LocksKept DEF IInv, destVars
<1>4. /\ RowsFit' /\ PlanFits' /\ CopiesDiffer' /\ PairsFit' /\ StoredFirst'
      /\ QuorumWithinCopies'
  BY <1>1, RowsKept DEF storeVars
<1> QED
  BY <1>2, <1>3, <1>4 DEF IInv

\* A request that reads, and holds nothing.
LEMMA ReadStep ==
  ASSUME IInv, TypeOK', NEW r \in Requests, \A s \in Requests \ {r} : Same(s),
         UNCHANGED <<destVars, storeVars, held, subscribers, attempt>>,
         pc[r] \notin {"route", "lock", "copy", "done"},
         pc'[r] \notin {"route", "lock", "copy", "done"},
         pc'[r] \notin {"new", "done"} => push'[r] # Nothing
  PROVE  IInv'
<1>1. held[r] = {} /\ subscribers[r] = {}
  BY NoLocks DEF IInv
<1>2. attempt[r] \notin Stored \cup {"duplicate"}
  BY DEF IInv, AnswersFit
<1>3. EventsFit' /\ AnswersFit'
  BY <1>2, EventsKept DEF IInv, storeVars
<1>4. LocksFit'
  BY <1>1, LocksKept DEF IInv, destVars
<1>5. /\ RowsFit' /\ PlanFits' /\ CopiesDiffer' /\ PairsFit' /\ StoredFirst'
      /\ QuorumWithinCopies'
  BY RowsKept DEF storeVars
<1> QED
  BY <1>3, <1>4, <1>5 DEF IInv

\* Admission and the two reads of the configuration.
LEMMA EarlyStep ==
  ASSUME IInv, NEW r \in Requests, Admit(r) \/ ReadPolicy(r) \/ ReadChain(r)
  PROVE  IInv'
<1>0. TypeOK /\ EventsFit
  BY DEF IInv
<1>1. TypeOK'
  BY <1>0, EarlyType
<1>2. \A s \in Requests \ {r} : Same(s)
  BY <1>0, OthersSame DEF Step
<1>3. Nothing \notin Pushes
  BY IngestAssumption DEF Nothing, Push
<1>4. CASE Admit(r)
  <2>1. PICK verdict \in {Verdict(h) : h \in Header} :
       \/ verdict # "admitted" /\ Ended(r, verdict) /\ UNCHANGED push
       \/ /\ verdict = "admitted"
          /\ \E p \in Pushes : push' = [push EXCEPT ![r] = p]
          /\ pc' = [pc EXCEPT ![r] = "policy"]
          /\ UNCHANGED <<gated, along, listed, held, subscribers, todo, attempt>>
    BY <1>4 DEF Admit
  <2>2. CASE verdict # "admitted" /\ Ended(r, verdict) /\ UNCHANGED push
    <3>1. verdict \in Rejected \cup {Null}
      BY <2>1, <2>2, VerdictType
    <3>2. verdict \notin Stored \cup {"duplicate"}
      BY <3>1, IngestAssumption DEF Rejected, Stored
    <3> QED
      BY <1>1, <1>4, <2>2, <3>2, EndStep DEF Admit
  <2>3. CASE ~(verdict # "admitted" /\ Ended(r, verdict) /\ UNCHANGED push)
    <3>1. pc'[r] = "policy" /\ push'[r] \in Pushes
      BY <1>0, <2>1, <2>3 DEF TypeOK
    <3> QED
      BY <1>1, <1>2, <1>3, <1>4, <2>1, <2>3, <3>1, ReadStep DEF Admit
  <2> QED
    BY <2>2, <2>3
<1>5. CASE ReadPolicy(r)
  <2>1. CASE Ended(r, "invalid_body")
    BY <1>1, <1>5, <2>1, EndStep DEF ReadPolicy, Stored
  <2>2. CASE ~Ended(r, "invalid_body")
    <3>1. pc'[r] = "chain" /\ push'[r] = push[r] /\ push[r] # Nothing
      BY <1>0, <1>5, <2>2 DEF ReadPolicy, TypeOK, EventsFit
    <3> QED
      BY <1>1, <1>2, <1>5, <2>2, <3>1, ReadStep DEF ReadPolicy
  <2> QED
    BY <2>1, <2>2
<1>6. CASE ReadChain(r)
  <2>1. pc'[r] = "insert" /\ push'[r] = push[r] /\ push[r] # Nothing
    BY <1>0, <1>6 DEF ReadChain, TypeOK, EventsFit
  <2> QED
    BY <1>1, <1>2, <1>6, <2>1, ReadStep DEF ReadChain
<1> QED
  BY <1>4, <1>5, <1>6

\* INSERT INTO events: the key is this request's, or was another's already.
LEMMA InsertEventStep ==
  ASSUME IInv, NEW r \in Requests, InsertEvent(r)
  PROVE  IInv'
<1>0. TypeOK /\ EventsFit /\ AnswersFit /\ LocksFit /\ RowsFit
  BY DEF IInv
<1>1. TypeOK'
  BY <1>0, LateType
<1>2. \A s \in Requests \ {r} : Same(s)
  BY <1>0, OthersSame DEF Step
<1>3. pc[r] = "insert" /\ push[r] # Nothing /\ push[r].key \in Keys /\ push' = push
  <2>1. pc[r] = "insert" /\ push[r] # Nothing
    BY <1>0 DEF InsertEvent, EventsFit
  <2> QED
    BY <1>0, <2>1, IngestAssumption DEF InsertEvent, TypeOK, Push
<1>4. CASE Ended(r, "duplicate") /\ UNCHANGED events
  <2>1. KeyTaken(push[r].key)
    <3>1. Ended(r, "duplicate") => pc'[r] = "done"
      BY <1>0 DEF Ended, TypeOK
    <3> QED
      BY <1>0, <1>4, <3>1 DEF InsertEvent, TypeOK
  <2>2. IsStored(push[r].key)
    BY <2>1 DEF KeyTaken, IsStored
  <2> QED
    BY <1>1, <1>3, <1>4, <2>2, EndStep DEF InsertEvent, storeVars, Stored
<1>5. CASE ~(Ended(r, "duplicate") /\ UNCHANGED events)
  <2> DEFINE k == push[r].key
  <2>1. /\ events[k].owner = Null
        /\ events' = [events EXCEPT ![k].owner = r]
        /\ pc' = [pc EXCEPT ![r] = "route"]
        /\ UNCHANGED <<gated, along, listed, held, subscribers, todo, attempt>>
        /\ UNCHANGED <<deliveries, next_event_seq, push, confirmed>>
    BY <1>5 DEF InsertEvent, KeyFree, destVars
  <2>2. events[k] = NoEvent /\ events[k] \in Event /\ k \in Keys
    BY <1>0, <1>3, <2>1 DEF EventsFit, TypeOK
  <2>3. /\ events'[k].owner = r /\ ~events'[k].committed
        /\ \A l \in Keys : l # k => events'[l] = events[l]
    <3>1. \A l \in Keys : l # k => events'[l] = events[l]
      BY <1>0, <2>1, <2>2 DEF TypeOK
    <3>2. events'[k] = [NoEvent EXCEPT !.owner = r]
      BY <1>0, <2>1, <2>2 DEF TypeOK
    <3> QED
      BY <3>1, <3>2 DEF NoEvent
  <2>4. pc'[r] = "route"
    BY <1>0, <2>1 DEF TypeOK
  <2>5. held[r] = {} /\ subscribers[r] = {}
    BY <1>0, <1>3, NoLocks
  <2>6. LocksFit'
    BY <1>0, <1>2, <2>1, <2>4, <2>5, LocksKept
  <2>7. \A s \in Requests : s # r /\ pc[s] \in {"route", "lock", "copy"} => push[s].key # k
    <3>1. ASSUME NEW s \in Requests, pc[s] \in {"route", "lock", "copy"}, push[s].key = k
          PROVE  FALSE
      <4>1. events[k].owner = s
        BY <1>0, <3>1 DEF EventsFit
      <4> QED
        BY <2>1, <4>1, IngestAssumption
    <3> QED
      BY <3>1
  <2>8. \A s \in Requests : pc[s] \notin {"new", "done"} => push[s].key \in Keys
    <3>1. \A s \in Requests : pc[s] \notin {"new", "done"} => push[s] \in Pushes
      BY <1>0 DEF EventsFit, TypeOK
    <3> QED
      BY <3>1, IngestAssumption DEF Push
  <2>9. EventsFit'
    <3>1. ASSUME NEW s \in Requests
          PROVE  /\ pc'[s] \notin {"new", "done"} => push[s] # Nothing
                 /\ pc'[s] \in {"route", "lock", "copy"} =>
                      events'[push[s].key].owner = s /\ ~events'[push[s].key].committed
      <4>1. CASE s = r
        BY <1>3, <2>3, <4>1
      <4>2. CASE s # r
        <5>1. pc'[s] = pc[s]
          BY <1>2, <4>2 DEF Same
        <5> QED
          BY <1>0, <2>3, <2>7, <2>8, <4>2, <5>1 DEF EventsFit
      <4> QED
        BY <4>1, <4>2
    <3>2. \A l \in Keys : events'[l].owner = Null => events'[l] = NoEvent
      BY <1>0, <2>3, IngestAssumption DEF EventsFit
    <3>3. ASSUME NEW l \in Keys, NEW s \in Requests, events'[l].owner = s
          PROVE  push[s].key = l /\ IF events'[l].committed THEN pc'[s] = "done"
                                    ELSE pc'[s] \in {"route", "lock", "copy"}
      <4>1. CASE l = k
        BY <2>3, <2>4, <3>3, <4>1
      <4>2. CASE l # k
        <5>1. /\ events'[l] = events[l]
              /\ push[s].key = l /\ IF events[l].committed THEN pc[s] = "done"
                                    ELSE pc[s] \in {"route", "lock", "copy"}
          BY <1>0, <2>3, <3>3, <4>2 DEF EventsFit
        <5>2. s # r
          BY <4>2, <5>1
        <5> QED
          BY <1>2, <5>1, <5>2 DEF Same
      <4> QED
        BY <4>1, <4>2
    <3> QED
      BY <2>1, <3>1, <3>2, <3>3 DEF EventsFit
  <2>10. AnswersFit'
    <3>1. ASSUME NEW s \in Requests, attempt[s] \in Stored \cup {"duplicate"}
          PROVE  /\ pc'[s] = "done" /\ push[s] # Nothing /\ IsStored(push[s].key)'
                 /\ attempt[s] \in Stored => events'[push[s].key].owner = s
      <4>1. /\ pc[s] = "done" /\ push[s] # Nothing /\ IsStored(push[s].key)
            /\ attempt[s] \in Stored => events[push[s].key].owner = s
        BY <1>0, <3>1 DEF AnswersFit
      <4>2. s # r /\ push[s].key # k /\ push[s].key \in Keys
        <5>1. push[s].key \in Keys
          BY <1>0, <4>1, IngestAssumption DEF TypeOK, Push
        <5> QED
          BY <1>3, <2>1, <4>1, <5>1 DEF IsStored
      <4>3. events'[push[s].key] = events[push[s].key] /\ pc'[s] = pc[s]
        BY <1>2, <2>3, <4>2 DEF Same
      <4> QED
        BY <2>1, <4>1, <4>3 DEF IsStored
    <3> QED
      BY <2>1, <3>1 DEF AnswersFit, IsStored
  <2>11. \A x \in deliveries : events'[x.key] = events[x.key]
    <3>1. \A x \in deliveries : x.key \in Keys /\ events[x.key].owner # Null
      BY <1>0 DEF RowsFit, TypeOK, Delivery
    <3> QED
      BY <2>1, <2>3, <3>1
  <2>12. \A l \in Keys : IsStored(l)' => events'[l] = events[l]
    BY <2>3 DEF IsStored
  <2>13. \A s \in Requests :
           \/ Same(s) /\ (pc[s] = "copy" => events'[push[s].key] = events[push[s].key])
           \/ pc[s] # "copy" /\ pc'[s] # "copy"
    BY <1>2, <1>3, <2>3, <2>4, <2>7, <2>8
  <2>14. /\ RowsFit' /\ PlanFits' /\ CopiesDiffer' /\ PairsFit' /\ StoredFirst'
         /\ QuorumWithinCopies'
    BY <1>1, <2>1, <2>11, <2>12, <2>13, RowsKept
  <2> QED
    BY <1>1, <2>6, <2>9, <2>10, <2>14 DEF IInv
<1> QED
  BY <1>4, <1>5

\* The snapshot of the routing query.
LEMMA RouteStep ==
  ASSUME IInv, NEW r \in Requests, Route(r)
  PROVE  IInv'
<1>0. TypeOK /\ EventsFit /\ AnswersFit /\ LocksFit
  BY DEF IInv
<1>1. TypeOK'
  BY <1>0, EarlyType
<1>2. \A s \in Requests \ {r} : Same(s)
  BY <1>0, OthersSame DEF Step
<1>3. /\ pc[r] = "route" /\ pc'[r] = "lock" /\ listed'[r] = Listed(r)
      /\ UNCHANGED <<push, along, held, subscribers, attempt>>
      /\ UNCHANGED <<confirmed, events, deliveries, next_event_seq>>
  BY <1>0 DEF Route, TypeOK, destVars, storeVars
<1>4. held[r] = {} /\ subscribers[r] = {}
  BY <1>0, <1>3, NoLocks
<1>5. attempt[r] \notin Stored \cup {"duplicate"} /\ push[r] # Nothing
  BY <1>0, <1>3 DEF AnswersFit, EventsFit
<1>6. EventsFit' /\ AnswersFit'
  BY <1>0, <1>2, <1>3, <1>5, EventsKept
<1>7. LocksFit'
  <2>1. \A s \in Requests : pc'[s] \notin {"lock", "copy"} => held[s] = {}
    BY <1>0, <1>2, <1>3 DEF LocksFit, Same
  <2>2. ASSUME NEW s \in Requests, pc'[s] \in {"lock", "copy"}, along[s] # Null,
               NEW d \in Range(along[s])
        PROVE  d \in held[s] \/ (pc'[s] = "lock" /\ <<d, Null>> \in listed'[s])
    <3>1. CASE s = r
      BY <1>3, <2>2, <3>1 DEF Listed
    <3>2. CASE s # r
      BY <1>0, <1>2, <2>2, <3>2 DEF LocksFit, Same
    <3> QED
      BY <3>1, <3>2
  <2> QED
    BY <1>0, <1>3, <2>1, <2>2 DEF LocksFit
<1>8. /\ RowsFit' /\ PlanFits' /\ CopiesDiffer' /\ PairsFit' /\ StoredFirst'
      /\ QuorumWithinCopies'
  BY <1>1, <1>2, <1>3, RowsKept
<1> QED
  BY <1>1, <1>6, <1>7, <1>8 DEF IInv

\* One row is locked.
LEMMA LockStep ==
  ASSUME IInv, NEW r \in Requests, LockDest(r)
  PROVE  IInv'
<1>0. TypeOK /\ EventsFit /\ AnswersFit /\ LocksFit
  BY DEF IInv
<1>1. TypeOK'
  BY <1>0, LateType
<1>2. \A s \in Requests \ {r} : Same(s)
  BY <1>0, OthersSame DEF Step
<1>3. PICK row \in listed[r] :
        /\ \A s \in Requests : row[1] \notin held[s]
        /\ listed'[r] = listed[r] \ {row}
        /\ held'[r] = held[r] \cup {row[1]}
        /\ subscribers'[r] \subseteq subscribers[r] \cup {row}
        /\ row \in subscribers'[r] => \/ row \in subscribers[r]
                                      \/ along[r] # Null \/ confirmed[row[1]]
  <2>1. NextToLock(r) \in listed[r]
    BY <1>0, NextToLockListed DEF LockDest
  <2>2. /\ \A s \in Requests : NextToLock(r)[1] \notin held[s]
        /\ listed'[r] = listed[r] \ {NextToLock(r)}
        /\ held'[r] = held[r] \cup {NextToLock(r)[1]}
    BY <1>0 DEF LockDest, TypeOK, Lockable, Unlocked
  <2>3. subscribers'[r] = IF StillListed(r, NextToLock(r))
                          THEN subscribers[r] \cup {NextToLock(r)} ELSE subscribers[r]
    BY <1>0 DEF LockDest, TypeOK
  <2> QED
    BY <2>1, <2>2, <2>3 DEF StillListed
<1>4. /\ pc[r] = "lock" /\ row \in Row
      /\ UNCHANGED <<pc, push, along, attempt>>
      /\ UNCHANGED <<confirmed, events, deliveries, next_event_seq>>
  BY <1>0, <1>3 DEF LockDest, TypeOK, destVars, storeVars
<1>5. attempt[r] \notin Stored \cup {"duplicate"} /\ push[r] # Nothing
  BY <1>0, <1>4 DEF AnswersFit, EventsFit
<1>6. EventsFit' /\ AnswersFit'
  BY <1>0, <1>2, <1>4, <1>5, EventsKept
<1>7. LocksFit'
  <2>1. \A s \in Requests : pc[s] \notin {"lock", "copy"} => held'[s] = {}
    BY <1>0, <1>2, <1>4 DEF LocksFit, Same
  <2>2. \A s, t \in Requests : \A d \in Dests : d \in held'[s] /\ d \in held'[t] => s = t
    <3>1. \A s \in Requests : held'[s] = IF s = r THEN held[r] \cup {row[1]} ELSE held[s]
      BY <1>2, <1>3 DEF Same
    <3> QED
      BY <1>0, <1>3, <3>1 DEF LocksFit
  <2>3. ASSUME NEW s \in Requests, NEW o \in subscribers'[s]
        PROVE  o[1] \in held'[s] /\ (along[s] = Null => confirmed[o[1]])
    <3>1. CASE s = r
      <4>1. CASE o \in subscribers[r]
        BY <1>0, <1>3, <3>1, <4>1 DEF LocksFit
      <4>2. CASE o \notin subscribers[r]
        BY <1>3, <2>3, <3>1, <4>2
      <4> QED
        BY <4>1, <4>2
    <3>2. CASE s # r
      BY <1>0, <1>2, <2>3, <3>2 DEF LocksFit, Same
    <3> QED
      BY <3>1, <3>2
  <2>4. ASSUME NEW s \in Requests, pc[s] \in {"lock", "copy"}, along[s] # Null,
               NEW d \in Range(along[s])
        PROVE  d \in held'[s] \/ (pc[s] = "lock" /\ <<d, Null>> \in listed'[s])
    <3>1. CASE s = r
      BY <1>0, <1>3, <1>4, <2>4, <3>1 DEF LocksFit
    <3>2. CASE s # r
      BY <1>0, <1>2, <2>4, <3>2 DEF LocksFit, Same
    <3> QED
      BY <3>1, <3>2
  <2> QED
    BY <1>4, <2>1, <2>2, <2>3, <2>4 DEF LocksFit
<1>8. /\ RowsFit' /\ PlanFits' /\ CopiesDiffer' /\ PairsFit' /\ StoredFirst'
      /\ QuorumWithinCopies'
  BY <1>1, <1>2, <1>4, RowsKept
<1> QED
  BY <1>1, <1>6, <1>7, <1>8 DEF IInv

\* Operators and the handshake write only rows that nobody has locked.
LEMMA OperatorStep ==
  ASSUME IInv, Operator \/ \E d \in Dests : Confirm(d)
  PROVE  IInv'
<1>0. TypeOK /\ EventsFit /\ AnswersFit /\ LocksFit
  BY DEF IInv
<1>1. TypeOK' /\ UNCHANGED <<storeVars, requestVars>>
  BY <1>0, OperatorType
<1>2. \A s \in Requests : Same(s)
  BY <1>1 DEF requestVars, Same
<1>3. \A d \in Dests : (\E s \in Requests : d \in held[s]) => confirmed'[d] = confirmed[d]
  BY <1>0 DEF Operator, RotateKey, Disable, Enable, Relocate, SetCondition,
       BeginSetPolicy, FinishSetPolicy, BeginDefineChain, FinishDefineChain,
       ClearPolicy, DeleteChain, Confirm, Unlocked, destVars, TypeOK
<1>4. EventsFit' /\ AnswersFit'
  BY <1>0, <1>1 DEF EventsFit, AnswersFit, IsStored, storeVars, requestVars
<1>5. LocksFit'
  <2>1. \A s \in Requests : \A row \in subscribers[s] : along[s] = Null => confirmed'[row[1]]
    BY <1>0, <1>3 DEF LocksFit, TypeOK
  <2> QED
    BY <1>0, <1>1, <2>1 DEF LocksFit, requestVars
<1>6. /\ RowsFit' /\ PlanFits' /\ CopiesDiffer' /\ PairsFit' /\ StoredFirst'
      /\ QuorumWithinCopies'
  BY <1>1, <1>2, RowsKept DEF storeVars
<1> QED
  BY <1>1, <1>4, <1>5, <1>6 DEF IInv

\* The decision: what is inserted, and what will be asked of the event.
LEMMA EvaluateStep ==
  ASSUME IInv, NEW r \in Requests, Evaluate(r)
  PROVE  IInv'
<1>0. TypeOK /\ EventsFit /\ AnswersFit /\ LocksFit /\ RowsFit
  BY DEF IInv
<1>1. TypeOK'
  BY <1>0, LateType
<1>2. \A s \in Requests \ {r} : Same(s)
  BY <1>0, OthersSame DEF Step
<1>3. /\ pc[r] = "lock" /\ listed[r] = {} /\ pc'[r] = "copy" /\ todo'[r] = Copies(r)
      /\ UNCHANGED <<push, gated, along, listed, held, subscribers, attempt>>
      /\ UNCHANGED <<confirmed, deliveries, next_event_seq>>
  BY <1>0 DEF Evaluate, TypeOK, destVars
<1>4. PICK k \in Keys : k = push[r].key
  <2>1. push[r] # Nothing
    BY <1>0, <1>3 DEF EventsFit
  <2> QED
    BY <1>0, <2>1, IngestAssumption DEF TypeOK, Push
<1>5. events[k].owner = r /\ ~events[k].committed
  BY <1>0, <1>3, <1>4 DEF EventsFit
<1>6. /\ events'[k].required = Required(r) /\ events'[k].disposition = Outcome(r)
      /\ \A l \in Keys : l # k => events'[l] = events[l]
      /\ \A l \in Keys : events'[l].owner = events[l].owner
                         /\ events'[l].committed = events[l].committed
  BY <1>0, <1>4, EvaluateEvent
<1>7. \A x \in deliveries : x.key \in Keys /\ x.key # k /\ events[x.key].owner # r
  <2>1. ASSUME NEW x \in deliveries, events[x.key].owner = r PROVE x.key = k
    BY <1>0, <1>4, <2>1 DEF TypeOK, Delivery, EventsFit
  <2>2. ASSUME NEW x \in deliveries, x.key = k PROVE FALSE
    BY <1>0, <1>3, <1>5, <2>2 DEF RowsFit
  <2> QED
    BY <1>0, <2>1, <2>2 DEF TypeOK, Delivery
<1>8. \A s \in Requests : pc[s] \notin {"new", "done"} => push[s].key \in Keys
  <2>1. \A s \in Requests : pc[s] \notin {"new", "done"} => push[s] \in Pushes
    BY <1>0 DEF EventsFit, TypeOK
  <2> QED
    BY <2>1, IngestAssumption DEF Push
<1>9. EventsFit'
  <2>1. ASSUME NEW s \in Requests
        PROVE  /\ pc'[s] \notin {"new", "done"} => push[s] # Nothing
               /\ pc'[s] \in {"route", "lock", "copy"} =>
                    events'[push[s].key].owner = s /\ ~events'[push[s].key].committed
    <3>1. CASE s = r
      BY <1>0, <1>3, <1>4, <1>5, <1>6, <3>1 DEF EventsFit
    <3>2. CASE s # r
      <4>1. pc'[s] = pc[s]
        BY <1>2, <3>2 DEF Same
      <4> QED
        BY <1>0, <1>6, <1>8, <4>1 DEF EventsFit
    <3> QED
      BY <3>1, <3>2
  <2>2. \A l \in Keys : events'[l].owner = Null => events'[l] = NoEvent
    BY <1>0, <1>5, <1>6, IngestAssumption DEF EventsFit
  <2>3. ASSUME NEW l \in Keys, NEW s \in Requests, events'[l].owner = s
        PROVE  push[s].key = l /\ IF events'[l].committed THEN pc'[s] = "done"
                                  ELSE pc'[s] \in {"route", "lock", "copy"}
    <3>1. push[s].key = l /\ IF events[l].committed THEN pc[s] = "done"
                             ELSE pc[s] \in {"route", "lock", "copy"}
      BY <1>0, <1>6, <2>3 DEF EventsFit
    <3>2. pc'[s] = pc[s] \/ (pc[s] = "lock" /\ pc'[s] = "copy")
      BY <1>2, <1>3 DEF Same
    <3> QED
      BY <1>6, <3>1, <3>2
  <2> QED
    BY <1>3, <2>1, <2>2, <2>3 DEF EventsFit
<1>10. AnswersFit'
  <2>1. ASSUME NEW s \in Requests, attempt[s] \in Stored \cup {"duplicate"}
        PROVE  /\ pc'[s] = "done" /\ push[s] # Nothing /\ IsStored(push[s].key)'
               /\ attempt[s] \in Stored => events'[push[s].key].owner = s
    <3>1. /\ pc[s] = "done" /\ push[s] # Nothing /\ IsStored(push[s].key)
          /\ attempt[s] \in Stored => events[push[s].key].owner = s
      BY <1>0, <2>1 DEF AnswersFit
    <3>2. push[s].key \in Keys
      BY <1>0, <3>1, IngestAssumption DEF TypeOK, Push
    <3>3. pc'[s] = pc[s]
      BY <1>2, <1>3, <3>1 DEF Same
    <3> QED
      BY <1>3, <1>6, <3>1, <3>2, <3>3 DEF IsStored
  <2> QED
    BY <1>3, <2>1 DEF AnswersFit, IsStored
<1>11. LocksFit'
  <2>1. \A s \in Requests : pc'[s] \notin {"lock", "copy"} => held[s] = {}
    BY <1>0, <1>2, <1>3 DEF LocksFit, Same
  <2>2. ASSUME NEW s \in Requests, pc'[s] \in {"lock", "copy"}, along[s] # Null,
               NEW d \in Range(along[s])
        PROVE  d \in held[s] \/ (pc'[s] = "lock" /\ <<d, Null>> \in listed[s])
    <3>1. CASE s = r
      BY <1>0, <1>3, <2>2, <3>1 DEF LocksFit
    <3>2. CASE s # r
      BY <1>0, <1>2, <2>2, <3>2 DEF LocksFit, Same
    <3> QED
      BY <3>1, <3>2
  <2> QED
    BY <1>0, <1>3, <2>1, <2>2 DEF LocksFit
<1>12. PlanFor(r)'
  <2>1. Routed(r)' = Routed(r)
    BY <1>3 DEF Routed
  <2>2. Copies(r)' = Copies(r) /\ Required(r)' = Required(r)
    BY <1>3, <2>1 DEF Copies, Required
  <2>3. Made(push[r].key)' = {}
    BY <1>3, <1>4, <1>7 DEF Made, Rows
  <2>4. \A d \in Dests : <<d, "preview">> \in Copies(r) => <<d, "body">> \in Copies(r)
    BY DEF Copies
  <2>5. Outcome(r) = "accepted" <=> Copies(r) # {}
    BY <1>0, OutcomeType
  <2> QED
    BY <1>3, <1>4, <1>6, <2>2, <2>3, <2>4, <2>5 DEF PlanFor
<1>13. \A s \in Requests : s # r /\ pc[s] = "copy" => push[s].key # k
  BY <1>0, <1>5 DEF EventsFit
<1>14. \A s \in Requests :
         \/ Same(s) /\ (pc[s] = "copy" => events'[push[s].key] = events[push[s].key])
         \/ /\ pc[s] # "copy"
            /\ pc'[s] = "copy" => /\ \A x \in deliveries : events[x.key].owner # s
                                  /\ PlanFor(s)'
  <2>1. ASSUME NEW s \in Requests, s # r
        PROVE  Same(s) /\ (pc[s] = "copy" => events'[push[s].key] = events[push[s].key])
    BY <1>2, <1>6, <1>8, <1>13, <2>1
  <2>2. pc[r] # "copy" /\ (\A x \in deliveries : events[x.key].owner # r) /\ PlanFor(r)'
    BY <1>3, <1>7, <1>12
  <2> QED
    BY <2>1, <2>2
<1>15. \A l \in Keys : IsStored(l)' => events'[l] = events[l]
  BY <1>5, <1>6 DEF IsStored
<1>16. /\ RowsFit' /\ PlanFits' /\ CopiesDiffer' /\ PairsFit' /\ StoredFirst'
       /\ QuorumWithinCopies'
  BY <1>1, <1>3, <1>6, <1>7, <1>14, <1>15, RowsKept
<1> QED
  BY <1>1, <1>9, <1>10, <1>11, <1>16 DEF IInv

\* A copy that is to be inserted goes to a destination that its request has
\* locked, and that is confirmed unless the copy is a station's.
LEMMA TodoIsLocked ==
  ASSUME IInv, NEW r \in Requests, pc[r] = "copy", NEW x \in todo[r]
  PROVE  /\ x \in Copies(r) /\ x[1] \in Dests /\ x[2] \in Kinds /\ x = <<x[1], x[2]>>
         /\ x[1] \in held[r]
         /\ x[2] = "station" \/ confirmed[x[1]]
<1>0. TypeOK /\ LocksFit /\ PlanFits
  BY DEF IInv
<1>1. x \in Copies(r)
  BY <1>0 DEF PlanFits, PlanFor
<1>2. x[1] \in Dests /\ x[2] \in Kinds /\ x = <<x[1], x[2]>>
  BY <1>0 DEF TypeOK
<1>3. CASE along[r] # Null
  BY <1>0, <1>1, <1>2, <1>3 DEF Copies, LocksFit
<1>4. CASE along[r] = Null
  <2>1. x[1] \in Routed(r)
    BY <1>1, <1>4 DEF Copies
  <2>2. PICK row \in subscribers[r] : row[1] = x[1]
    BY <2>1 DEF Routed
  <2> QED
    BY <1>0, <1>1, <1>2, <1>4, <2>2 DEF LocksFit
<1> QED
  BY <1>1, <1>2, <1>3, <1>4

\* The kinds of an event's copies for one destination.
LEMMA KindsOfCopies ==
  ASSUME NEW r \in Requests, NEW x \in Copies(r), NEW y \in Copies(r)
  PROVE  /\ x[2] # "preview" /\ y[2] # "preview" => x[2] = y[2]
         /\ x[2] = "preview" => along[r] = Null /\ y[2] \in {"preview", "body"}
BY DEF Copies

\* One copy is inserted at the end of its destination's queue.
LEMMA CopyRow ==
  ASSUME IInv, NEW r \in Requests, InsertCopy(r)
  PROVE  \E x \in todo[r], z \in Delivery :
           /\ \A y \in todo[r] : ~CopiedBefore(r, y, x)
           /\ z = [key |-> push[r].key, dest |-> x[1], kind |-> x[2],
                   seq |-> next_event_seq[x[1]] + 1]
           /\ deliveries' = deliveries \cup {z}
           /\ next_event_seq' = [next_event_seq EXCEPT ![x[1]] = z.seq]
           /\ todo' = [todo EXCEPT ![r] = @ \ {x}]
<1>0. TypeOK /\ EventsFit
  BY DEF IInv
<1>1. PICK x \in todo[r] :
       /\ \A y \in todo[r] : ~CopiedBefore(r, y, x)
       /\ ~(x[2] = "plain" /\ ~confirmed[x[1]]) =>
            /\ next_event_seq' = [next_event_seq EXCEPT ![x[1]] = next_event_seq[x[1]] + 1]
            /\ deliveries' = deliveries \cup {[key |-> push[r].key, dest |-> x[1],
                  kind |-> x[2], seq |-> next_event_seq[x[1]] + 1]}
       /\ todo' = [todo EXCEPT ![r] = @ \ {x}]
  BY DEF InsertCopy
<1>2. ~(x[2] = "plain" /\ ~confirmed[x[1]]) /\ x[1] \in Dests /\ x[2] \in Kinds
  BY TodoIsLocked DEF InsertCopy
<1>3. push[r].key \in Keys
  <2>1. push[r] # Nothing
    BY <1>0 DEF EventsFit, InsertCopy
  <2> QED
    BY <1>0, <2>1, IngestAssumption DEF TypeOK, Push
<1>4. PICK z : z = [key |-> push[r].key, dest |-> x[1], kind |-> x[2],
                    seq |-> next_event_seq[x[1]] + 1]
  OBVIOUS
<1>5. z \in Delivery /\ z.seq = next_event_seq[x[1]] + 1
  BY <1>0, <1>2, <1>3, <1>4 DEF Delivery, TypeOK
<1> QED
  BY <1>1, <1>2, <1>4, <1>5

\* One copy is inserted: the last of its destination, and not yet stored.
LEMMA InsertCopyStep ==
  ASSUME IInv, NEW r \in Requests, InsertCopy(r)
  PROVE  IInv'
<1>0. /\ TypeOK /\ EventsFit /\ AnswersFit /\ LocksFit /\ RowsFit /\ PlanFits
      /\ CopiesDiffer /\ PairsFit /\ StoredFirst /\ QuorumWithinCopies
  BY DEF IInv
<1>1. TypeOK'
  BY <1>0, LateType
<1>2. /\ pc[r] = "copy"
      /\ UNCHANGED <<events, pc, push, gated, along, listed, held, subscribers, attempt>>
      /\ UNCHANGED confirmed
  BY DEF InsertCopy, destVars
<1>3. PICK x \in todo[r], z \in Delivery :
           /\ \A y \in todo[r] : ~CopiedBefore(r, y, x)
           /\ z = [key |-> push[r].key, dest |-> x[1], kind |-> x[2],
                   seq |-> next_event_seq[x[1]] + 1]
           /\ deliveries' = deliveries \cup {z}
           /\ next_event_seq' = [next_event_seq EXCEPT ![x[1]] = z.seq]
           /\ todo' = [todo EXCEPT ![r] = @ \ {x}]
  BY CopyRow
<1>4. PICK k \in Keys : k = push[r].key
  <2>1. push[r] # Nothing
    BY <1>0, <1>2 DEF EventsFit
  <2> QED
    BY <1>0, <2>1, IngestAssumption DEF TypeOK, Push
<1>5. PICK d \in Dests, c \in Kinds : x = <<d, c>>
  BY <1>2, TodoIsLocked
<1>6. /\ x \in Copies(r) /\ d \in held[r]
      /\ events[k].owner = r /\ ~events[k].committed
  BY <1>0, <1>2, <1>4, <1>5, TodoIsLocked DEF EventsFit
<1>7. z.key = k /\ z.dest = d /\ z.kind = c /\ z.seq = next_event_seq[d] + 1
  BY <1>3, <1>4, <1>5
<1>8. /\ next_event_seq[d] \in Nat /\ next_event_seq'[d] = next_event_seq[d] + 1
      /\ \A e \in Dests : e # d => next_event_seq'[e] = next_event_seq[e]
      /\ \A e \in Dests : next_event_seq[e] \in Nat
  BY <1>0, <1>3, <1>5, <1>7 DEF TypeOK
<1>9. /\ todo'[r] = todo[r] \ {x}
      /\ \A s \in Requests \ {r} : todo'[s] = todo[s]
  BY <1>0, <1>3 DEF TypeOK
<1>10. /\ \A a \in deliveries : /\ a.key \in Keys /\ a.dest \in Dests /\ a.seq \in Nat
                                /\ a.seq <= next_event_seq[a.dest]
                                /\ events[a.key].owner \in Requests
       /\ z \notin deliveries
  <2>1. \A a \in deliveries : /\ a.key \in Keys /\ a.dest \in Dests /\ a.seq \in Nat
                              /\ a.seq <= next_event_seq[a.dest]
                              /\ events[a.key].owner \in Requests
    BY <1>0 DEF TypeOK, Delivery, Event, RowsFit
  <2> QED
    BY <1>7, <1>8, <2>1
<1>11. \A s \in Requests : d \in held[s] => s = r
  BY <1>0, <1>6 DEF LocksFit
<1>12. \A s \in Requests : pc[s] = "copy" /\ s # r => push[s].key # k
  BY <1>0, <1>6 DEF EventsFit
<1>13. ASSUME NEW a \in deliveries, a.dest = d, ~events[a.key].committed
       PROVE  a.key = k /\ events[a.key].owner = r
  <2>1. events[a.key].owner = r
    BY <1>0, <1>10, <1>11, <1>13 DEF RowsFit
  <2> QED
    BY <1>0, <1>4, <1>10, <2>1 DEF EventsFit
<1>14. EventsFit' /\ AnswersFit'
  BY <1>0, <1>2 DEF EventsFit, AnswersFit, IsStored
<1>15. LocksFit'
  BY <1>0, <1>2 DEF LocksFit
<1>16. RowsFit'
  <2>1. IsFiniteSet(deliveries')
    BY <1>0, <1>3, FS_AddElement DEF RowsFit
  <2>2. ASSUME NEW a \in deliveries'
        PROVE  /\ events[a.key].owner # Null
               /\ ~events[a.key].committed =>
                    /\ pc[events[a.key].owner] = "copy"
                    /\ a.dest \in held[events[a.key].owner]
               /\ a.seq <= next_event_seq'[a.dest]
    <3>1. CASE a = z
      BY <1>2, <1>6, <1>7, <1>8, <3>1, IngestAssumption
    <3>2. CASE a \in deliveries
      <4>1. a.seq <= next_event_seq'[a.dest]
        BY <1>8, <1>10, <3>2
      <4> QED
        BY <1>0, <3>2, <4>1 DEF RowsFit
    <3> QED
      BY <1>3, <3>1, <3>2
  <2>3. ASSUME NEW a \in deliveries', NEW b \in deliveries', a.dest = b.dest, a.seq = b.seq
        PROVE  a = b
    <3>1. CASE a \in deliveries /\ b \in deliveries
      BY <1>0, <2>3, <3>1 DEF RowsFit
    <3>2. CASE a = z /\ b \in deliveries
      BY <1>7, <1>8, <1>10, <2>3, <3>2
    <3>3. CASE b = z /\ a \in deliveries
      BY <1>7, <1>8, <1>10, <2>3, <3>3
    <3> QED
      BY <1>3, <3>1, <3>2, <3>3
  <2>4. ASSUME NEW s \in Requests, NEW e \in held[s], pc[s] = "copy"
        PROVE  /\ Cardinality(InsertedAt(s, e)') <= next_event_seq'[e]
               /\ \A a \in deliveries' : a.dest = e /\ events[a.key].owner # s =>
                    a.seq + Cardinality(InsertedAt(s, e)') <= next_event_seq'[e]
    <3>1. e \in Dests
      BY <1>0 DEF TypeOK
    <3>2. IsFiniteSet(InsertedAt(s, e)) /\ Cardinality(InsertedAt(s, e)) \in Nat
      <4>1. InsertedAt(s, e) \subseteq deliveries
        BY DEF InsertedAt, Inserted
      <4>2. IsFiniteSet(InsertedAt(s, e))
        BY <1>0, <4>1, FS_Subset DEF RowsFit
      <4> QED
        BY <4>2, FS_CardinalityType
    <3>3. /\ Cardinality(InsertedAt(s, e)) <= next_event_seq[e]
          /\ \A a \in deliveries : a.dest = e /\ events[a.key].owner # s =>
               a.seq + Cardinality(InsertedAt(s, e)) <= next_event_seq[e]
      BY <1>0, <2>4 DEF RowsFit
    <3>4. CASE e = d
      <4>1. s = r
        BY <1>11, <3>4
      <4>2. InsertedAt(s, e)' = InsertedAt(s, e) \cup {z}
        BY <1>2, <1>3, <1>6, <1>7, <3>4, <4>1 DEF InsertedAt, Inserted
      <4>3. z \notin InsertedAt(s, e)
        BY <1>10 DEF InsertedAt, Inserted
      <4>4. Cardinality(InsertedAt(s, e)') = Cardinality(InsertedAt(s, e)) + 1
        BY <3>2, <4>2, <4>3, FS_AddElement
      <4>5. ASSUME NEW a \in deliveries', a.dest = e, events[a.key].owner # s
            PROVE  a.seq + Cardinality(InsertedAt(s, e)') <= next_event_seq'[e]
        <5>1. a \in deliveries
          BY <1>3, <1>6, <1>7, <4>1, <4>5
        <5> QED
          BY <1>8, <1>10, <3>2, <3>3, <3>4, <4>4, <4>5, <5>1
      <4> QED
        BY <1>8, <3>2, <3>3, <3>4, <4>4, <4>5
    <3>5. CASE e # d
      <4>1. InsertedAt(s, e)' = InsertedAt(s, e)
        BY <1>2, <1>3, <1>7, <3>5 DEF InsertedAt, Inserted
      <4>2. \A a \in deliveries' : a.dest = e => a \in deliveries
        BY <1>3, <1>7, <3>5
      <4> QED
        BY <1>8, <3>1, <3>3, <3>5, <4>1, <4>2
    <3> QED
      BY <3>4, <3>5
  <2> QED
    BY <1>2, <2>1, <2>2, <2>3, <2>4 DEF RowsFit
<1>17. PlanFor(r)
  BY <1>0, <1>2 DEF PlanFits
<1>18. Made(k) \subseteq Copies(r) /\ x \notin Made(k)
  BY <1>4, <1>17 DEF PlanFor
<1>19. \A a \in deliveries : a.key = k => <<a.dest, a.kind>> \in Made(k)
  BY DEF Made, Rows
<1>20. PlanFits'
  <2>1. PlanFor(r)'
    <3>1. Routed(r)' = Routed(r)
      BY <1>2 DEF Routed
    <3>2. Copies(r)' = Copies(r) /\ Required(r)' = Required(r)
      BY <1>2, <3>1 DEF Copies, Required
    <3>3. Made(push[r].key)' = Made(push[r].key) \cup {x}
      <4>1. Rows(k)' = Rows(k) \cup {z}
        BY <1>3, <1>7 DEF Rows
      <4>2. <<z.dest, z.kind>> = x
        BY <1>5, <1>7
      <4>3. Made(k)' = Made(k) \cup {x}
        BY <4>1, <4>2 DEF Made
      <4> QED
        BY <1>2, <1>4, <4>3 DEF Made, Rows
    <3>4. ASSUME NEW e \in Dests, <<e, "preview">> \in todo'[r]
          PROVE  <<e, "body">> \in todo'[r]
      <4>1. <<e, "preview">> \in todo[r] /\ <<e, "body">> \in todo[r]
        BY <1>9, <1>17, <3>4 DEF PlanFor
      <4>2. along[r] = Null
        BY <1>17, <4>1, KindsOfCopies DEF PlanFor
      <4>3. CopiedBefore(r, <<e, "preview">>, <<e, "body">>)
        BY <4>2 DEF CopiedBefore
      <4>4. x # <<e, "body">>
        BY <1>3, <4>1, <4>3
      <4> QED
        BY <1>9, <4>1, <4>4
    <3> QED
      BY <1>2, <1>9, <1>17, <3>2, <3>3, <3>4 DEF PlanFor
  <2>2. ASSUME NEW s \in Requests, s # r, pc[s] = "copy"
        PROVE  PlanFor(s)'
    <3>1. Same(s)
      BY <1>2, <1>9, <2>2 DEF Same
    <3>2. Copies(s)' = Copies(s) /\ Required(s)' = Required(s)
      BY <3>1, SamePlan
    <3>3. Made(push[s].key)' = Made(push[s].key)
      <4>1. push[s].key # k
        BY <1>12, <2>2
      <4>2. Rows(push[s].key)' = Rows(push[s].key)
        BY <1>2, <1>3, <1>7, <4>1 DEF Rows
      <4> QED
        BY <4>2 DEF Made
    <3>4. PlanFor(s)
      BY <1>0, <2>2 DEF PlanFits
    <3> QED
      BY <1>2, <1>9, <2>2, <3>2, <3>3, <3>4 DEF PlanFor
  <2> QED
    BY <1>2, <2>1, <2>2 DEF PlanFits
<1>21. CopiesDiffer'
  <2>1. ASSUME NEW a \in deliveries, a.key = k, a.dest = d,
               a.kind = c \/ (a.kind # "preview" /\ c # "preview")
        PROVE  FALSE
    <3>1. <<d, a.kind>> \in Copies(r) /\ <<d, a.kind>> \in Made(k)
      BY <1>18, <1>19, <2>1
    <3>2. a.kind = c
      BY <1>5, <1>6, <2>1, <3>1, KindsOfCopies
    <3> QED
      BY <1>5, <1>18, <3>1, <3>2
  <2> QED
    BY <1>0, <1>3, <1>7, <2>1 DEF CopiesDiffer
<1>22. PairsFit'
  <2>1. ASSUME NEW a \in deliveries', a.kind = "preview"
        PROVE  \/ \E y \in Rows(a.key)' :
                    y.dest = a.dest /\ y.kind = "body" /\ y.seq = a.seq + 1
               \/ /\ ~events[a.key].committed
                  /\ a.seq = next_event_seq'[a.dest]
                  /\ <<a.dest, "body">> \in todo'[events[a.key].owner]
    <3>1. CASE a = z
      <4>1. <<d, "body">> \in todo[r]
        BY <1>5, <1>7, <1>17, <2>1, <3>1 DEF PlanFor
      <4>2. <<d, "body">> \in todo'[r]
        BY <1>5, <1>7, <1>9, <2>1, <3>1, <4>1
      <4> QED
        BY <1>6, <1>7, <1>8, <3>1, <4>2
    <3>2. CASE a \in deliveries /\ \E y \in Rows(a.key) :
                 y.dest = a.dest /\ y.kind = "body" /\ y.seq = a.seq + 1
      BY <1>3, <3>2 DEF Rows
    <3>3. CASE /\ a \in deliveries
               /\ ~events[a.key].committed
               /\ a.seq = next_event_seq[a.dest]
               /\ <<a.dest, "body">> \in todo[events[a.key].owner]
      <4>1. CASE a.dest # d
        <5>1. <<a.dest, "body">> # x
          BY <1>5, <4>1
        <5> QED
          BY <1>8, <1>9, <1>10, <3>3, <4>1, <5>1
      <4>2. CASE a.dest = d
        <5>1. a.key = k
          BY <1>13, <3>3, <4>2
        <5>2. <<d, "preview">> \in Copies(r) /\ <<d, "preview">> # x
          BY <1>18, <1>19, <2>1, <3>3, <4>2, <5>1
        <5>3. c = "body"
          BY <1>5, <1>6, <5>2, KindsOfCopies
        <5>4. z \in Rows(a.key)'
          BY <1>3, <1>7, <5>1 DEF Rows
        <5> QED
          BY <1>7, <3>3, <4>2, <5>3, <5>4
      <4> QED
        BY <4>1, <4>2
    <3> QED
      BY <1>0, <1>3, <2>1, <3>1, <3>2, <3>3 DEF PairsFit
  <2> QED
    BY <1>2, <2>1 DEF PairsFit
<1>23. \A a, b \in deliveries' :
         a.dest = b.dest /\ a.key # b.key /\ a.seq < b.seq => IsStored(a.key)
  <2>1. ASSUME NEW a \in deliveries', NEW b \in deliveries', a.dest = b.dest,
               a.key # b.key, a.seq < b.seq
        PROVE  IsStored(a.key)
    <3>1. CASE a \in deliveries /\ b \in deliveries
      BY <1>0, <2>1, <3>1 DEF StoredFirst
    <3>2. CASE a = z
      <4>1. b \in deliveries
        BY <1>3, <2>1, <3>2
      <4> QED
        BY <1>7, <1>8, <1>10, <2>1, <3>2, <4>1
    <3>3. CASE b = z /\ a \in deliveries
      BY <1>7, <1>10, <1>13, <2>1, <3>3, IngestAssumption DEF IsStored
    <3> QED
      BY <1>3, <3>1, <3>2, <3>3
  <2> QED
    BY <2>1
<1>24. StoredFirst'
  <2>1. ASSUME NEW a \in deliveries', NEW b \in deliveries',
               NEW u \in deliveries', NEW v \in deliveries',
               a.key = b.key, u.key = v.key, a.key # u.key,
               a.dest = u.dest, b.dest = v.dest, a.seq < u.seq, ~(b.seq <= v.seq)
        PROVE  FALSE
    <3>1. b.seq \in Nat /\ v.seq \in Nat
      BY <1>1 DEF TypeOK, Delivery
    <3>2. IsStored(a.key) /\ IsStored(v.key)
      BY <1>23, <2>1, <3>1
    <3>3. ~IsStored(z.key)
      BY <1>6, <1>7 DEF IsStored
    <3>4. a \in deliveries /\ b \in deliveries /\ u \in deliveries /\ v \in deliveries
      BY <1>3, <2>1, <3>2, <3>3
    <3> QED
      BY <1>0, <2>1, <3>4 DEF StoredFirst
  <2> QED
    BY <1>2, <1>23, <2>1 DEF StoredFirst, IsStored
<1>25. QuorumWithinCopies'
  <2>1. ASSUME NEW l \in Keys, IsStored(l)
        PROVE  Bodies(l)' = Bodies(l) /\ Counting(l)' = Counting(l)
    <3>1. l # k
      BY <1>6, <2>1 DEF IsStored
    <3>2. Rows(l)' = Rows(l)
      BY <1>3, <1>7, <3>1 DEF Rows
    <3> QED
      BY <3>2 DEF Bodies, Counting
  <2> QED
    BY <1>0, <1>2, <2>1 DEF QuorumWithinCopies, IsStored
<1> QED
  BY <1>1, <1>14, <1>15, <1>16, <1>20, <1>21, <1>22, <1>24, <1>25 DEF IInv

\* When everything is inserted, the copies that count are at least those asked for.
LEMMA AllInserted ==
  ASSUME IInv, NEW r \in Requests, pc[r] = "copy", todo[r] = {},
         NEW k \in Keys, k = push[r].key
  PROVE  /\ Required(r) <= Cardinality(Counting(k))
         /\ Required(r) = 0 => Counting(k) = {}
         /\ Copies(r) # {} <=> Bodies(k) # {}
<1>0. TypeOK /\ RowsFit /\ PlanFits
  BY DEF IInv
<1>1. Made(k) = Copies(r)
  BY <1>0 DEF PlanFits, PlanFor
<1>2. \A a \in Rows(k) : <<a.dest, a.kind>> \in Copies(r)
  BY <1>1 DEF Made
<1>3. \A d, c : <<d, c>> \in Copies(r) => \E a \in Rows(k) : a.dest = d /\ a.kind = c
  BY <1>1 DEF Made
<1>4. Copies(r) # {} <=> Bodies(k) # {}
  <2>1. ASSUME NEW x \in Copies(r) PROVE Bodies(k) # {}
    <3>1. PICK c \in {"station", "body", "plain"} : <<x[1], c>> \in Copies(r)
      <4>1. CASE along[r] # Null
        BY <2>1, <4>1 DEF Copies
      <4>2. CASE along[r] = Null /\ gated[r]
        BY <2>1, <4>2 DEF Copies
      <4>3. CASE along[r] = Null /\ ~gated[r]
        BY <2>1, <4>3 DEF Copies
      <4> QED
        BY <4>1, <4>2, <4>3
    <3> QED
      BY <1>3, <3>1 DEF Bodies
  <2>2. ASSUME NEW a \in Bodies(k) PROVE Copies(r) # {}
    BY <1>2, <2>2 DEF Bodies
  <2> QED
    BY <2>1, <2>2
<1>5. IsFiniteSet(Counting(k)) /\ Cardinality(Counting(k)) \in Nat
  <2>1. Counting(k) \subseteq deliveries
    BY DEF Counting, Bodies, Rows
  <2>2. IsFiniteSet(Counting(k))
    BY <1>0, <2>1, FS_Subset DEF RowsFit
  <2> QED
    BY <2>2, FS_CardinalityType
<1>6. CASE along[r] # Null
  <2>1. PICK c \in Chains : c = along[r]
    BY <1>0, <1>6 DEF TypeOK
  <2>2. /\ c \in Seq(Dests) /\ Len(c) \in Nat /\ Len(c) # 0
        /\ \A i, j \in 1..Len(c) : c[i] = c[j] => i = j
    BY IngestAssumption
  <2>3. ASSUME NEW i \in 1..Len(c) PROVE \E a \in Counting(k) : a.dest = c[i]
    <3>1. <<c[i], "station">> \in Copies(r)
      BY <1>6, <2>1, <2>2, <2>3 DEF Copies, Range
    <3> QED
      BY <1>3, <3>1 DEF Counting, Bodies
  <2> DEFINE f == [i \in 1..Len(c) |-> CHOOSE a \in Counting(k) : a.dest = c[i]]
  <2>4. \A i \in 1..Len(c) : f[i] \in Counting(k) /\ f[i].dest = c[i]
    BY <2>3
  <2>5. f \in Injection(1..Len(c), Counting(k))
    BY <2>2, <2>4 DEF Injection, IsInjective
  <2> HIDE DEF f
  <2>6. Cardinality(1..Len(c)) <= Cardinality(Counting(k))
    BY <1>5, <2>5, FS_Injection
  <2>7. Cardinality(1..Len(c)) = Len(c)
    BY <2>2, FS_Interval
  <2>8. Required(r) = Len(c)
    BY <1>6, <2>1 DEF Required
  <2> QED
    BY <1>4, <2>2, <2>6, <2>7, <2>8
<1>7. CASE along[r] = Null
  <2> DEFINE R == Routed(r) \ Shadow
  <2>1. IsFiniteSet(R) /\ Cardinality(R) \in Nat
    <3>1. R \subseteq Dests
      BY <1>0, CopiesType
    <3>2. IsFiniteSet(R)
      BY <3>1, FS_Subset, IngestAssumption
    <3> QED
      BY <3>2, FS_CardinalityType
  <2>2. ASSUME NEW d \in R PROVE \E a \in Counting(k) : a.dest = d
    <3>1. \E c \in {"body", "plain"} : <<d, c>> \in Copies(r)
      BY <1>7, <2>2 DEF Copies
    <3> QED
      BY <1>3, <2>2, <3>1 DEF Counting, Bodies
  <2>3. ASSUME NEW a \in Counting(k) PROVE a.dest \in R
    <3>1. <<a.dest, a.kind>> \in Copies(r)
      BY <1>2, <2>3 DEF Counting, Bodies
    <3>2. a.dest \in Routed(r) /\ a.kind # "station"
      BY <1>7, <3>1 DEF Copies
    <3> QED
      BY <2>3, <3>2 DEF Counting
  <2> DEFINE f == [d \in R |-> CHOOSE a \in Counting(k) : a.dest = d]
  <2>4. \A d \in R : f[d] \in Counting(k) /\ f[d].dest = d
    BY <2>2
  <2>5. f \in Injection(R, Counting(k))
    BY <2>4 DEF Injection, IsInjective
  <2>6. Cardinality(R) <= Cardinality(Counting(k))
    <3> HIDE DEF f, R
    <3> QED
      BY <1>5, <2>5, FS_Injection
  <2>7. /\ Required(r) \in Nat /\ Required(r) <= Cardinality(R)
        /\ Required(r) = 0 => Cardinality(R) = 0
    BY <1>7, <2>1, IngestAssumption DEF Required
  <2>8. Cardinality(R) = 0 => R = {}
    BY <2>1, FS_EmptySet
  <2> QED
    BY <1>4, <1>5, <2>1, <2>3, <2>6, <2>7, <2>8
<1> QED
  BY <1>6, <1>7

\* COMMIT: the event is stored with all its copies.
LEMMA CommitStep ==
  ASSUME IInv, NEW r \in Requests, Commit(r)
  PROVE  IInv'
<1>0. /\ TypeOK /\ EventsFit /\ AnswersFit /\ LocksFit /\ RowsFit /\ PlanFits
      /\ CopiesDiffer /\ PairsFit /\ StoredFirst /\ QuorumWithinCopies
  BY DEF IInv
<1>1. TypeOK'
  BY <1>0, LateType
<1>2. /\ pc[r] = "copy" /\ todo[r] = {}
      /\ UNCHANGED <<push, deliveries, next_event_seq, confirmed>>
  BY DEF Commit, destVars
<1>3. PICK k \in Keys : k = push[r].key
  <2>1. push[r] # Nothing
    BY <1>0, <1>2 DEF EventsFit
  <2> QED
    BY <1>0, <2>1, IngestAssumption DEF TypeOK, Push
<1>4. events[k].owner = r /\ ~events[k].committed /\ push[r] # Nothing
  BY <1>0, <1>2, <1>3 DEF EventsFit
<1>5. /\ events'[k].owner = r /\ events'[k].committed
      /\ events'[k].required = events[k].required
      /\ events'[k].disposition = events[k].disposition
      /\ \A l \in Keys : l # k => events'[l] = events[l]
  <2>1. PICK e \in Event : e = events[k]
    BY <1>0 DEF TypeOK
  <2>2. events' = [events EXCEPT ![k].committed = TRUE]
    BY <1>3 DEF Commit
  <2>3. events'[k] = [e EXCEPT !.committed = TRUE]
        /\ \A l \in Keys : l # k => events'[l] = events[l]
    BY <1>0, <2>1, <2>2 DEF TypeOK
  <2> QED
    BY <1>4, <2>1, <2>3 DEF Event
<1>6. /\ \A s \in Requests \ {r} : Same(s)
      /\ pc'[r] = "done" /\ attempt'[r] = events[k].disposition /\ held'[r] = {}
      /\ subscribers'[r] = {} /\ push'[r] = push[r]
  BY <1>0, <1>2, <1>3, EndedOthers DEF Commit
<1>7. \A s \in Requests : pc[s] \notin {"new", "done"} => push[s].key \in Keys
  <2>1. \A s \in Requests : pc[s] \notin {"new", "done"} => push[s] \in Pushes
    BY <1>0 DEF EventsFit, TypeOK
  <2> QED
    BY <2>1, IngestAssumption DEF Push
<1>8. \A s \in Requests : s # r /\ pc[s] \in {"route", "lock", "copy"} => push[s].key # k
  BY <1>0, <1>4 DEF EventsFit
<1>9. EventsFit'
  <2>1. ASSUME NEW s \in Requests
        PROVE  /\ pc'[s] \notin {"new", "done"} => push[s] # Nothing
               /\ pc'[s] \in {"route", "lock", "copy"} =>
                    events'[push[s].key].owner = s /\ ~events'[push[s].key].committed
    <3>1. CASE s = r
      BY <1>6, <3>1
    <3>2. CASE s # r
      <4>1. pc'[s] = pc[s]
        BY <1>6, <3>2 DEF Same
      <4> QED
        BY <1>0, <1>5, <1>7, <1>8, <3>2, <4>1 DEF EventsFit
    <3> QED
      BY <3>1, <3>2
  <2>2. \A l \in Keys : events'[l].owner = Null => events'[l] = NoEvent
    BY <1>0, <1>5, IngestAssumption DEF EventsFit
  <2>3. ASSUME NEW l \in Keys, NEW s \in Requests, events'[l].owner = s
        PROVE  push[s].key = l /\ IF events'[l].committed THEN pc'[s] = "done"
                                  ELSE pc'[s] \in {"route", "lock", "copy"}
    <3>1. CASE l = k
      BY <1>3, <1>5, <1>6, <2>3, <3>1
    <3>2. CASE l # k
      <4>1. /\ events'[l] = events[l]
            /\ push[s].key = l /\ IF events[l].committed THEN pc[s] = "done"
                                  ELSE pc[s] \in {"route", "lock", "copy"}
        BY <1>0, <1>5, <2>3, <3>2 DEF EventsFit
      <4>2. s # r
        BY <1>3, <3>2, <4>1
      <4> QED
        BY <1>6, <4>1, <4>2 DEF Same
    <3> QED
      BY <3>1, <3>2
  <2> QED
    BY <1>2, <2>1, <2>2, <2>3 DEF EventsFit
<1>10. AnswersFit'
  <2>1. ASSUME NEW s \in Requests, attempt'[s] \in Stored \cup {"duplicate"}
        PROVE  /\ pc'[s] = "done" /\ push[s] # Nothing /\ IsStored(push[s].key)'
               /\ attempt'[s] \in Stored => events'[push[s].key].owner = s
    <3>1. CASE s = r
      BY <1>2, <1>3, <1>4, <1>5, <1>6, <3>1, IngestAssumption DEF IsStored
    <3>2. CASE s # r
      <4>1. attempt'[s] = attempt[s] /\ pc'[s] = pc[s]
        BY <1>6, <3>2 DEF Same
      <4>2. /\ pc[s] = "done" /\ push[s] # Nothing /\ IsStored(push[s].key)
            /\ attempt[s] \in Stored => events[push[s].key].owner = s
        BY <1>0, <2>1, <4>1 DEF AnswersFit
      <4>3. push[s].key \in Keys /\ push[s].key # k
        BY <1>0, <1>4, <4>2, IngestAssumption DEF TypeOK, Push, IsStored
      <4>4. events'[push[s].key] = events[push[s].key]
        BY <1>5, <4>3
      <4> QED
        BY <1>2, <4>1, <4>2, <4>4 DEF IsStored
    <3> QED
      BY <3>1, <3>2
  <2> QED
    BY <1>2, <2>1 DEF AnswersFit, IsStored
<1>11. LocksFit'
  BY <1>0, <1>2, <1>6, LocksKept
<1>12. \A a \in deliveries : a.key \in Keys /\ a.dest \in Dests /\ a.seq \in Nat
  BY <1>0 DEF TypeOK, Delivery
<1>13. \A l \in Keys : events'[l].owner = events[l].owner
                       /\ (~events'[l].committed => l # k /\ ~events[l].committed)
                       /\ (IsStored(l) => IsStored(l)')
  BY <1>4, <1>5, IngestAssumption DEF IsStored
<1>14. \A s, d : InsertedAt(s, d)' = InsertedAt(s, d)
  BY <1>2, <1>12, <1>13 DEF InsertedAt, Inserted
<1>15. \A l \in Keys : events[l].owner = r => l = k
  BY <1>0, <1>3 DEF EventsFit
<1>16. \A a \in deliveries : ~events'[a.key].committed =>
         /\ ~events[a.key].committed
         /\ events[a.key].owner \in Requests \ {r} /\ Same(events[a.key].owner)
  BY <1>0, <1>6, <1>12, <1>13, <1>15 DEF RowsFit, TypeOK, Event
<1>17. RowsFit'
  <2>1. IsFiniteSet(deliveries') /\
        \A a, b \in deliveries : a.dest = b.dest /\ a.seq = b.seq => a = b
    BY <1>0, <1>2 DEF RowsFit
  <2>2. ASSUME NEW a \in deliveries
        PROVE  /\ events'[a.key].owner # Null
               /\ ~events'[a.key].committed =>
                    /\ pc'[events'[a.key].owner] = "copy"
                    /\ a.dest \in held'[events'[a.key].owner]
               /\ a.seq <= next_event_seq[a.dest]
    BY <1>0, <1>12, <1>13, <1>16, <2>2 DEF RowsFit, Same
  <2>3. ASSUME NEW s \in Requests, NEW d \in held'[s], pc'[s] = "copy"
        PROVE  /\ Cardinality(InsertedAt(s, d)) <= next_event_seq[d]
               /\ \A a \in deliveries : a.dest = d /\ events'[a.key].owner # s =>
                    a.seq + Cardinality(InsertedAt(s, d)) <= next_event_seq[d]
    <3>1. pc[s] = "copy" /\ d \in held[s]
      BY <1>6, <2>3 DEF Same
    <3> QED
      BY <1>0, <1>12, <1>13, <3>1 DEF RowsFit
  <2> QED
    BY <1>2, <1>14, <2>1, <2>2, <2>3 DEF RowsFit
<1>18. PlanFits'
  <2>1. ASSUME NEW s \in Requests, pc'[s] = "copy" PROVE PlanFor(s)'
    <3>1. s # r /\ Same(s) /\ pc[s] = "copy" /\ todo'[s] = todo[s]
      BY <1>6, <2>1 DEF Same
    <3>2. Copies(s)' = Copies(s) /\ Required(s)' = Required(s)
      BY <3>1, SamePlan
    <3>3. Made(push[s].key)' = Made(push[s].key)
      BY <1>2 DEF Made, Rows
    <3>4. events'[push[s].key] = events[push[s].key]
      BY <1>5, <1>7, <1>8, <3>1
    <3>5. PlanFor(s)
      BY <1>0, <3>1 DEF PlanFits
    <3> QED
      BY <1>2, <3>1, <3>2, <3>3, <3>4, <3>5 DEF PlanFor
  <2> QED
    BY <2>1 DEF PlanFits
<1>19. CopiesDiffer'
  BY <1>0, <1>2 DEF CopiesDiffer
<1>20. PairsFit'
  <2>1. ASSUME NEW a \in deliveries, a.kind = "preview"
        PROVE  \/ \E y \in Rows(a.key) :
                    y.dest = a.dest /\ y.kind = "body" /\ y.seq = a.seq + 1
               \/ /\ ~events'[a.key].committed
                  /\ a.seq = next_event_seq[a.dest]
                  /\ <<a.dest, "body">> \in todo'[events'[a.key].owner]
    <3>1. CASE /\ ~events[a.key].committed
               /\ a.seq = next_event_seq[a.dest]
               /\ <<a.dest, "body">> \in todo[events[a.key].owner]
      <4>1. a.key # k /\ a.key \in Keys
        BY <1>2, <1>4, <1>12, <3>1
      <4>2. events'[a.key] = events[a.key]
        BY <1>5, <4>1
      <4>3. todo'[events[a.key].owner] = todo[events[a.key].owner]
        BY <1>16, <3>1, <4>2 DEF Same
      <4> QED
        BY <3>1, <4>2, <4>3
    <3> QED
      BY <1>0, <2>1, <3>1 DEF PairsFit
  <2>2. \A l : Rows(l)' = Rows(l)
    BY <1>2 DEF Rows
  <2> QED
    BY <1>2, <2>1, <2>2 DEF PairsFit
<1>21. StoredFirst'
  BY <1>0, <1>2, <1>12, <1>13 DEF StoredFirst
<1>22. QuorumWithinCopies'
  <2>1. \A l : Bodies(l)' = Bodies(l) /\ Counting(l)' = Counting(l)
    BY <1>2 DEF Bodies, Counting, Rows
  <2>2. ASSUME NEW l \in Keys, IsStored(l)'
        PROVE  /\ events'[l].required <= Cardinality(Counting(l))
               /\ events'[l].required = 0 => Counting(l) = {}
               /\ (events'[l].disposition = "accepted") <=> (Bodies(l) # {})
    <3>1. CASE l = k
      <4>1. PlanFor(r)
        BY <1>0, <1>2 DEF PlanFits
      <4>2. /\ events[k].required = Required(r)
            /\ events[k].disposition = "accepted" <=> Copies(r) # {}
        BY <1>3, <4>1 DEF PlanFor
      <4> QED
        BY <1>2, <1>3, <1>5, <3>1, <4>2, AllInserted
    <3>2. CASE l # k
      <4>1. events'[l] = events[l] /\ IsStored(l)
        BY <1>5, <2>2, <3>2 DEF IsStored
      <4> QED
        BY <1>0, <4>1 DEF QuorumWithinCopies
    <3> QED
      BY <3>1, <3>2
  <2> QED
    BY <2>1, <2>2 DEF QuorumWithinCopies
<1> QED
  BY <1>1, <1>9, <1>10, <1>11, <1>17, <1>18, <1>19, <1>20, <1>21, <1>22 DEF IInv

\* What a rollback takes back: the rows of one event that is not stored, which are
\* the last ones of destinations that nobody else has locked.
LEMMA Rollback ==
  ASSUME IInv, NEW r \in Requests, Die(r)
  PROVE  /\ \A l \in Keys : events'[l] = IF events[l].owner = r THEN NoEvent ELSE events[l]
         /\ \A l \in Keys : events[l].owner = r => ~events[l].committed
         /\ \A l \in Keys : IsStored(l)' <=> IsStored(l)
         /\ deliveries' = {a \in deliveries : events[a.key].owner # r}
         /\ next_event_seq' \in [Dests -> Nat]
         /\ \A a \in deliveries' : a.seq <= next_event_seq'[a.dest]
         /\ \A s \in Requests \ {r} : \A d \in held[s] : next_event_seq'[d] = next_event_seq[d]
<1>0. TypeOK /\ EventsFit /\ LocksFit /\ RowsFit
  BY DEF IInv
<1>1. \A l \in Keys : events'[l] = IF events[l].owner = r THEN NoEvent ELSE events[l]
  BY DEF Die
<1>2. \A l \in Keys : events[l].owner = r => ~events[l].committed
  BY <1>0 DEF EventsFit, Die
<1>3. \A l \in Keys : IsStored(l)' <=> IsStored(l)
  BY <1>1, <1>2 DEF IsStored, NoEvent
<1>4. deliveries' = {a \in deliveries : events[a.key].owner # r}
  BY DEF Die, Inserted
<1>5. \A a \in deliveries : a.key \in Keys /\ a.dest \in Dests /\ a.seq \in Nat
                            /\ a.seq <= next_event_seq[a.dest]
  BY <1>0 DEF TypeOK, Delivery, RowsFit
<1>6. \A d \in Dests : next_event_seq'[d] = next_event_seq[d] - Cardinality(InsertedAt(r, d))
  BY DEF Die, InsertedAt
<1>7. \A d \in Dests : IsFiniteSet(InsertedAt(r, d)) /\ Cardinality(InsertedAt(r, d)) \in Nat
  <2>1. ASSUME NEW d \in Dests PROVE IsFiniteSet(InsertedAt(r, d))
    <3>1. InsertedAt(r, d) \subseteq deliveries
      BY DEF InsertedAt, Inserted
    <3> QED
      BY <1>0, <3>1, FS_Subset DEF RowsFit
  <2> QED
    BY <2>1, FS_CardinalityType
<1>8. ASSUME NEW d \in Dests, ~(d \in held[r] /\ pc[r] = "copy")
      PROVE  next_event_seq'[d] = next_event_seq[d]
  <2>1. InsertedAt(r, d) = {}
    BY <1>0, <1>2, <1>5, <1>8 DEF InsertedAt, Inserted, RowsFit
  <2>2. Cardinality(InsertedAt(r, d)) = 0
    BY <2>1, FS_EmptySet
  <2> QED
    BY <1>0, <1>6, <2>2 DEF TypeOK
<1>9. ASSUME NEW d \in Dests
      PROVE  /\ next_event_seq'[d] \in Nat
             /\ \A a \in deliveries' : a.dest = d => a.seq <= next_event_seq'[d]
  <2>1. next_event_seq[d] \in Nat
    BY <1>0 DEF TypeOK
  <2>2. CASE d \in held[r] /\ pc[r] = "copy"
    <3>1. /\ Cardinality(InsertedAt(r, d)) <= next_event_seq[d]
          /\ \A a \in deliveries : a.dest = d /\ events[a.key].owner # r =>
               a.seq + Cardinality(InsertedAt(r, d)) <= next_event_seq[d]
      BY <1>0, <2>2 DEF RowsFit
    <3> QED
      BY <1>4, <1>5, <1>6, <1>7, <2>1, <3>1
  <2>3. CASE ~(d \in held[r] /\ pc[r] = "copy")
    BY <1>4, <1>5, <1>8, <2>1, <2>3
  <2> QED
    BY <2>2, <2>3
<1>10. next_event_seq' \in [Dests -> Nat]
  <2>1. next_event_seq' = [d \in Dests |-> next_event_seq'[d]]
    BY DEF Die
  <2> QED
    BY <1>9, <2>1
<1>11. \A s \in Requests \ {r} : \A d \in held[s] : next_event_seq'[d] = next_event_seq[d]
  <2>1. \A s \in Requests \ {r} : \A d \in held[s] : d \in Dests /\ d \notin held[r]
    BY <1>0 DEF TypeOK, LocksFit
  <2> QED
    BY <1>8, <2>1
<1>12. \A a \in deliveries' : a.seq <= next_event_seq'[a.dest]
  BY <1>4, <1>5, <1>9
<1> QED
  BY <1>1, <1>2, <1>3, <1>4, <1>10, <1>11, <1>12

\* ROLLBACK: the event is gone with all its copies, and nothing else is.
LEMMA DieStep ==
  ASSUME IInv, NEW r \in Requests, Die(r)
  PROVE  IInv'
<1>0. /\ TypeOK /\ EventsFit /\ AnswersFit /\ LocksFit /\ RowsFit /\ PlanFits
      /\ CopiesDiffer /\ PairsFit /\ StoredFirst /\ QuorumWithinCopies
  BY DEF IInv
<1>1. /\ pc[r] \notin {"new", "done"} /\ Ended(r, Null)
      /\ UNCHANGED <<push, confirmed>>
  BY DEF Die, destVars
<1>2. /\ \A l \in Keys : events'[l] = IF events[l].owner = r THEN NoEvent ELSE events[l]
      /\ \A l \in Keys : events[l].owner = r => ~events[l].committed
      /\ \A l \in Keys : IsStored(l)' <=> IsStored(l)
  BY Rollback
<1>3. /\ deliveries' = {a \in deliveries : events[a.key].owner # r}
      /\ next_event_seq' \in [Dests -> Nat]
      /\ \A a \in deliveries' : a.seq <= next_event_seq'[a.dest]
      /\ \A s \in Requests \ {r} : \A d \in held[s] : next_event_seq'[d] = next_event_seq[d]
  BY Rollback
<1>4. /\ \A s \in Requests \ {r} : Same(s)
      /\ pc'[r] = "done" /\ attempt'[r] = Null /\ held'[r] = {}
      /\ subscribers'[r] = {} /\ push'[r] = push[r]
  BY <1>0, <1>1, EndedOthers
<1>5. TypeOK'
  <2>1. events' \in [Keys -> Event]
    <3>1. NoEvent \in Event
      BY DEF NoEvent, Event
    <3>2. events' = [l \in Keys |-> events'[l]]
      BY DEF Die
    <3> QED
      BY <1>0, <1>2, <3>1, <3>2 DEF TypeOK
  <2>2. deliveries' \subseteq Delivery
    BY <1>0, <1>3 DEF TypeOK
  <2>3. faults' \in 0..MaxFaults
    BY <1>0, IngestAssumption DEF Die, TypeOK
  <2> QED
    BY <1>0, <1>1, <1>3, <2>1, <2>2, <2>3, EndedType DEF TypeOK, Die, sourceVars,
         destVars, typeVars
<1>6. \A s \in Requests : pc[s] \notin {"new", "done"} => push[s].key \in Keys
  <2>1. \A s \in Requests : pc[s] \notin {"new", "done"} => push[s] \in Pushes
    BY <1>0 DEF EventsFit, TypeOK
  <2> QED
    BY <2>1, IngestAssumption DEF Push
<1>7. \A s \in Requests : s # r /\ pc[s] \in {"route", "lock", "copy"} =>
        events'[push[s].key] = events[push[s].key] /\ events[push[s].key].owner = s
  BY <1>0, <1>2, <1>6 DEF EventsFit
<1>8. \A a \in deliveries' : /\ a \in deliveries /\ a.key \in Keys /\ a.dest \in Dests
                             /\ events[a.key].owner \in Requests \ {r}
                             /\ events'[a.key] = events[a.key]
  BY <1>0, <1>2, <1>3 DEF TypeOK, Delivery, Event, RowsFit
<1>9. \A l \in Keys : events[l].owner # r => Rows(l)' = Rows(l)
  BY <1>3 DEF Rows
<1>10. EventsFit'
  <2>1. ASSUME NEW s \in Requests
        PROVE  /\ pc'[s] \notin {"new", "done"} => push[s] # Nothing
               /\ pc'[s] \in {"route", "lock", "copy"} =>
                    events'[push[s].key].owner = s /\ ~events'[push[s].key].committed
    <3>1. CASE s = r
      BY <1>4, <3>1
    <3>2. CASE s # r
      <4>1. pc'[s] = pc[s]
        BY <1>4, <3>2 DEF Same
      <4> QED
        BY <1>0, <1>7, <3>2, <4>1 DEF EventsFit
    <3> QED
      BY <3>1, <3>2
  <2>2. \A l \in Keys : events'[l].owner = Null => events'[l] = NoEvent
    BY <1>0, <1>2 DEF EventsFit
  <2>3. ASSUME NEW l \in Keys, NEW s \in Requests, events'[l].owner = s
        PROVE  push[s].key = l /\ IF events'[l].committed THEN pc'[s] = "done"
                                  ELSE pc'[s] \in {"route", "lock", "copy"}
    <3>1. events[l].owner = s /\ s # r /\ events'[l] = events[l]
      BY <1>2, <2>3, IngestAssumption DEF NoEvent
    <3>2. push[s].key = l /\ IF events[l].committed THEN pc[s] = "done"
                             ELSE pc[s] \in {"route", "lock", "copy"}
      BY <1>0, <3>1 DEF EventsFit
    <3> QED
      BY <1>4, <3>1, <3>2 DEF Same
  <2> QED
    BY <1>1, <2>1, <2>2, <2>3 DEF EventsFit
<1>11. AnswersFit'
  <2>1. ASSUME NEW s \in Requests, attempt'[s] \in Stored \cup {"duplicate"}
        PROVE  /\ pc'[s] = "done" /\ push[s] # Nothing /\ IsStored(push[s].key)'
               /\ attempt'[s] \in Stored => events'[push[s].key].owner = s
    <3>1. s # r
      BY <1>4, <2>1, IngestAssumption DEF Stored
    <3>2. attempt'[s] = attempt[s] /\ pc'[s] = pc[s]
      BY <1>4, <3>1 DEF Same
    <3>3. /\ pc[s] = "done" /\ push[s] # Nothing /\ IsStored(push[s].key)
          /\ attempt[s] \in Stored => events[push[s].key].owner = s
      BY <1>0, <2>1, <3>2 DEF AnswersFit
    <3>4. PICK l \in Keys : l = push[s].key
      BY <1>0, <3>3, IngestAssumption DEF TypeOK, Push
    <3>5. events'[l] = events[l]
      BY <1>2, <3>3, <3>4 DEF IsStored
    <3> QED
      BY <1>1, <3>2, <3>3, <3>4, <3>5 DEF IsStored
  <2> QED
    BY <1>1, <2>1 DEF AnswersFit, IsStored
<1>12. LocksFit'
  BY <1>0, <1>1, <1>4, LocksKept
<1>13. \A a \in deliveries' : ~events[a.key].committed =>
         /\ Same(events[a.key].owner) /\ pc[events[a.key].owner] = "copy"
         /\ a.dest \in held[events[a.key].owner]
  BY <1>0, <1>4, <1>8 DEF RowsFit
<1>14. RowsFit'
  <2>1. IsFiniteSet(deliveries')
    <3>1. deliveries' \subseteq deliveries
      BY <1>3
    <3> QED
      BY <1>0, <3>1, FS_Subset DEF RowsFit
  <2>2. ASSUME NEW a \in deliveries'
        PROVE  /\ events'[a.key].owner # Null
               /\ ~events'[a.key].committed =>
                    /\ pc'[events'[a.key].owner] = "copy"
                    /\ a.dest \in held'[events'[a.key].owner]
               /\ a.seq <= next_event_seq'[a.dest]
    <3>1. events'[a.key].owner # Null /\ a.seq <= next_event_seq'[a.dest]
      BY <1>3, <1>8, IngestAssumption
    <3>2. ASSUME ~events'[a.key].committed
          PROVE  /\ pc'[events'[a.key].owner] = "copy"
                 /\ a.dest \in held'[events'[a.key].owner]
      BY <1>8, <1>13, <3>2 DEF Same
    <3> QED
      BY <3>1, <3>2
  <2>3. \A a, b \in deliveries' : a.dest = b.dest /\ a.seq = b.seq => a = b
    BY <1>0, <1>3 DEF RowsFit
  <2>4. ASSUME NEW s \in Requests, NEW d \in held'[s], pc'[s] = "copy"
        PROVE  /\ Cardinality(InsertedAt(s, d)') <= next_event_seq'[d]
               /\ \A a \in deliveries' : a.dest = d /\ events'[a.key].owner # s =>
                    a.seq + Cardinality(InsertedAt(s, d)') <= next_event_seq'[d]
    <3>1. s # r /\ pc[s] = "copy" /\ d \in held[s]
      BY <1>4, <2>4 DEF Same
    <3>2. InsertedAt(s, d)' = InsertedAt(s, d)
      <4>1. \A a : a \in deliveries' /\ events'[a.key].owner = s
                   <=> a \in deliveries /\ events[a.key].owner = s
        BY <1>3, <1>8, <3>1
      <4> QED
        BY <4>1 DEF InsertedAt, Inserted
    <3>3. next_event_seq'[d] = next_event_seq[d]
      BY <1>3, <3>1
    <3> QED
      BY <1>0, <1>8, <3>1, <3>2, <3>3 DEF RowsFit
  <2> QED
    BY <2>1, <2>2, <2>3, <2>4 DEF RowsFit
<1>15. PlanFits'
  <2>1. ASSUME NEW s \in Requests, pc'[s] = "copy" PROVE PlanFor(s)'
    <3>1. s # r /\ Same(s) /\ pc[s] = "copy" /\ todo'[s] = todo[s]
      BY <1>4, <2>1 DEF Same
    <3>2. Copies(s)' = Copies(s) /\ Required(s)' = Required(s)
      BY <3>1, SamePlan
    <3>3. events'[push[s].key] = events[push[s].key] /\ events[push[s].key].owner = s
      BY <1>7, <3>1
    <3>4. Made(push[s].key)' = Made(push[s].key)
      <4>1. PICK l \in Keys : l = push[s].key
        BY <1>6, <3>1
      <4>2. Rows(l)' = Rows(l)
        BY <1>9, <3>1, <3>3, <4>1
      <4> QED
        BY <1>1, <4>1, <4>2 DEF Made, Rows
    <3>5. PlanFor(s)
      BY <1>0, <3>1 DEF PlanFits
    <3> QED
      BY <1>1, <3>1, <3>2, <3>3, <3>4, <3>5 DEF PlanFor
  <2> QED
    BY <2>1 DEF PlanFits
<1>16. CopiesDiffer'
  BY <1>0, <1>8 DEF CopiesDiffer
<1>17. PairsFit'
  <2>1. ASSUME NEW a \in deliveries', a.kind = "preview"
        PROVE  \/ \E y \in Rows(a.key)' :
                    y.dest = a.dest /\ y.kind = "body" /\ y.seq = a.seq + 1
               \/ /\ ~events'[a.key].committed
                  /\ a.seq = next_event_seq'[a.dest]
                  /\ <<a.dest, "body">> \in todo'[events'[a.key].owner]
    <3>1. Rows(a.key)' = Rows(a.key)
      BY <1>8, <1>9
    <3>2. CASE \E y \in Rows(a.key) :
                 y.dest = a.dest /\ y.kind = "body" /\ y.seq = a.seq + 1
      BY <3>1, <3>2
    <3>3. CASE /\ ~events[a.key].committed
               /\ a.seq = next_event_seq[a.dest]
               /\ <<a.dest, "body">> \in todo[events[a.key].owner]
      <4>1. next_event_seq'[a.dest] = next_event_seq[a.dest]
        BY <1>3, <1>8, <1>13, <3>3
      <4>2. todo'[events[a.key].owner] = todo[events[a.key].owner]
        BY <1>13, <3>3 DEF Same
      <4> QED
        BY <1>8, <3>3, <4>1, <4>2
    <3> QED
      BY <1>0, <1>8, <2>1, <3>2, <3>3 DEF PairsFit
  <2> QED
    BY <2>1 DEF PairsFit
<1>18. StoredFirst'
  BY <1>0, <1>2, <1>8 DEF StoredFirst
<1>19. QuorumWithinCopies'
  <2>1. ASSUME NEW l \in Keys, IsStored(l)'
        PROVE  /\ events'[l] = events[l] /\ IsStored(l)
               /\ Bodies(l)' = Bodies(l) /\ Counting(l)' = Counting(l)
    <3>1. IsStored(l) /\ events[l].owner # r
      BY <1>2, <2>1 DEF IsStored
    <3>2. Rows(l)' = Rows(l)
      BY <1>9, <3>1
    <3> QED
      BY <1>2, <3>1, <3>2 DEF Bodies, Counting
  <2> QED
    BY <1>0, <2>1 DEF QuorumWithinCopies
<1> QED
  BY <1>5, <1>10, <1>11, <1>12, <1>14, <1>15, <1>16, <1>17, <1>18, <1>19 DEF IInv

----------------------------------------------------------------------------
(***************************************************************************)
(* Theorems.                                                               *)
(***************************************************************************)
LEMMA InitIInv == Init => IInv
<1> SUFFICES ASSUME Init PROVE IInv
  OBVIOUS
<1>1. TypeOK
  <2>1. events \in [Keys -> Event]
    BY DEF Init, NoEvent, Event
  <2>2. chain \in Chains \cup {Null} /\ policy \in BOOLEAN /\ disabled \in BOOLEAN
    BY DEF Init
  <2>3. /\ pc \in [Requests -> {"new", "policy", "chain", "insert", "route", "lock",
                                "copy", "done"}]
        /\ push \in [Requests -> Pushes \cup {Nothing}]
        /\ gated \in [Requests -> BOOLEAN]
        /\ along \in [Requests -> Chains \cup {Null}]
        /\ listed \in [Requests -> SUBSET Row]
        /\ held \in [Requests -> SUBSET Dests]
        /\ subscribers \in [Requests -> SUBSET Row]
        /\ todo \in [Requests -> SUBSET (Dests \X Kinds)]
        /\ attempt \in [Requests -> Stored \cup Rejected \cup {"duplicate", Null}]
    BY DEF Init
  <2>4. /\ secret \in Nat
        /\ confirmed \in [Dests -> BOOLEAN]
        /\ condition \in [Dests -> Filters \cup {"none", Null}]
        /\ admin \in [Admins -> {"policy", "chain", Null}]
        /\ deliveries \subseteq Delivery
        /\ next_event_seq \in [Dests -> Nat]
        /\ operator_calls \in 0..MaxOperatorCalls
        /\ faults \in 0..MaxFaults
    BY IngestAssumption DEF Init
  <2> QED
    BY <2>1, <2>2, <2>3, <2>4 DEF TypeOK
<1>2. EventsFit /\ AnswersFit
  <2>1. \A k \in Keys : events[k] = NoEvent /\ events[k].owner = Null
    BY DEF Init, NoEvent
  <2>2. \A r \in Requests : pc[r] = "new" /\ attempt[r] = Null
    BY DEF Init
  <2>3. EventsFit
    BY <2>1, <2>2, IngestAssumption DEF EventsFit
  <2>4. AnswersFit
    BY <2>2, IngestAssumption DEF AnswersFit, Stored
  <2> QED
    BY <2>3, <2>4
<1>3. LocksFit
  BY DEF Init, LocksFit
<1>4. RowsFit
  <2>1. IsFiniteSet(deliveries)
    BY FS_EmptySet DEF Init
  <2> QED
    BY <2>1 DEF Init, RowsFit
<1>5. PlanFits /\ CopiesDiffer /\ PairsFit /\ StoredFirst
  BY DEF Init, PlanFits, CopiesDiffer, PairsFit, StoredFirst
<1>6. QuorumWithinCopies
  <2>1. \A k \in Keys : ~IsStored(k)
    BY DEF Init, NoEvent, IsStored
  <2> QED
    BY <2>1 DEF QuorumWithinCopies
<1> QED
  BY <1>1, <1>2, <1>3, <1>4, <1>5, <1>6 DEF IInv

LEMMA NextIInv == IInv /\ [Next]_vars => IInv'
<1> SUFFICES ASSUME IInv, [Next]_vars PROVE IInv'
  OBVIOUS
<1>1. ASSUME NEW r \in Requests, Admit(r) \/ Step(r) \/ Die(r) PROVE IInv'
  <2>1. CASE Admit(r) \/ ReadPolicy(r) \/ ReadChain(r)
    BY <2>1, EarlyStep
  <2>2. CASE InsertEvent(r) \/ Route(r) \/ LockDest(r) \/ Evaluate(r)
    BY <2>2, InsertEventStep, RouteStep, LockStep, EvaluateStep
  <2>3. CASE InsertCopy(r) \/ Commit(r) \/ Die(r)
    BY <2>3, InsertCopyStep, CommitStep, DieStep
  <2> QED
    BY <1>1, <2>1, <2>2, <2>3 DEF Step
<1>2. CASE Operator \/ \E d \in Dests : Confirm(d)
  BY <1>2, OperatorStep
<1>3. CASE UNCHANGED vars
  <2>1. UNCHANGED <<storeVars, requestVars, confirmed>> /\ TypeOK'
    BY <1>3 DEF vars, sourceVars, destVars, typeVars, storeVars, requestVars, boundVars,
         IInv, TypeOK
  <2>2. \A s \in Requests : Same(s)
    BY <2>1 DEF requestVars, Same
  <2>3. EventsFit' /\ AnswersFit' /\ LocksFit'
    BY <2>1 DEF IInv, EventsFit, AnswersFit, LocksFit, IsStored, storeVars, requestVars
  <2>4. /\ RowsFit' /\ PlanFits' /\ CopiesDiffer' /\ PairsFit' /\ StoredFirst'
        /\ QuorumWithinCopies'
    BY <2>1, <2>2, RowsKept DEF storeVars
  <2> QED
    BY <2>1, <2>3, <2>4 DEF IInv
<1> QED
  BY <1>1, <1>2, <1>3 DEF Next

\* However requests, operators, handshakes and failures of requests interleave,
\* store_event keeps its events, its locks, its rows and their sequence numbers
\* in step: IInv, TypeOK included, holds in every state.
THEOREM IngestInvariant == Spec => []IInv
<1>1. Init => IInv
  BY InitIInv
<1>2. IInv /\ [Next]_vars => IInv'
  BY NextIInv
<1> QED
  BY <1>1, <1>2, PTL DEF Spec

\* Racing pushes of one dedupe_key (INSERT ... ON CONFLICT in store_event) make one
\* event with one body for a destination, and "duplicate" is only said of an event
\* that is stored, for any number of requests, also when some die half way.
THEOREM PushesMakeOneEvent == Spec => []OneEventPerKey
<1>1. IInv => OneEventPerKey
  <2> SUFFICES ASSUME IInv PROVE OneEventPerKey
    OBVIOUS
  <2>1. ASSUME NEW r \in Requests, NEW s \in Requests, attempt[r] \in Stored,
               attempt[s] \in Stored, r # s
        PROVE  push[r].key # push[s].key
    BY <2>1 DEF IInv, AnswersFit
  <2>2. \A r \in Requests :
          attempt[r] \in Stored \cup {"duplicate"} => IsStored(push[r].key)
    BY DEF IInv, AnswersFit
  <2>3. \A k \in Keys : \A x, y \in Bodies(k) : x.dest = y.dest => x = y
    BY DEF IInv, CopiesDiffer, Bodies, Rows
  <2> QED
    BY <2>1, <2>2, <2>3 DEF OneEventPerKey
<1> QED
  BY <1>1, IngestInvariant, PTL

\* The required_ack_count that store_event writes before it inserts the copies is
\* one that the copies it has inserted at the commit can reach, whatever operators
\* and handshakes change in between.
THEOREM QuorumIsReachable == Spec => []QuorumWithinCopies
<1>1. IInv => QuorumWithinCopies
  BY DEF IInv
<1> QED
  BY <1>1, IngestInvariant, PTL

\* The locks that the routing query takes on destinations make fan-outs serial:
\* next_event_seq gives no place twice, also after a rollback, nothing comes between
\* a preview and its body, and two events are in one order wherever both are sent.
THEOREM FanOutsDoNotMix == Spec => []FanOutsAreSerial
<1>1. IInv => FanOutsAreSerial
  <2> SUFFICES ASSUME IInv PROVE FanOutsAreSerial
    OBVIOUS
  <2>0. TypeOK /\ RowsFit /\ CopiesDiffer /\ PairsFit /\ StoredFirst
    BY DEF IInv
  <2>1. \A x, y \in deliveries : x.dest = y.dest /\ x.seq = y.seq => x = y
    BY <2>0 DEF RowsFit
  <2>2. ASSUME NEW x \in deliveries, NEW y \in deliveries,
               x.kind = "preview", y.dest = x.dest, y.seq = x.seq + 1
        PROVE  y.key = x.key /\ y.kind = "body"
    <3>1. CASE \E z \in Rows(x.key) :
                 z.dest = x.dest /\ z.kind = "body" /\ z.seq = x.seq + 1
      <4>1. PICK z \in Rows(x.key) :
                 z.dest = x.dest /\ z.kind = "body" /\ z.seq = x.seq + 1
        BY <3>1
      <4>2. z = y
        BY <2>1, <2>2, <4>1 DEF Rows
      <4> QED
        BY <4>1, <4>2 DEF Rows
    <3>2. CASE x.seq = next_event_seq[x.dest]
      <4>1. y.seq <= x.seq /\ x.seq \in Nat
        BY <2>0, <2>2, <3>2 DEF RowsFit, TypeOK, Delivery
      <4> QED
        BY <2>2, <4>1
    <3> QED
      BY <2>0, <2>2, <3>1, <3>2 DEF PairsFit
  <2>3. ASSUME NEW k \in Keys, NEW l \in Keys,
               NEW x \in Bodies(k), NEW y \in Bodies(k),
               NEW u \in Bodies(l), NEW v \in Bodies(l),
               x.dest = u.dest, y.dest = v.dest, x.seq < u.seq
        PROVE  y.seq <= v.seq
    <3>1. /\ x \in deliveries /\ y \in deliveries /\ u \in deliveries /\ v \in deliveries
          /\ x.key = k /\ y.key = k /\ u.key = l /\ v.key = l
          /\ x.kind # "preview" /\ u.kind # "preview"
      BY DEF Bodies, Rows
    <3>2. x.seq \in Nat
      BY <2>0, <3>1 DEF TypeOK, Delivery
    <3>3. k # l
      BY <2>0, <2>3, <3>1, <3>2 DEF CopiesDiffer
    <3> QED
      BY <2>0, <2>3, <3>1, <3>3 DEF StoredFirst
  <2> QED
    BY <2>1, <2>2, <2>3 DEF FanOutsAreSerial
<1> QED
  BY <1>1, IngestInvariant, PTL

\* No fan-out inserts a copy for a destination whose handshake is open, except for
\* a station of a chain, although the destinations were listed before they were
\* locked and only the plain INSERT looks at confirmed_at once more.
THEOREM CopiesGoToTheConfirmed == Spec => OnlyConfirmedAreServed
<1> DEFINE Served == \A x \in deliveries' \ deliveries :
                       confirmed[x.dest] \/ x.kind = "station"
<1>1. IInv /\ [Next]_vars => [Served]_vars
  <2> SUFFICES ASSUME IInv, Next PROVE Served
    OBVIOUS
  <2>1. ASSUME NEW r \in Requests, InsertCopy(r) PROVE Served
    <3>1. PICK x \in todo[r], z \in Delivery :
             /\ z = [key |-> push[r].key, dest |-> x[1], kind |-> x[2],
                     seq |-> next_event_seq[x[1]] + 1]
             /\ deliveries' = deliveries \cup {z}
      BY <2>1, CopyRow
    <3>2. x[2] = "station" \/ confirmed[x[1]]
      BY <2>1, TodoIsLocked DEF InsertCopy
    <3> QED
      BY <3>1, <3>2
  <2>2. ASSUME NEW r \in Requests,
               Admit(r) \/ ReadPolicy(r) \/ ReadChain(r) \/ InsertEvent(r) \/ Route(r)
               \/ LockDest(r) \/ Evaluate(r) \/ Commit(r) \/ Die(r)
        PROVE  Served
    <3>1. deliveries' \subseteq deliveries
      BY <2>2 DEF Admit, ReadPolicy, ReadChain, InsertEvent, Route, LockDest, Evaluate,
           Commit, Die, storeVars
    <3> QED
      BY <3>1
  <2>3. ASSUME Operator \/ \E d \in Dests : Confirm(d) PROVE Served
    <3>1. UNCHANGED storeVars
      BY <2>3, OperatorType DEF IInv
    <3> QED
      BY <3>1 DEF storeVars
  <2> QED
    BY <2>1, <2>2, <2>3 DEF Next, Step
<1> QED
  BY <1>1, IngestInvariant, PTL DEF Spec, OnlyConfirmedAreServed

----------------------------------------------------------------------------
(***************************************************************************)
(* Ingest implements EventStore.                                           *)
(***************************************************************************)
\* A request that has not ended has no answer yet, and one that inserts copies
\* has decided on it.
OpenFit == \A r \in Requests :
             /\ pc[r] # "done" => attempt[r] = Null
             /\ pc[r] = "copy" => events[push[r].key].disposition \in Stored

\* The key of an admitted push.
LEMMA KeyOfPush ==
  ASSUME IInv, NEW r \in Requests, pc[r] \notin {"new", "done"}
  PROVE  push[r].key \in Keys
<1>1. push[r] \in Pushes
  BY DEF IInv, TypeOK, EventsFit
<1> QED
  BY <1>1, IngestAssumption DEF Push

\* A request touches its own event only.
LEMMA OthersEvents ==
  ASSUME IInv, NEW r \in Requests, Admit(r) \/ Step(r) \/ Die(r),
         NEW l \in Keys, events[l].owner \notin {r, Null}
  PROVE  events'[l] = events[l]
<1>0. events \in [Keys -> Event] /\ TypeOK /\ EventsFit
  BY DEF IInv, TypeOK
<1>1. CASE UNCHANGED events
  BY <1>1
<1>2. CASE InsertEvent(r) /\ ~UNCHANGED events
  <2>1. PICK k \in Keys : k = push[r].key
    BY <1>2, KeyOfPush DEF InsertEvent
  <2>2. KeyFree(k) /\ events' = [events EXCEPT ![k].owner = r]
    BY <1>2, <2>1 DEF InsertEvent
  <2> QED
    BY <1>0, <2>1, <2>2 DEF KeyFree
<1>3. CASE Evaluate(r) \/ Commit(r)
  <2>1. PICK k \in Keys : k = push[r].key
    BY <1>3, KeyOfPush DEF Evaluate, Commit
  <2>2. events[k].owner = r
    BY <1>0, <1>3, <2>1 DEF EventsFit, Evaluate, Commit
  <2>3. CASE Evaluate(r)
    BY <1>0, <2>1, <2>2, <2>3, EvaluateEvent
  <2>4. CASE Commit(r)
    <3>1. events' = [events EXCEPT ![k].committed = TRUE]
      BY <2>1, <2>4 DEF Commit
    <3> QED
      BY <1>0, <2>1, <2>2, <3>1
  <2> QED
    BY <1>3, <2>3, <2>4
<1>4. CASE Die(r)
  BY <1>4, Rollback
<1> QED
  BY <1>1, <1>2, <1>3, <1>4
  DEF Step, Admit, ReadPolicy, ReadChain, Route, LockDest, InsertCopy, storeVars

\* How a step of a request answers it.
LEMMA AnswerMoves ==
  ASSUME IInv, OpenFit, NEW r \in Requests, Admit(r) \/ Step(r) \/ Die(r)
  PROVE  /\ pc[r] # "done"
         /\ \/ /\ attempt'[r] = attempt[r] /\ pc'[r] # "done"
               /\ pc'[r] = "copy" => pc[r] = "copy" \/ Evaluate(r)
            \/ \E x \in Rejected \cup {Null} : Ended(r, x) /\ UNCHANGED push /\ ~Commit(r)
            \/ InsertEvent(r) /\ Ended(r, "duplicate") /\ IsStored(push[r].key)
            \/ Commit(r)
<1>0. TypeOK
  BY DEF IInv
<1>1. CASE Admit(r)
  <2>1. PICK verdict \in {Verdict(h) : h \in Header} :
          \/ verdict # "admitted" /\ Ended(r, verdict) /\ UNCHANGED push
          \/ pc' = [pc EXCEPT ![r] = "policy"] /\ UNCHANGED attempt
    BY <1>1 DEF Admit
  <2>2. verdict # "admitted" => verdict \in Rejected \cup {Null}
    BY VerdictType
  <2>3. pc[r] = "new" /\ ~Commit(r)
    BY <1>1 DEF Admit, Commit
  <2>4. CASE verdict # "admitted" /\ Ended(r, verdict) /\ UNCHANGED push
    BY <2>2, <2>3, <2>4
  <2>5. CASE pc' = [pc EXCEPT ![r] = "policy"] /\ UNCHANGED attempt
    BY <1>0, <2>3, <2>5 DEF TypeOK
  <2> QED
    BY <2>1, <2>4, <2>5
<1>2. CASE ReadPolicy(r)
  <2>1. pc[r] = "policy" /\ ~Commit(r) /\ UNCHANGED push
    BY <1>2 DEF ReadPolicy, Commit
  <2>2. \/ Ended(r, "invalid_body")
        \/ pc' = [pc EXCEPT ![r] = "chain"] /\ UNCHANGED attempt
    BY <1>2 DEF ReadPolicy
  <2>3. CASE Ended(r, "invalid_body")
    BY <2>1, <2>3 DEF Rejected
  <2>4. CASE pc' = [pc EXCEPT ![r] = "chain"] /\ UNCHANGED attempt
    BY <1>0, <2>1, <2>4 DEF TypeOK
  <2> QED
    BY <2>2, <2>3, <2>4
<1>3. CASE ReadChain(r) \/ Route(r)
  <2>1. pc[r] # "done" /\ UNCHANGED attempt /\ pc'[r] \notin {"done", "copy"}
    BY <1>0, <1>3 DEF ReadChain, Route, TypeOK
  <2> QED
    BY <2>1
<1>4. CASE InsertEvent(r)
  <2>1. pc[r] = "insert"
    BY <1>4 DEF InsertEvent
  <2>2. \/ pc' = [pc EXCEPT ![r] = "route"] /\ UNCHANGED attempt
        \/ Ended(r, "duplicate") /\ KeyTaken(push[r].key)
    BY <1>4 DEF InsertEvent
  <2>3. CASE pc' = [pc EXCEPT ![r] = "route"] /\ UNCHANGED attempt
    BY <1>0, <2>1, <2>3 DEF TypeOK
  <2>4. CASE Ended(r, "duplicate") /\ KeyTaken(push[r].key)
    BY <1>4, <2>1, <2>4 DEF KeyTaken, IsStored
  <2> QED
    BY <2>2, <2>3, <2>4
<1>5. CASE LockDest(r) \/ InsertCopy(r)
  <2>1. pc[r] \in {"lock", "copy"} /\ UNCHANGED <<pc, attempt>>
    BY <1>5 DEF LockDest, InsertCopy
  <2> QED
    BY <2>1
<1>6. CASE Evaluate(r)
  <2>1. pc[r] = "lock" /\ UNCHANGED attempt /\ pc'[r] = "copy"
    BY <1>0, <1>6 DEF Evaluate, TypeOK
  <2> QED
    BY <1>6, <2>1
<1>7. CASE Commit(r)
  BY <1>7 DEF Commit
<1>8. CASE Die(r)
  <2>1. pc[r] # "done" /\ Ended(r, Null) /\ UNCHANGED push
    BY <1>8 DEF Die
  <2> QED
    BY <2>1
<1> QED
  BY <1>1, <1>2, <1>3, <1>4, <1>5, <1>6, <1>7, <1>8 DEF Step

\* Every step keeps OpenFit.
LEMMA OpenStep ==
  ASSUME IInv, OpenFit, [Next]_vars
  PROVE  OpenFit'
<1>0. TypeOK /\ EventsFit
  BY DEF IInv
<1>1. ASSUME NEW r \in Requests, Admit(r) \/ Step(r) \/ Die(r) PROVE OpenFit'
  <2>1. ASSUME NEW s \in Requests \ {r}
        PROVE  /\ pc'[s] # "done" => attempt'[s] = Null
               /\ pc'[s] = "copy" => events'[push'[s].key].disposition \in Stored
    <3>1. Same(s)
      BY <1>0, <1>1, OthersSame
    <3>2. ASSUME pc[s] = "copy"
          PROVE  events'[push[s].key] = events[push[s].key]
      <4>1. push[s].key \in Keys /\ events[push[s].key].owner = s
        BY <1>0, <3>2, KeyOfPush DEF EventsFit
      <4> QED
        BY <1>1, <4>1, OthersEvents, IngestAssumption
    <3> QED
      BY <3>1, <3>2 DEF Same, OpenFit
  <2>2. /\ pc'[r] # "done" => attempt'[r] = Null
        /\ pc'[r] = "copy" => events'[push'[r].key].disposition \in Stored
    <3>1. CASE \E x : Ended(r, x)
      <4>1. pc'[r] = "done"
        BY <1>0, <3>1 DEF Ended, TypeOK
      <4> QED
        BY <4>1
    <3>2. CASE ~ \E x : Ended(r, x)
      <4>1. /\ attempt'[r] = attempt[r] /\ pc[r] # "done"
            /\ pc'[r] = "copy" => pc[r] = "copy" \/ Evaluate(r)
        BY <1>1, <3>2, AnswerMoves DEF Commit
      <4>2. CASE Evaluate(r)
        <5>1. PICK k \in Keys : k = push[r].key
          BY <4>2, KeyOfPush DEF Evaluate
        <5>2. events'[k].disposition = Outcome(r) /\ Outcome(r) \in Stored
          BY <1>0, <4>2, <5>1, EvaluateEvent, OutcomeType
        <5>3. push' = push
          BY <4>2 DEF Evaluate
        <5> QED
          BY <4>1, <5>1, <5>2, <5>3 DEF OpenFit
      <4>3. CASE pc[r] = "copy" /\ ~Evaluate(r)
        <5>1. InsertCopy(r)
          BY <1>1, <3>2, <4>3 DEF Step, Admit, ReadPolicy, ReadChain, InsertEvent,
               Route, LockDest, Commit, Die
        <5>2. UNCHANGED <<events, push>>
          BY <5>1 DEF InsertCopy
        <5> QED
          BY <4>1, <4>3, <5>2 DEF OpenFit
      <4> QED
        BY <4>1, <4>2, <4>3 DEF OpenFit
    <3> QED
      BY <3>1, <3>2
  <2> QED
    BY <2>1, <2>2 DEF OpenFit
<1>2. ASSUME UNCHANGED <<storeVars, requestVars>> PROVE OpenFit'
  BY <1>2 DEF OpenFit, storeVars, requestVars
<1>3. CASE UNCHANGED vars
  BY <1>2, <1>3 DEF vars
<1>4. CASE Operator \/ \E d \in Dests : Confirm(d)
  BY <1>0, <1>2, <1>4, OperatorType
<1> QED
  BY <1>1, <1>3, <1>4 DEF Next

\* Until it commits, nothing of a request can be seen.
LEMMA Invisible ==
  ASSUME IInv, NEW r \in Requests, Admit(r) \/ Step(r) \/ Die(r), ~Commit(r)
  PROVE  StoredKeys' = StoredKeys /\ Visible' = Visible
<1>0. TypeOK /\ EventsFit
  BY DEF IInv
<1>1. \A x \in deliveries : x.key \in Keys
  BY <1>0 DEF TypeOK, Delivery
<1>2. CASE UNCHANGED <<events, deliveries>>
  BY <1>2 DEF StoredKeys, Visible, IsStored
<1>3. ASSUME UNCHANGED deliveries, NEW k \in Keys,
             ~events[k].committed, ~events'[k].committed,
             \A l \in Keys : l # k => events'[l] = events[l]
      PROVE  StoredKeys' = StoredKeys /\ Visible' = Visible
  <2>1. \A l \in Keys : IsStored(l)' <=> IsStored(l)
    BY <1>3 DEF IsStored
  <2>2. StoredKeys' = StoredKeys
    BY <2>1 DEF StoredKeys
  <2>3. Visible' = Visible
    BY <1>1, <1>3, <2>1 DEF Visible
  <2> QED
    BY <2>2, <2>3
<1>4. CASE InsertEvent(r) /\ ~UNCHANGED events
  <2>1. PICK k \in Keys : k = push[r].key
    BY <1>4, KeyOfPush DEF InsertEvent
  <2>2. /\ KeyFree(k) /\ events' = [events EXCEPT ![k].owner = r]
        /\ UNCHANGED deliveries
    BY <1>4, <2>1 DEF InsertEvent
  <2>3. events[k] = NoEvent
    BY <1>0, <2>1, <2>2 DEF KeyFree, EventsFit
  <2>4. ~events[k].committed /\ ~events'[k].committed
    BY <1>0, <2>1, <2>2, <2>3 DEF NoEvent, TypeOK
  <2>5. \A l \in Keys : l # k => events'[l] = events[l]
    BY <1>0, <2>1, <2>2 DEF TypeOK
  <2> QED
    BY <1>3, <2>1, <2>2, <2>4, <2>5
<1>5. CASE Evaluate(r)
  <2>1. PICK k \in Keys : k = push[r].key
    BY <1>5, KeyOfPush DEF Evaluate
  <2>2. ~events[k].committed
    BY <1>0, <1>5, <2>1 DEF EventsFit, Evaluate
  <2>3. /\ events'[k].committed = events[k].committed
        /\ \A l \in Keys : l # k => events'[l] = events[l]
    BY <1>0, <1>5, <2>1, EvaluateEvent
  <2>4. UNCHANGED deliveries
    BY <1>5 DEF Evaluate
  <2> QED
    BY <1>3, <2>1, <2>2, <2>3, <2>4
<1>6. CASE InsertCopy(r)
  <2>1. PICK z \in Delivery : z.key = push[r].key /\ deliveries' = deliveries \cup {z}
    BY <1>6, CopyRow
  <2>2. UNCHANGED events
    BY <1>6 DEF InsertCopy
  <2>3. ~IsStored(z.key)
    BY <1>0, <1>6, <2>1 DEF EventsFit, IsStored, InsertCopy
  <2> QED
    BY <2>1, <2>2, <2>3 DEF StoredKeys, Visible, IsStored
<1>7. CASE Die(r)
  <2>1. \A l \in Keys : IsStored(l)' <=> IsStored(l)
    BY <1>7, Rollback
  <2>2. deliveries' = {a \in deliveries : events[a.key].owner # r}
    BY <1>7, Rollback
  <2>3. \A a \in deliveries : IsStored(a.key) => events[a.key].owner # r
    BY <1>1, <1>7, Rollback DEF IsStored
  <2>4. StoredKeys' = StoredKeys
    BY <2>1 DEF StoredKeys
  <2>5. Visible' = Visible
    BY <1>1, <2>1, <2>2, <2>3 DEF Visible
  <2> QED
    BY <2>4, <2>5
<1> QED
  BY <1>2, <1>4, <1>5, <1>6, <1>7
  DEF Step, Admit, ReadPolicy, ReadChain, Route, LockDest, InsertEvent, storeVars

\* One request is answered, and no other answer changes.
LEMMA AnswerGiven ==
  ASSUME NEW r \in Requests, NEW x, x # Null, attempt[r] = Null, attempt'[r] = x,
         push'[r] = push[r], \A s \in Requests \ {r} : Same(s)
  PROVE  Store!Answered(r, IF x \in Rejected THEN Null ELSE push[r].key, x)
<1>1. Answers[r] = Null
  BY DEF Answers
<1>2. Answers' = [Answers EXCEPT ![r] = <<IF x \in Rejected THEN Null ELSE push[r].key, x>>]
  <2>1. Answers'[r] = <<IF x \in Rejected THEN Null ELSE push[r].key, x>>
    BY DEF Answers
  <2>2. \A s \in Requests : s # r => Answers'[s] = Answers[s]
    BY DEF Answers, Same
  <2>3. Answers = [s \in Requests |-> Answers[s]] /\ Answers' = [s \in Requests |-> Answers'[s]]
    BY DEF Answers
  <2> HIDE DEF Answers
  <2> QED
    BY <2>1, <2>2, <2>3
<1> QED
  BY <1>1, <1>2 DEF Store!Answered

\* COMMIT shows the event, all its copies at the end of their queues, and answers.
LEMMA CommitPublishes ==
  ASSUME IInv, OpenFit, NEW r \in Requests, Commit(r)
  PROVE  \E k \in Keys : Store!Publish(r, k)
<1>0. /\ TypeOK /\ EventsFit /\ RowsFit /\ PlanFits /\ CopiesDiffer /\ PairsFit
      /\ StoredFirst
  BY DEF IInv
<1>1. /\ pc[r] = "copy" /\ todo[r] = {} /\ UNCHANGED <<push, deliveries>>
  BY DEF Commit
<1>2. PICK k \in Keys : k = push[r].key
  BY <1>1, KeyOfPush
<1>3. events[k].owner = r /\ ~events[k].committed
  BY <1>0, <1>1, <1>2 DEF EventsFit
<1>4. events'[k].owner = r /\ events'[k].committed /\
      \A l \in Keys : l # k => events'[l] = events[l]
  <2>1. events' = [events EXCEPT ![k].committed = TRUE]
    BY <1>2 DEF Commit
  <2>2. PICK e \in Event : e = events[k]
    BY <1>0 DEF TypeOK
  <2>3. events'[k] = [e EXCEPT !.committed = TRUE]
        /\ \A l \in Keys : l # k => events'[l] = events[l]
    BY <1>0, <2>1, <2>2 DEF TypeOK
  <2> QED
    BY <1>3, <2>2, <2>3 DEF Event
<1>5. /\ IsStored(k)' /\ ~IsStored(k)
      /\ \A l \in Keys : l # k => (IsStored(l)' <=> IsStored(l))
  BY <1>3, <1>4, IngestAssumption DEF IsStored
<1>6. k \notin StoredKeys /\ StoredKeys' = StoredKeys \cup {k}
  BY <1>5 DEF StoredKeys
<1>7. \A x \in deliveries : x.key \in Keys /\ x.dest \in Dests /\ x.kind \in Kinds
                            /\ x.seq \in Nat /\ x \in Delivery
  BY <1>0 DEF TypeOK, Delivery
<1>8. Visible \subseteq Visible' /\ Visible' \ Visible = Rows(k)
  BY <1>1, <1>5, <1>7 DEF Visible, Rows
<1>9. Store!FanOut(k, Rows(k))
  <2>1. Rows(k) \subseteq [key: {k}, dest: Dests, kind: Kinds, seq: Nat]
    BY <1>7 DEF Rows, Delivery
  <2>2. ASSUME NEW x \in Rows(k), NEW y \in Visible, x.dest = y.dest
        PROVE  y.seq < x.seq
    <3>1. x \in deliveries /\ y \in deliveries /\ x.key = k /\ y.key # k
      BY <1>5 DEF Rows, Visible
    <3>2. ~(x.seq < y.seq)
      BY <1>0, <1>5, <2>2, <3>1 DEF StoredFirst
    <3>3. x.seq # y.seq
      BY <1>0, <2>2, <3>1 DEF RowsFit
    <3> QED
      BY <1>7, <3>1, <3>2, <3>3
  <2>3. ASSUME NEW x \in Rows(k), x.kind = "preview"
        PROVE  \E y \in Rows(k) : y.dest = x.dest /\ y.kind = "body" /\ y.seq = x.seq + 1
    <3>1. x \in deliveries /\ x.key = k
      BY DEF Rows
    <3>2. <<x.dest, "body">> \notin todo[events[x.key].owner]
      BY <1>1, <1>3, <3>1
    <3> QED
      BY <1>0, <2>3, <3>1, <3>2 DEF PairsFit
  <2>4. ASSUME NEW x \in Rows(k), NEW y \in Rows(k), x.dest = y.dest, x # y
        PROVE  {x.kind, y.kind} = {"preview", "body"}
    <3>1. /\ x \in deliveries /\ x.key = k
          /\ y \in deliveries /\ y.key = k
      BY DEF Rows
    <3>2. x.kind # y.kind /\ (x.kind = "preview" \/ y.kind = "preview")
      BY <1>0, <2>4, <3>1 DEF CopiesDiffer
    <3>3. <<x.dest, x.kind>> \in Copies(r) /\ <<y.dest, y.kind>> \in Copies(r)
      <4>1. PlanFor(r)
        BY <1>0, <1>1 DEF PlanFits
      <4>2. Made(k) = Copies(r)
        BY <1>1, <1>2, <4>1 DEF PlanFor
      <4> QED
        BY <4>2 DEF Made
    <3>4. x.kind \in {"preview", "body"} /\ y.kind \in {"preview", "body"}
      BY <3>2, <3>3, KindsOfCopies
    <3> QED
      BY <3>2, <3>4
  <2> QED
    BY <2>1, <2>2, <2>3, <2>4 DEF Store!FanOut
<1>10. PICK x \in Stored : x = events[k].disposition
  BY <1>1, <1>2 DEF OpenFit
<1>11. x = "accepted" <=> Rows(k) # {}
  <2>1. PlanFor(r)
    BY <1>0, <1>1 DEF PlanFits
  <2>2. Made(k) = Copies(r) /\ (x = "accepted" <=> Copies(r) # {})
    BY <1>1, <1>2, <1>10, <2>1 DEF PlanFor
  <2>3. Made(k) # {} <=> Rows(k) # {}
    BY DEF Made
  <2> QED
    BY <2>2, <2>3
<1>12. Store!Answered(r, k, x)
  <2>1. /\ \A s \in Requests \ {r} : Same(s)
        /\ attempt'[r] = x /\ push'[r] = push[r]
    BY <1>0, <1>1, <1>2, <1>10, EndedOthers DEF Commit
  <2>2. attempt[r] = Null /\ x # Null /\ x \notin Rejected
    BY <1>1, <1>10, IngestAssumption DEF OpenFit, Stored, Rejected
  <2> QED
    BY <1>2, <2>1, <2>2, AnswerGiven
<1> QED
  BY <1>6, <1>8, <1>9, <1>11, <1>12 DEF Store!Publish

\* Every step of Ingest is a step of EventStore, or changes nothing that can be seen.
LEMMA StoreStep ==
  ASSUME IInv, OpenFit, [Next]_vars
  PROVE  [Store!Next]_<<StoredKeys, Visible, Answers>>
<1>0. TypeOK
  BY DEF IInv
<1>1. ASSUME NEW r \in Requests, Admit(r) \/ Step(r) \/ Die(r)
      PROVE  Store!Next \/ UNCHANGED <<StoredKeys, Visible, Answers>>
  <2>1. /\ \A s \in Requests \ {r} : Same(s)
        /\ pc[r] # "done" /\ attempt[r] = Null
    BY <1>0, <1>1, OthersSame, AnswerMoves DEF OpenFit
  <2>2. CASE Commit(r)
    BY <2>2, CommitPublishes DEF Store!Next
  <2>3. CASE ~Commit(r) /\ attempt'[r] = attempt[r]
    <3>1. UNCHANGED Answers
      BY <2>1, <2>3 DEF Answers, Same
    <3>2. StoredKeys' = StoredKeys /\ Visible' = Visible
      BY <1>1, <2>3, Invisible
    <3> QED
      BY <3>1, <3>2
  <2>4. ASSUME ~Commit(r), NEW x \in Rejected, x # Null, Ended(r, x), UNCHANGED push
        PROVE  Store!Next
    <3>1. attempt'[r] = x /\ push'[r] = push[r]
      BY <1>0, <2>4, EndedOthers
    <3>2. Store!Answered(r, Null, x)
      BY <2>1, <2>4, <3>1, AnswerGiven
    <3>3. StoredKeys' = StoredKeys /\ Visible' = Visible
      BY <1>1, <2>4, Invisible
    <3>4. Store!Reject(r)
      BY <3>2, <3>3 DEF Store!Reject
    <3> QED
      BY <3>4 DEF Store!Next
  <2>5. ASSUME ~Commit(r), InsertEvent(r), Ended(r, "duplicate"), IsStored(push[r].key)
        PROVE  Store!Next
    <3>1. PICK k \in Keys : k = push[r].key
      BY <2>5, KeyOfPush DEF InsertEvent
    <3>2. UNCHANGED push
      BY <2>5 DEF InsertEvent
    <3>3. attempt'[r] = "duplicate" /\ push'[r] = push[r]
      BY <1>0, <2>5, <3>2, EndedOthers
    <3>4. Store!Answered(r, k, "duplicate")
      BY <2>1, <3>1, <3>3, AnswerGiven, IngestAssumption DEF Rejected
    <3>5. StoredKeys' = StoredKeys /\ Visible' = Visible
      BY <1>1, <2>5, Invisible
    <3>6. k \in StoredKeys
      BY <2>5, <3>1 DEF StoredKeys
    <3>7. Store!Duplicate(r, k)
      BY <3>4, <3>5, <3>6 DEF Store!Duplicate
    <3> QED
      BY <3>7 DEF Store!Next
  <2>6. ASSUME NEW x, x = Null, Ended(r, x), UNCHANGED push
        PROVE  attempt'[r] = attempt[r]
    BY <1>0, <2>1, <2>6, EndedOthers
  <2> QED
    BY <1>1, <2>2, <2>3, <2>4, <2>5, <2>6, AnswerMoves
<1>2. ASSUME UNCHANGED <<storeVars, requestVars>>
      PROVE  UNCHANGED <<StoredKeys, Visible, Answers>>
  BY <1>2 DEF StoredKeys, Visible, Answers, IsStored, storeVars, requestVars
<1>3. CASE UNCHANGED vars
  BY <1>2, <1>3 DEF vars
<1>4. CASE Operator \/ \E d \in Dests : Confirm(d)
  BY <1>0, <1>2, <1>4, OperatorType
<1> QED
  BY <1>1, <1>3, <1>4 DEF Next

\* create_event and store_event, for any number of pushes that race, are refused,
\* die and start over: to every other transaction a push is one step, in which its
\* event, its complete fan-out at the end of the queues and its answer appear.
THEOREM PushIsAtomic == Spec => PublishesAtomically
<1>1. Init => Store!Init /\ OpenFit
  <2> SUFFICES ASSUME Init PROVE Store!Init /\ OpenFit
    OBVIOUS
  <2>1. OpenFit
    BY DEF Init, OpenFit
  <2>2. StoredKeys = {} /\ Visible = {}
    BY DEF Init, StoredKeys, Visible, IsStored, NoEvent
  <2>3. Answers = [r \in Requests |-> Null]
    BY DEF Init, Answers
  <2> QED
    BY <2>1, <2>2, <2>3 DEF Store!Init
<1>2. IInv /\ OpenFit /\ [Next]_vars =>
        OpenFit' /\ [Store!Next]_<<StoredKeys, Visible, Answers>>
  BY OpenStep, StoreStep
<1>3. Spec => [](IInv /\ OpenFit)
  BY <1>1, <1>2, IngestInvariant, PTL DEF Spec
<1>4. Spec => Store!Init
  BY <1>1, PTL DEF Spec
<1>5. Spec => [][Store!Next]_<<StoredKeys, Visible, Answers>>
  BY <1>2, <1>3, PTL DEF Spec
<1>6. Store!Init /\ [][Store!Next]_<<StoredKeys, Visible, Answers>> => PublishesAtomically
  BY PTL DEF PublishesAtomically, Store!Spec
<1> QED
  BY <1>4, <1>5, <1>6, PTL
============================================================================
