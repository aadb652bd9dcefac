------------------------------ MODULE Ingest ------------------------------
(***************************************************************************)
(* From the push of an event to its copies: admission (app/ingest_auth.py) *)
(* and store_event (app/main.py), which routes an event along the chain of *)
(* its type, or to the confirmed subscribers whose condition matches, as a *)
(* preview/body pair when the type is gated.                               *)
(*                                                                         *)
(* A request is one transaction of several statements, each of which sees  *)
(* what is committed when it runs (READ COMMITTED), so keys are rotated,   *)
(* types gated or chained and destinations moved between them.  Rows stay  *)
(* locked until the commit: the event by its dedupe_key, the destinations  *)
(* one after the other.  PUT preview-policy and PUT relay-chain check each *)
(* other's table before they write, and are two steps as well.             *)
(*                                                                         *)
(* There is one source and one event type.                                 *)
(***************************************************************************)
EXTENDS Integers, Sequences, FiniteSets, FiniteSetsExt, Functions

CONSTANTS
  Requests,          \* POST /v1/events calls; each is one push
  Keys,              \* dedupe keys
  Payloads,          \* event bodies
  Pushes,            \* the events that may be pushed
  Filters,           \* subscription conditions
  Matches(_, _),     \* subfilters.evaluate
  Dests,             \* destinations, by id
  Shadow,            \* those that only observe
  Chains,            \* station lists that an operator may define
  Admins,            \* concurrent PUT preview-policy and PUT relay-chain calls
  AckThreshold,      \* the threshold of the type, or Null
  Null,              \* SQL NULL
  MaxOperatorCalls,  \* bound: operator calls in a behaviour
  MaxFaults          \* bound: requests that die half way

\* previewed: the body carries a preview_payload.
Push == [key: Keys, payload: Payloads, previewed: BOOLEAN]

ASSUME IngestAssumption ==
  /\ Dests \subseteq Nat /\ IsFiniteSet(Dests)
  /\ Shadow \subseteq Dests
  /\ Pushes \subseteq Push
  /\ \A c \in Chains : /\ c \in Seq(Dests) /\ c # <<>>
                       /\ \A i, j \in DOMAIN c : c[i] = c[j] => i = j
  /\ \A f \in Filters, p \in Payloads : Matches(f, p) \in BOOLEAN
  /\ AckThreshold = Null \/ AckThreshold \in Nat \ {0}
  /\ Null \notin Requests /\ Null \notin Keys
  /\ Null \notin Filters /\ Null \notin Chains
  /\ Null \notin {"accepted", "unrouted", "pending_confirmation", "filtered",
                  "duplicate"}
  /\ MaxOperatorCalls \in Nat
  /\ MaxFaults \in Nat

VARIABLES
  \* event_sources: the one source
  secret,        \* the number of its current secret
  disabled,      \* is disabled_at set?
  \* destinations and their subscriptions to the type
  confirmed,
  next_event_seq,
  condition,     \* "none": not subscribed; Null: everything; or a filter
  \* configuration of the type
  policy,        \* does it have a preview policy?
  chain,         \* its active chain, or Null
  admin,         \* by call: Null, or what it has checked and will write:
                 \* "policy" or "chain"
  \* events, by dedupe_key, and the rows of deliveries
  events,        \* owner: the request that inserts or inserted it, or Null
  deliveries,
  \* requests
  pc,            \* the statement a request runs next
  push,          \* the event pushed, once admitted
  gated,         \* the policy read
  along,         \* the chain read
  listed,        \* rows the routing query has still to lock
  held,          \* destinations locked
  subscribers,   \* the rows it returns
  todo,          \* copies still to be inserted
  attempt,       \* the disposition in ingestion_attempts, or Null
  \* bounds
  operator_calls,
  faults

sourceVars == <<secret, disabled>>
destVars == <<confirmed, condition>>
typeVars == <<policy, chain, admin>>
storeVars == <<events, deliveries, next_event_seq>>
requestVars == <<pc, push, gated, along, listed, held, subscribers, todo, attempt>>
boundVars == <<operator_calls, faults>>
vars == <<sourceVars, destVars, typeVars, storeVars, requestVars, boundVars>>

Stored == {"accepted", "unrouted", "pending_confirmation", "filtered"}
Rejected == {"source_unknown", "source_disabled", "bad_signature",
             "stale_timestamp", "future_timestamp", "invalid_timestamp",
             "invalid_body"}
Kinds == {"plain", "preview", "body", "station"}
Row == Dests \X (Filters \cup {Null})
Nothing == [key |-> Null]
Event == [owner: Requests \cup {Null}, committed: BOOLEAN, required: Nat,
          disposition: Stored \cup {Null}]
NoEvent == [owner |-> Null, committed |-> FALSE, required |-> 0,
            disposition |-> Null]
\* seq: destination_seq.
Delivery == [key: Keys, dest: Dests, kind: Kinds, seq: Nat]

TypeOK ==
  /\ secret \in Nat
  /\ disabled \in BOOLEAN
  /\ confirmed \in [Dests -> BOOLEAN]
  /\ condition \in [Dests -> Filters \cup {"none", Null}]
  /\ policy \in BOOLEAN
  /\ chain \in Chains \cup {Null}
  /\ admin \in [Admins -> {"policy", "chain", Null}]
  /\ events \in [Keys -> Event]
  /\ deliveries \subseteq Delivery
  /\ next_event_seq \in [Dests -> Nat]
  /\ pc \in [Requests -> {"new", "policy", "chain", "insert", "route", "lock",
                          "copy", "done"}]
  /\ push \in [Requests -> Pushes \cup {Nothing}]
  /\ gated \in [Requests -> BOOLEAN]
  /\ along \in [Requests -> Chains \cup {Null}]
  /\ listed \in [Requests -> SUBSET Row]
  /\ held \in [Requests -> SUBSET Dests]
  /\ subscribers \in [Requests -> SUBSET Row]
  /\ todo \in [Requests -> SUBSET (Dests \X Kinds)]
  /\ attempt \in [Requests -> Stored \cup Rejected \cup {"duplicate", Null}]
  /\ operator_calls \in 0..MaxOperatorCalls
  /\ faults \in 0..MaxFaults

\* Destinations have been registered and confirmed, and the type configured.
Init ==
  /\ secret = 1
  /\ disabled = FALSE
  /\ confirmed = [d \in Dests |-> TRUE]
  /\ condition \in [Dests -> Filters \cup {"none", Null}]
  /\ policy \in BOOLEAN
  /\ chain \in IF policy THEN {Null} ELSE Chains \cup {Null}
  /\ admin = [a \in Admins |-> Null]
  /\ events = [k \in Keys |-> NoEvent]
  /\ deliveries = {}
  /\ next_event_seq = [d \in Dests |-> 0]
  /\ pc = [r \in Requests |-> "new"]
  /\ push = [r \in Requests |-> Nothing]
  /\ gated = [r \in Requests |-> FALSE]
  /\ along = [r \in Requests |-> Null]
  /\ listed = [r \in Requests |-> {}]
  /\ held = [r \in Requests |-> {}]
  /\ subscribers = [r \in Requests |-> {}]
  /\ todo = [r \in Requests |-> {}]
  /\ attempt = [r \in Requests |-> Null]
  /\ operator_calls = 0
  /\ faults = 0

-----------------------------------------------------------------------------
(* Admission *)

\* What a request may look like to authenticate and parse_event_body.  The
\* signature names the secret it was made with; 0 is a missing header, and a
\* secret that was never issued counts as an old one.
Header == [source: {"malformed", "unknown", "known"},
           signed_at: {"missing", "garbled", "stale", "future", "fresh"},
           signature: 0..secret,
           wellformed: BOOLEAN]

\* The first check that fails, in the order of the code.  A send time that is
\* no number raises in _parse_signed_at, before reject exists: nothing is
\* recorded.
Verdict(h) ==
  LET checks ==
        << <<h.signed_at = "garbled", Null>>,
           <<h.source = "malformed", "source_unknown">>,
           <<h.signed_at = "missing", "invalid_timestamp">>,
           <<h.signature = 0, "bad_signature">>,
           <<h.source = "unknown", "source_unknown">>,
           <<h.signature # secret, "bad_signature">>,
           <<h.signed_at = "stale", "stale_timestamp">>,
           <<h.signed_at = "future", "future_timestamp">>,
           <<disabled, "source_disabled">>,
           <<~h.wellformed, "invalid_body">> >>
      failed == {i \in DOMAIN checks : checks[i][1]}
  IN  IF failed = {} THEN "admitted" ELSE checks[Min(failed)][2]

\* Request r is over, with disposition x in ingestion_attempts: what it had read
\* and locked is gone.
Ended(r, x) ==
  /\ pc' = [pc EXCEPT ![r] = "done"]
  /\ attempt' = [attempt EXCEPT ![r] = x]
  /\ gated' = [gated EXCEPT ![r] = FALSE]
  /\ along' = [along EXCEPT ![r] = Null]
  /\ listed' = [listed EXCEPT ![r] = {}]
  /\ held' = [held EXCEPT ![r] = {}]
  /\ subscribers' = [subscribers EXCEPT ![r] = {}]
  /\ todo' = [todo EXCEPT ![r] = {}]

\* authenticate and parse_event_body; a refusal commits its own row.
Admit(r) ==
  /\ pc[r] = "new"
  /\ \E verdict \in {Verdict(h) : h \in Header} :
       \/ verdict # "admitted" /\ Ended(r, verdict) /\ UNCHANGED push
       \/ /\ verdict = "admitted"
          /\ \E p \in Pushes : push' = [push EXCEPT ![r] = p]
          /\ pc' = [pc EXCEPT ![r] = "policy"]
          /\ UNCHANGED <<gated, along, listed, held, subscribers, todo, attempt>>
  /\ UNCHANGED <<sourceVars, destVars, typeVars, storeVars, boundVars>>

-----------------------------------------------------------------------------
(* store_event *)

\* release_gate.get_policy; a preview on a type that is not gated is refused.
ReadPolicy(r) ==
  /\ pc[r] = "policy"
  /\ \/ ~policy /\ push[r].previewed /\ Ended(r, "invalid_body")
     \/ /\ policy \/ ~push[r].previewed
        /\ gated' = [gated EXCEPT ![r] = policy]
        /\ pc' = [pc EXCEPT ![r] = "chain"]
        /\ UNCHANGED <<along, listed, held, subscribers, todo, attempt>>
  /\ UNCHANGED <<sourceVars, destVars, typeVars, storeVars, push, boundVars>>

\* relay.get_active_chain
ReadChain(r) ==
  /\ pc[r] = "chain"
  /\ along' = [along EXCEPT ![r] = chain]
  /\ pc' = [pc EXCEPT ![r] = "insert"]
  /\ UNCHANGED <<sourceVars, destVars, typeVars, storeVars, push, gated, listed,
                 held, subscribers, todo, attempt, boundVars>>

\* INSERT ... ON CONFLICT (dedupe_key) waits for a transaction that has
\* inserted the key and has not ended.
KeyFree(k) == events[k].owner = Null
\* Fault: it does not wait.
KeyTakenUncommitted(k) == events[k].owner # Null
KeyTaken(k) == events[k].owner # Null /\ events[k].committed

InsertEvent(r) ==
  /\ pc[r] = "insert"
  /\ LET k == push[r].key IN
       \/ /\ KeyFree(k)
          /\ events' = [events EXCEPT ![k].owner = r]
          /\ pc' = [pc EXCEPT ![r] = "route"]
          /\ UNCHANGED <<gated, along, listed, held, subscribers, todo, attempt>>
       \/ KeyTaken(k) /\ Ended(r, "duplicate") /\ UNCHANGED events
  /\ UNCHANGED <<sourceVars, destVars, typeVars, deliveries, next_event_seq, push,
                 boundVars>>

\* The snapshot of SELECT ... FOR UPDATE: the stations of the chain, or the
\* confirmed subscribers with their conditions.
Listed(r) ==
  IF along[r] # Null
  THEN {<<d, Null>> : d \in Range(along[r])}
  ELSE {<<d, condition[d]>> :
          d \in {e \in Dests : confirmed[e] /\ condition[e] # "none"}}

Route(r) ==
  /\ pc[r] = "route"
  /\ listed' = [listed EXCEPT ![r] = Listed(r)]
  /\ pc' = [pc EXCEPT ![r] = "lock"]
  /\ UNCHANGED <<sourceVars, destVars, typeVars, storeVars, push, gated, along,
                 held, subscribers, todo, attempt, boundVars>>

\* Fault: stations are locked in the order of the chain.
NextToLockByStation(r) ==
  IF along[r] # Null
  THEN LET i == Min({j \in DOMAIN along[r] : <<along[r][j], Null>> \in listed[r]})
       IN  <<along[r][i], Null>>
  ELSE CHOOSE row \in listed[r] : \A other \in listed[r] : row[1] <= other[1]
\* ORDER BY id: the rows are locked one after the other, by id.
NextToLock(r) ==
  CHOOSE row \in listed[r] : \A other \in listed[r] : row[1] <= other[1]
Unlocked(d) == \A r \in Requests : d \notin held[r]
\* Fault: FOR SHARE, which keeps writers out and lets other fan-outs in.
LockableShared(d) == TRUE
\* FOR UPDATE waits for any other lock.
Lockable(d) == Unlocked(d)

\* Fault: the row is as it was listed.
ListedForGood(r, row) == TRUE
\* A locked row is tested again as it is now, its condition as it was listed.
StillListed(r, row) == along[r] # Null \/ confirmed[row[1]]

LockDest(r) ==
  /\ pc[r] = "lock"
  /\ listed[r] # {}
  /\ LET row == NextToLock(r) IN
       /\ Lockable(row[1])
       /\ listed' = [listed EXCEPT ![r] = @ \ {row}]
       /\ held' = [held EXCEPT ![r] = @ \cup {row[1]}]
       /\ subscribers' = [subscribers EXCEPT
                            ![r] = IF StillListed(r, row) THEN @ \cup {row} ELSE @]
  /\ UNCHANGED <<sourceVars, destVars, typeVars, storeVars, pc, push, gated, along,
                 todo, attempt, boundVars>>

\* The subscribers whose condition holds, in the order of their id.
Routed(r) ==
  {row[1] : row \in {s \in subscribers[r] :
                       s[2] = Null \/ Matches(s[2], push[r].payload)}}

\* The copies to insert: one for each station, a preview and a body for each
\* subscriber, or one plain copy each.
Copies(r) ==
  IF along[r] # Null THEN Range(along[r]) \X {"station"}
  ELSE Routed(r) \X (IF gated[r] THEN {"preview", "body"} ELSE {"plain"})

\* They are inserted in station order (fan_out_relay_event), or in the order of
\* the ids, the preview first (fan_out_gated_event).
CopiedBefore(r, x, y) ==
  IF along[r] # Null
  THEN \E i, j \in DOMAIN along[r] :
         along[r][i] = x[1] /\ along[r][j] = y[1] /\ i < j
  ELSE \/ x[1] < y[1]
       \/ x[1] = y[1] /\ x[2] = "preview" /\ y[2] = "body"

\* Fault: the threshold is not capped.
RequiredUncapped(r) ==
  IF along[r] # Null THEN Len(along[r])
  ELSE IF AckThreshold = Null THEN Cardinality(Routed(r) \ Shadow)
       ELSE AckThreshold

\* required_ack_count: every station of a chain; else the threshold, at most
\* the copies that count.
Required(r) ==
  LET real == Cardinality(Routed(r) \ Shadow)
  IN  IF along[r] # Null THEN Len(along[r])
      ELSE IF AckThreshold = Null \/ real < AckThreshold THEN real ELSE AckThreshold

\* The last disjunct counts the subscriptions, confirmed or not, by a query of
\* its own.
Outcome(r) ==
  CASE along[r] # Null \/ Routed(r) # {} -> "accepted"
    [] along[r] = Null /\ Routed(r) = {} /\ subscribers[r] # {} -> "filtered"
    [] OTHER -> IF \E d \in Dests : condition[d] # "none"
                THEN "pending_confirmation" ELSE "unrouted"

\* All rows are locked: judge the conditions.
Evaluate(r) ==
  /\ pc[r] = "lock"
  /\ listed[r] = {}
  /\ todo' = [todo EXCEPT ![r] = Copies(r)]
  /\ events' = [events EXCEPT ![push[r].key].required = Required(r),
                              ![push[r].key].disposition = Outcome(r)]
  /\ pc' = [pc EXCEPT ![r] = "copy"]
  /\ UNCHANGED <<sourceVars, destVars, typeVars, deliveries, next_event_seq, push,
                 gated, along, listed, held, subscribers, attempt, boundVars>>

\* One bump of next_event_seq with its INSERT INTO deliveries.  The plain one
\* asks for a confirmed destination once more.
InsertCopy(r) ==
  /\ pc[r] = "copy"
  /\ \E x \in todo[r] :
       /\ \A y \in todo[r] : ~CopiedBefore(r, y, x)
       /\ LET d == x[1]
              none == x[2] = "plain" /\ ~confirmed[d]
              seq == next_event_seq[d] + 1
              row == [key |-> push[r].key, dest |-> d, kind |-> x[2], seq |-> seq]
          IN  /\ next_event_seq' =
                   IF none THEN next_event_seq ELSE [next_event_seq EXCEPT ![d] = seq]
              /\ deliveries' = IF none THEN deliveries ELSE deliveries \cup {row}
       /\ todo' = [todo EXCEPT ![r] = @ \ {x}]
  /\ UNCHANGED <<sourceVars, destVars, typeVars, events, pc, push, gated, along,
                 listed, held, subscribers, attempt, boundVars>>

Commit(r) ==
  /\ pc[r] = "copy"
  /\ todo[r] = {}
  /\ events' = [events EXCEPT ![push[r].key].committed = TRUE]
  /\ Ended(r, events[push[r].key].disposition)
  /\ UNCHANGED <<sourceVars, destVars, typeVars, deliveries, next_event_seq, push,
                 boundVars>>

\* The rows that r has inserted.
Inserted(r) == {x \in deliveries : events[x.key].owner = r}

\* The process or its connection dies: the transaction is rolled back, the
\* event, its copies and their sequence numbers with it.
Die(r) ==
  /\ pc[r] \notin {"new", "done"}
  /\ faults < MaxFaults
  /\ faults' = faults + 1
  /\ Ended(r, Null)
  /\ events' = [k \in Keys |-> IF events[k].owner = r THEN NoEvent ELSE events[k]]
  /\ deliveries' = deliveries \ Inserted(r)
  /\ next_event_seq' =
       [d \in Dests |-> next_event_seq[d]
                          - Cardinality({x \in Inserted(r) : x.dest = d})]
  /\ UNCHANGED <<sourceVars, destVars, typeVars, push, operator_calls>>

-----------------------------------------------------------------------------
(* Operator endpoints and the handshake *)

OperatorCall ==
  /\ operator_calls < MaxOperatorCalls
  /\ operator_calls' = operator_calls + 1
  /\ UNCHANGED faults

\* rotate_source_key
RotateKey ==
  /\ OperatorCall
  /\ secret' = secret + 1
  /\ UNCHANGED <<disabled, destVars, typeVars, storeVars, requestVars>>

\* disable_source and enable_source
Disable ==
  /\ OperatorCall
  /\ disabled' = TRUE
  /\ UNCHANGED <<secret, destVars, typeVars, storeVars, requestVars>>

Enable ==
  /\ OperatorCall
  /\ disabled' = FALSE
  /\ UNCHANGED <<secret, destVars, typeVars, storeVars, requestVars>>

\* The destination answers its handshake; the row is written, hence locked.
Confirm(d) ==
  /\ Unlocked(d)
  /\ ~confirmed[d]
  /\ confirmed' = [confirmed EXCEPT ![d] = TRUE]
  /\ UNCHANGED <<sourceVars, condition, typeVars, storeVars, requestVars, boundVars>>

\* update_destination with a new url: arm_round starts a handshake.
Relocate(d) ==
  /\ OperatorCall
  /\ Unlocked(d)
  /\ confirmed' = [confirmed EXCEPT ![d] = FALSE]
  /\ UNCHANGED <<sourceVars, condition, typeVars, storeVars, requestVars>>

\* update_destination with event_types or filters: subscribe, unsubscribe or
\* change the condition.
SetCondition(d, c) ==
  /\ OperatorCall
  /\ Unlocked(d)
  /\ condition' = [condition EXCEPT ![d] = c]
  /\ UNCHANGED <<sourceVars, confirmed, typeVars, storeVars, requestVars>>

\* set_preview_policy looks for an active chain, then writes the policy.
BeginSetPolicy(a) ==
  /\ OperatorCall
  /\ admin[a] = Null
  /\ chain = Null
  /\ admin' = [admin EXCEPT ![a] = "policy"]
  /\ UNCHANGED <<sourceVars, destVars, policy, chain, storeVars, requestVars>>

FinishSetPolicy(a) ==
  /\ admin[a] = "policy"
  /\ policy' = TRUE
  /\ admin' = [admin EXCEPT ![a] = Null]
  /\ UNCHANGED <<sourceVars, destVars, chain, storeVars, requestVars, boundVars>>

\* clear_preview_policy
ClearPolicy ==
  /\ OperatorCall
  /\ policy' = FALSE
  /\ UNCHANGED <<sourceVars, destVars, chain, admin, storeVars, requestVars>>

\* define_chain takes the advisory lock of the type, which no other call of
\* this table's PUT gets, looks for a policy, then writes the chain.
BeginDefineChain(a) ==
  /\ OperatorCall
  /\ admin[a] = Null
  /\ \A b \in Admins : admin[b] # "chain"
  /\ ~policy
  /\ admin' = [admin EXCEPT ![a] = "chain"]
  /\ UNCHANGED <<sourceVars, destVars, policy, chain, storeVars, requestVars>>

FinishDefineChain(a) ==
  /\ admin[a] = "chain"
  /\ chain' \in Chains
  /\ admin' = [admin EXCEPT ![a] = Null]
  /\ UNCHANGED <<sourceVars, destVars, policy, storeVars, requestVars, boundVars>>

\* delete_active_chain
DeleteChain ==
  /\ OperatorCall
  /\ chain' = Null
  /\ UNCHANGED <<sourceVars, destVars, policy, admin, storeVars, requestVars>>

-----------------------------------------------------------------------------
(* Specification *)

\* One statement of a request.
Step(r) ==
  \/ ReadPolicy(r) \/ ReadChain(r) \/ InsertEvent(r) \/ Route(r) \/ LockDest(r)
  \/ Evaluate(r) \/ InsertCopy(r) \/ Commit(r)

Operator ==
  \/ RotateKey \/ Disable \/ Enable
  \/ \E d \in Dests : Relocate(d)
  \/ \E d \in Dests, c \in Filters \cup {"none", Null} : SetCondition(d, c)
  \/ \E a \in Admins : \/ BeginSetPolicy(a) \/ FinishSetPolicy(a)
                     \/ BeginDefineChain(a) \/ FinishDefineChain(a)
  \/ ClearPolicy \/ DeleteChain

Next ==
  \/ \E r \in Requests : Admit(r) \/ Step(r) \/ Die(r)
  \/ \E d \in Dests : Confirm(d)
  \/ Operator

Spec == Init /\ [][Next]_vars

\* A request runs in its thread until it answers: while its next statement can
\* run, it does.
FairSpec == Spec /\ \A r \in Requests : WF_vars(Step(r))

-----------------------------------------------------------------------------
(* Properties *)

IsStored(k) == events[k].owner # Null /\ events[k].committed
Rows(k) == {x \in deliveries : x.key = k}
Bodies(k) == {x \in Rows(k) : x.kind # "preview"}
Counting(k) == {x \in Bodies(k) : x.dest \notin Shadow \/ x.kind = "station"}

\* Pushes of one dedupe_key, however they race, make one event, with at most
\* one body for a destination; a push is told "duplicate" only of an event
\* that is there (the branch "event insert conflict lost" is dead code).
OneEventPerKey ==
  /\ \A r, s \in Requests :
       attempt[r] \in Stored /\ attempt[s] \in Stored /\ r # s
         => push[r].key # push[s].key
  /\ \A r \in Requests :
       attempt[r] \in Stored \cup {"duplicate"} => IsStored(push[r].key)
  /\ \A k \in Keys : \A x, y \in Bodies(k) : x.dest = y.dest => x = y

\* What other transactions see: the rows of committed ones, and the answers.
StoredKeys == {k \in Keys : IsStored(k)}
Visible == {x \in deliveries : IsStored(x.key)}
Answers == [r \in Requests |->
              IF attempt[r] = Null THEN Null
              ELSE <<IF attempt[r] \in Rejected THEN Null ELSE push[r].key,
                     attempt[r]>>]

Store == INSTANCE EventStore WITH
           stored <- StoredKeys, rows <- Visible, answer <- Answers

\* Pushes, statement by statement, racing and dying, look to everybody else
\* like EventStore: an event, its copies and its answer appear in one step, once
\* per key, the copies behind all that could be seen before, so that no copy
\* turns up in a queue in front of one that a worker has already found.
PublishesAtomically == Store!Spec

\* "A threshold larger than the current subscriber list can never make the
\* event un-finishable": a stored event asks for no more acknowledgements than
\* copies that may give one, for at least one if there is such a copy, and is
\* "accepted" if and only if it has copies, whatever moves during its fan-out.
QuorumWithinCopies ==
  \A k \in Keys : IsStored(k) =>
    /\ events[k].required <= Cardinality(Counting(k))
    /\ events[k].required = 0 => Counting(k) = {}
    /\ (events[k].disposition = "accepted") <=> (Bodies(k) # {})

\* Two fan-outs do not interleave in the queues, also after a rollback: no two
\* copies of a destination have the same place, a body comes right behind its
\* preview, and two events that two destinations both get are in the same
\* order in both.
FanOutsAreSerial ==
  /\ \A x, y \in deliveries : x.dest = y.dest /\ x.seq = y.seq => x = y
  /\ \A x, y \in deliveries :
       x.kind = "preview" /\ y.dest = x.dest /\ y.seq = x.seq + 1
         => y.key = x.key /\ y.kind = "body"
  /\ \A k, l \in Keys : \A x, y \in Bodies(k), u, v \in Bodies(l) :
       x.dest = u.dest /\ y.dest = v.dest /\ x.seq < u.seq => y.seq <= v.seq

\* No copy, gated or plain, is made for a destination while its handshake is
\* open; a station of a chain waits for the handshake instead.
OnlyConfirmedAreServed ==
  [][\A x \in deliveries' \ deliveries :
       confirmed[x.dest] \/ x.kind = "station"]_vars

\* Every admitted push is answered: requests wait for each other's keys and
\* destinations, and never in a circle.
RequestsEnd == \A r \in Requests : pc[r] # "new" ~> pc[r] = "done"

\* A type is never gated and chained (README.md: a type cannot have a preview
\* policy and a relay).
NeverGatedAndChained == ~(policy /\ chain # Null)

=============================================================================
