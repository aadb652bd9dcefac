---------------------------- MODULE EventStore ----------------------------
(***************************************************************************)
(* What POST /v1/events promises, without statements, locks or lost        *)
(* connections: a push is one step.  Its event, all of its copies and its  *)
(* answer appear together or not at all, and the copies appear behind all  *)
(* that a worker could see of their destinations before, never among them. *)
(***************************************************************************)
EXTENDS Naturals

CONSTANTS
  Requests, Keys, Dests, Kinds,
  Stored,     \* dispositions of a push that is stored
  Rejected,   \* dispositions of a push that is refused
  Null

VARIABLES
  stored,     \* the dedupe keys of the events that can be seen
  rows,       \* the rows of deliveries that can be seen
  answer      \* by request: Null, or its key and disposition

Init ==
  /\ stored = {}
  /\ rows = {}
  /\ answer = [r \in Requests |-> Null]

\* C is a complete fan-out of the event k, at the end of every queue: one copy
\* for a destination, or a preview with its body right behind it.
FanOut(k, C) ==
  /\ C \subseteq [key: {k}, dest: Dests, kind: Kinds, seq: Nat]
  /\ \A x \in C, y \in rows : x.dest = y.dest => y.seq < x.seq
  /\ \A x, y \in C : x.dest = y.dest /\ x # y => {x.kind, y.kind} = {"preview", "body"}
  /\ \A x \in C : x.kind = "preview" =>
       \E y \in C : y.dest = x.dest /\ y.kind = "body" /\ y.seq = x.seq + 1

Answered(r, k, x) ==
  /\ answer[r] = Null
  /\ answer' = [answer EXCEPT ![r] = <<k, x>>]

\* The first push of k; it is "accepted" if and only if somebody gets a copy.
Publish(r, k) ==
  /\ k \notin stored
  /\ stored' = stored \cup {k}
  /\ rows \subseteq rows'
  /\ FanOut(k, rows' \ rows)
  /\ \E x \in Stored : /\ x = "accepted" <=> rows' \ rows # {}
                       /\ Answered(r, k, x)

\* Another push of k.
Duplicate(r, k) ==
  /\ k \in stored
  /\ Answered(r, k, "duplicate")
  /\ UNCHANGED <<stored, rows>>

Reject(r) ==
  /\ \E x \in Rejected : Answered(r, Null, x)
  /\ UNCHANGED <<stored, rows>>

Next ==
  \E r \in Requests : \/ Reject(r)
                      \/ \E k \in Keys : Publish(r, k) \/ Duplicate(r, k)

Spec == Init /\ [][Next]_<<stored, rows, answer>>
=============================================================================
