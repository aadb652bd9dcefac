---------------------------- MODULE ConsentGate ----------------------------
(***************************************************************************)
(* What the preview-consent gate promises a destination, without workers,  *)
(* calls, locks, clocks or queues: the preview is shown first, the first   *)
(* answer given while the gate is held decides for good, and the body is   *)
(* out only while the gate is released.                                    *)
(*                                                                         *)
(* One transaction may tidy up several pairs, so several gates may move in *)
(* one step.                                                               *)
(***************************************************************************)
CONSTANTS Gates, Null

VARIABLES
  gate,     \* "held", "released" or "shut"
  shown,    \* has the preview arrived?
  answer,   \* Null, "approve" or "deny"
  out       \* is the body on its way to the destination, or there?

Init ==
  /\ gate = [g \in Gates |-> "held"]
  /\ shown = [g \in Gates |-> FALSE]
  /\ answer = [g \in Gates |-> Null]
  /\ out = [g \in Gates |-> FALSE]

Show(g) ==
  /\ ~shown[g] /\ shown'[g]
  /\ gate'[g] = gate[g] /\ answer'[g] = answer[g] /\ out'[g] = out[g]

\* The one effective answer: to a preview that was shown, while the body waits.
Answer(g) ==
  /\ gate[g] = "held" /\ shown[g] /\ answer[g] = Null
  /\ \/ answer'[g] = "approve" /\ gate'[g] = "released"
     \/ answer'[g] = "deny" /\ gate'[g] = "shut"
  /\ shown'[g] = shown[g] /\ out'[g] = out[g]

\* Expired, voided, overdue or cancelled: with or without an approval.
Shut(g) ==
  /\ gate[g] \in {"held", "released"}
  /\ gate'[g] = "shut" /\ ~out'[g]
  /\ shown'[g] = shown[g] /\ answer'[g] = answer[g]

\* The body leaves; it is sent again, or given up, after it came back.
Send(g) ==
  /\ gate[g] = "released" /\ ~out[g] /\ out'[g]
  /\ gate'[g] = gate[g] /\ shown'[g] = shown[g] /\ answer'[g] = answer[g]

Return(g) ==
  /\ out[g] /\ ~out'[g]
  /\ gate'[g] = gate[g] /\ shown'[g] = shown[g] /\ answer'[g] = answer[g]

Stay(g) ==
  /\ gate'[g] = gate[g] /\ shown'[g] = shown[g]
  /\ answer'[g] = answer[g] /\ out'[g] = out[g]

Next ==
  /\ gate' \in [Gates -> {"held", "released", "shut"}]
  /\ shown' \in [Gates -> BOOLEAN]
  /\ answer' \in [Gates -> {Null, "approve", "deny"}]
  /\ out' \in [Gates -> BOOLEAN]
  /\ \A g \in Gates :
       Show(g) \/ Answer(g) \/ Shut(g) \/ Send(g) \/ Return(g) \/ Stay(g)

Spec == Init /\ [][Next]_<<gate, shown, answer, out>>
============================================================================
