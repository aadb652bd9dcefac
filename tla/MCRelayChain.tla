---------------------------- MODULE MCRelayChain ----------------------------
(* Events of two types, whose chains cross the same two destinations in    *)
(* opposite orders.                                                        *)
EXTENDS RelayChain

CONSTANTS d1, d2, e1, e2

Crossing == [e \in {e1, e2} |-> {IF e = e1 THEN <<d1, d2>> ELSE <<d2, d1>>}]
============================================================================
