-------------------------- MODULE MCDeliveryQueue --------------------------
(***************************************************************************)
(* Small instances of DeliveryQueue for TLC.                               *)
(***************************************************************************)
EXTENDS DeliveryQueue, TLC

\* All copies go to one destination.
OneDestination == [c \in Copies |-> CHOOSE d \in Dests : TRUE]

\* Tokens and threads are interchangeable; so are the copies where DestOf is
\* constant and Corrections and Deadlined are all or none of them.
ThreadSymmetry == Permutations(Tokens) \cup Permutations(Workers)
Symmetry == ThreadSymmetry \cup Permutations(Copies)
============================================================================
