-------------------------- MODULE MCDeliveryQueue --------------------------
(* Small instances of DeliveryQueue for TLC.                               *)
EXTENDS DeliveryQueue, TLC

Symmetry == Permutations(Plan) \cup Permutations(Deliverer) \cup Permutations(Consumer)
                \cup Permutations(Request)
=============================================================================
