--------------------------- MODULE MC_LoadBalancer ---------------------------
(* A stable list of backends, picked from again and again. *)
EXTENDS LoadBalancer

Weights == [b \in Backends |-> 3 - b]

Spec == BalancerInit /\ [][\E b \in Backends : SelectBackend(Backends, b)]_balancerVars
=============================================================================
