--------------------------- MODULE MC_GatewayEngine ---------------------------
(* Small instances of GatewayEngine. *)
EXTENDS GatewayEngine, TLC

\* The list proxy_handler passes: the one backend of the matched route.
RoutePools == {{1}}
\* The contract of forward_to_pool: any list of backends.
AllPools == {{1, 2}}
Weights == [b \in Backends |-> 3 - b]

\* Nothing tells one request from another.
Interchangeable == Permutations(Requests)
=============================================================================
