--------------------------- MODULE MC_ProxyHandler ---------------------------
(* Small instances of ProxyHandler: two requests of one virtual key. *)
EXTENDS ProxyHandler, TLC

CONSTANTS r1, r2, k

VirtualKey == [r \in Requests |-> "VirtualKey"]
OneKey == [r \in Requests |-> k]
Rpms1 == [r \in Requests |-> 1]
Daily1 == [r \in Requests |-> 1]
Monthly3 == [r \in Requests |-> 3]
Monthly1 == [r \in Requests |-> 1]

Interchangeable == Permutations(Requests)
=============================================================================
