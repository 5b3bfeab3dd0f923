------------------------------- MODULE Backend -------------------------------
(* The backends of a tenant (gateway-db models/backend.rs).  A backend is    *)
(* its place in the list the repository returns.                             *)
EXTENDS Naturals, FiniteSets

CONSTANT Backends

ASSUME BackendAssumption == Backends \subseteq Nat /\ IsFiniteSet(Backends)
=============================================================================
