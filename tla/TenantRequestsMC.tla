-------------------------- MODULE TenantRequestsMC --------------------------
(* Two threads; a tenant with a schema of its own and a legacy space.      *)
EXTENDS TenantRequests, TLC

Symmetry == Permutations(Threads)
=============================================================================
