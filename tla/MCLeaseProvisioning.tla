------------------------ MODULE MCLeaseProvisioning ------------------------
(***************************************************************************)
(* LeaseProvisioning for TLC: every lease in one scope, and the symmetry   *)
(* of leases for the runs without liveness.                                *)
(***************************************************************************)
EXTENDS LeaseProvisioning, TLC

\* All leases share the one scope: a contended resource group.
OneScope == [l \in Leases |-> CHOOSE s \in Scopes : TRUE]

Symmetry == Permutations(Leases)
============================================================================
