----------------------------- MODULE MCTenantUsers -----------------------------
(* Instances of TenantUsers for TLC.                                       *)
EXTENDS TenantUsers, TLC

\* Requests are interchangeable.
Symmetry == Permutations(Requests)
=============================================================================
