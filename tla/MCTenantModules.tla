---------------------------- MODULE MCTenantModules ----------------------------
(* Instances of TenantModules for TLC.                                     *)
EXTENDS TenantModules, TLC

\* Requests are interchangeable, and so are modules.
Symmetry == Permutations(Requests) \cup Permutations(Modules)
=============================================================================
