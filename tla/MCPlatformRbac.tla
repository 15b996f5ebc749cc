----------------------------- MODULE MCPlatformRbac -----------------------------
(* Instances of PlatformRbac for TLC.                                      *)
EXTENDS PlatformRbac, TLC

\* Requests are interchangeable.
Symmetry == Permutations(Requests)
=============================================================================
