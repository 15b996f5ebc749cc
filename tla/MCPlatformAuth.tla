---------------------------- MODULE MCPlatformAuth ----------------------------
(* Instances of PlatformAuth for TLC.                                      *)
EXTENDS PlatformAuth, TLC

\* Requests are interchangeable: no property names one of them.
RequestSymmetry == Permutations(Requests)
=============================================================================
