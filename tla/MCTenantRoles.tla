----------------------------- MODULE MCTenantRoles -----------------------------
(* Instances of TenantRoles for TLC.                                       *)
EXTENDS TenantRoles, TLC

CONSTANTS write, leads

\* A permission of a module, which the organization has enabled.
MCModuleOf == write :> leads

\* A super administrator, and one who may manage permissions and has nothing to give.
MCActors == {[wild |-> TRUE, manages |-> FALSE, perms |-> {}],
             [wild |-> FALSE, manages |-> TRUE, perms |-> {}]}

\* Requests are interchangeable.
Symmetry == Permutations(Requests)
=============================================================================
