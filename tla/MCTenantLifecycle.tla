-------------------------- MODULE MCTenantLifecycle --------------------------
(* Instances of TenantLifecycle for TLC.                                   *)
EXTENDS TenantLifecycle, TLC

\* A create gives an e-mail address and perhaps a domain.
Creates == [email: Emails, domain: Domains \cup {Keep}, status: {Keep}]
CreatesWithStatus == [email: Emails, domain: Domains \cup {Keep}, status: {Keep, "SUSPENDED"}]

\* An update changes one field: a new value, or null where the column has it.
FieldUpdates ==
  {[NoInput EXCEPT !.email = e] : e \in Emails \cup {None}}
    \cup {[NoInput EXCEPT !.domain = d] : d \in Domains}
StatusUpdates == {[NoInput EXCEPT !.status = "DELETED"]}

\* Requests and organization identifiers are interchangeable, and so are
\* tenants, e-mail addresses and domains: no property names one of them.
RequestSymmetry == Permutations(Requests) \cup Permutations(Orgs)
FullSymmetry == RequestSymmetry \cup Permutations(Slugs) \cup Permutations(Emails)
=============================================================================
