----------------------------- MODULE ArrayProps -----------------------------
(***************************************************************************)
(* The arrays of the documents against the array matrix of                 *)
(* docs/schema-contract-v1alpha1.md:5218-5275, of which "documented" is    *)
(* the number of the row.                                                  *)
(***************************************************************************)
EXTENDS CanonicalArrays

-----------------------------------------------------------------------------
\* The arrays of the seven documents, as the schemas have them, each with its
\* row of the documented matrix.  The kind of a resource is known from its level on.

NoKind == << >>
Of(level, name) == [l \in {level} |-> name]

At(kinds, path, rows) ==
  {[kinds |-> kinds, path |-> path, field |-> r[2], type |-> None, documented |-> r[1]] : r \in rows}
Post(type, field, row) ==
  {[kinds |-> Of(0, "TaskContract"), path |-> <<"spec", "requiredPostconditions", "#", "expected">>,
    field |-> field, type |-> type, documented |-> row]}

Permissions == {<<3, "modes">>, <<4, "permittedCapabilities">>, <<5, "prohibitedCapabilities">>}
Scope(k) == {<<k, "capabilities">>, <<k, "paths">>}
Bundle ==
  LET project == Of(1, "Project")   policy == Of(1, "RoutingPolicy")
      domain == Of(2, "Domain")     role == Of(2, "WorktreeRole")
  IN At(NoKind, << >>, {<<53, "domains">>, <<54, "worktreeRoles">>})
     \cup At(project, <<"project", "spec">>, {<<8, "domainRefs">>, <<9, "worktreeRoleRefs">>})
     \cup At(project, <<"project", "spec", "permissions">>, Permissions)
     \cup At(project, <<"project", "spec", "repositoryIdentity">>, {<<1, "acceptedRemotes">>})
     \cup At(project, <<"project", "spec", "repositoryIdentity", "acceptedRemotes", "#">>, {<<2, "namespace">>})
     \cup At(domain, <<"domains", "#", "spec">>, {<<12, "overlapRefs">>})
     \cup At(domain, <<"domains", "#", "spec", "pathScope">>, {<<10, "include">>, <<11, "exclude">>})
     \cup At(domain, <<"domains", "#", "spec", "permissions">>, Permissions)
     \cup At(role, <<"worktreeRoles", "#", "spec">>, {<<13, "ownedDomainRefs">>, <<14, "excludedDomainRefs">>})
     \cup At(role, <<"worktreeRoles", "#", "spec", "permissions">>, Permissions)
     \cup At(role, <<"worktreeRoles", "#", "spec", "branchPolicy", "allowed">>, {<<15, "exact">>, <<16, "prefixes">>})
     \cup At(role, <<"worktreeRoles", "#", "spec", "branchPolicy", "denied">>, {<<17, "exact">>, <<18, "prefixes">>})
     \cup At(policy, <<"routingPolicy", "spec">>, {<<19, "rules">>})
     \cup At(policy, <<"routingPolicy", "spec", "rules", "#", "match", "domainSet">>, {<<20, "domainRefs">>})

Overlay ==
  LET own == Of(0, "HostOverlay")
  IN At(own, <<"spec">>, {<<21, "bindings">>, <<23, "remoteExpectations">>, <<25, "capabilityCeiling">>})
     \cup At(own, <<"spec", "bindings", "#">>, {<<22, "remoteNames">>})
     \cup At(own, <<"spec", "pathCeiling">>, {<<26, "include">>, <<27, "exclude">>})
     \cup At(own, <<"spec", "remoteExpectations", "#">>, {<<24, "acceptedRemotes">>})
     \cup At(own, <<"spec", "remoteExpectations", "#", "acceptedRemotes", "#">>, {<<2, "namespace">>})
     \cup At(own, <<"spec", "repositoryIdentity">>, {<<1, "acceptedRemotes">>})

Contract ==
  LET own == Of(0, "TaskContract")
  IN At(own, <<"spec">>, {<<28, "domainRefs">>, <<36, "permittedTransitions">>, <<37, "requiredPostconditions">>})
     \cup At(own, <<"spec", "authorizedScope">>, Scope(29)) \cup At(own, <<"spec", "prohibitedScope">>, Scope(30))
     \cup At(own, <<"spec", "repositoryIdentity">>, {<<1, "acceptedRemotes">>})
     \cup At(own, <<"spec", "expectedBaseline", "index">>, {<<31, "entries">>})
     \cup At(own, <<"spec", "expectedBaseline", "tracked">>, {<<32, "entries">>})
     \cup At(own, <<"spec", "expectedBaseline", "untracked">>, {<<33, "paths">>})
     \cup At(own, <<"spec", "expectedBaseline", "ignored">>, {<<34, "paths">>})
     \cup At(own, <<"spec", "expectedBaseline", "submodules">>, {<<35, "entries">>})
     \cup Post("index", "entries", 38) \cup Post("tracked", "entries", 39) \cup Post("untracked", "paths", 40)
     \cup Post("ignored", "paths", 41) \cup Post("submodule", "entries", 42)

Receipt ==
  LET own == Of(0, "ExecutionReceipt")
  IN At(own, <<"spec">>, {<<45, "unresolvedCoordinationWarnings">>, <<46, "checks">>, <<48, "changedPaths">>,
                          <<49, "ordinaryOperationEvidence">>, <<51, "reasonCodes">>})
     \cup At(own, <<"spec", "origin", "resolvedTarget">>, {<<43, "domainRefs">>})
     \cup At(own, <<"spec", "origin", "preContractEvidence">>, {<<44, "reasonCodes">>})
     \cup At(own, <<"spec", "checks", "#">>, {<<47, "reasonCodes">>})
     \cup At(own, <<"spec", "ordinaryOperationEvidence", "#">>, {<<50, "operations">>})

Delivery == At(NoKind, << >>, {<<52, "reasonCodes">>})

DocumentedPlaces == Bundle \cup Overlay \cup Contract \cup Receipt \cup Delivery

\* What is walked are arrays of the documents.
ASSUME PlacesAssumption == Places \subseteq DocumentedPlaces

-----------------------------------------------------------------------------
Done == phase = "done"

\* "Required order key" and "identity or sequence key" of a row, over any two
\* items.
Before(row, a, b) ==
  CASE row = 19 -> a.rank > b.rank \/ (a.rank = b.rank /\ a.id < b.id)
    [] row \in {21, 36} -> a.rank < b.rank \/ (a.rank = b.rank /\ a.id < b.id)
    [] row \in {45, 46} -> a.rank < b.rank
    [] OTHER -> a.id < b.id

Canonical(row, values) ==
  row # 2 =>
    /\ \A i, j \in DOMAIN values : i < j =>
         /\ Before(row, values[i], values[j])
         /\ row \in {19, 46} => values[i].id # values[j].id
    /\ row \in {45, 46} => \A i \in DOMAIN values : values[i].rank = i - 1

\* Every array of every document obeys the row that the matrix gives it, by
\* whatever way the walk comes to it: what is not in the order of its row is
\* found, and nothing else is (walk and check_array).
EveryArrayObeysItsRow ==
  Done => /\ ~Canonical(place.documented, items) => Verdict(ctx) # "PASS"
          /\ Canonical(place.documented, items) => Verdict(ctx) # "INVALID"

\* A finding names the row that the matrix has for the place (the arguments of
\* check_array; only the namespace of a remote has no rule).
RowIsTheDocumentedOne ==
  depth = Len(place.path) =>
    Row(place.field, place.path, kind, postType) = IF place.documented = 2 THEN NoRow ELSE place.documented
=============================================================================
