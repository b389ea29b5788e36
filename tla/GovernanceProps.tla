-------------------------- MODULE GovernanceProps --------------------------
(***************************************************************************)
(* What the acceptance and the refusal of a bundle, an overlay, a host and *)
(* a contract's bindings mean.                                             *)
(***************************************************************************)
EXTENDS Governance

Done == phase = "done"
Accepted == Done /\ Verdict(ctx) = "PASS"

\* The variables have their types.
TypeOK ==
  /\ phase \in {"bundle", "overlay", "members", "bindings", "done"}
  /\ member \in 1 .. Len(submission.members) + 1
  /\ Range(validated) \subseteq Range(submission.members) /\ Len(validated) < member
  /\ Cardinality(roots) <= 2 * Len(validated)
  /\ ctx.failed \in BOOLEAN /\ ctx.unevaluated \in BOOLEAN
  /\ ctx.required \subseteq ctx.diagnostics

-----------------------------------------------------------------------------
\* A bundle names nothing that it does not hold, and what it says of a domain
\* or of a task is said once.
Closed(b) ==
  LET rules == b.policy.rules   pid == b.project.id
      all == {b.project} \cup Range(b.domains) \cup Range(b.roles)
  IN /\ b.project.domains \subseteq DOMAIN b.domains /\ b.project.roles \subseteq DOMAIN b.roles
     /\ b.project.policy = b.policy.id
     /\ {d.project : d \in Range(b.domains) \cup Range(b.roles) \cup Range(rules) \cup {b.policy}} = {pid}
     /\ \A d, e \in UNION {{x} \cup b.domains[x].overlap : x \in DOMAIN b.domains} :
          /\ d \in DOMAIN b.domains /\ d \notin b.domains[d].overlap
          /\ d \in b.domains[e].overlap <=> e \in b.domains[d].overlap
     /\ \A r \in Range(b.roles) : r.owned \cup r.excluded \subseteq DOMAIN b.domains
     /\ \A r \in Range(b.roles) : r.owned \cap r.excluded = {}
     /\ \A x \in all : x.permissions.permitted \cap x.permissions.prohibited = {}
     /\ \A i, j \in DOMAIN rules : i < j =>
          /\ rules[i].priority >= rules[j].priority /\ rules[i].id # rules[j].id
          /\ rules[i].priority = rules[j].priority =>
               rules[i].id < rules[j].id /\ Match(rules[i]) # Match(rules[j])
     /\ \A i \in DOMAIN rules :
          /\ rules[i].domains \subseteq DOMAIN b.domains
          /\ rules[i].target \in {"deny"} \cup DOMAIN b.roles
          /\ rules[i].target \in DOMAIN b.roles =>
               rules[i].domains \subseteq b.roles[rules[i].target].owned

\* The directories on the way down to a root, itself included: its text as far
\* as its first separator, which is the root of the volume, and as far as the
\* name before every other one.
Way(root) ==
  LET cuts == {i \in DOMAIN root.text : root.text[i] = Separator(root)}
  IN {root.text} \cup {SubSeq(root.text, 1, IF \A j \in cuts : i <= j THEN i ELSE i - 1) : i \in cuts}

Inside(root, directory) == root.platform = directory.platform /\ directory.text \in Way(root)

\* A host where no worktree is bound twice and no coordination root is one of
\* them or inside one.
Injective(overlays, supplied) ==
  LET bs == Bindings(overlays)
      kept == {c[2] : c \in supplied} \cup UNION {{o.stateRoot, o.lockRoot} : o \in Range(overlays)}
  IN /\ \A i, j \in DOMAIN bs : i # j => bs[i].worktree # bs[j].worktree /\ bs[i].root # bs[j].root
     /\ \A c \in kept, i \in DOMAIN bs : ~Inside(c, bs[i].root)

Narrow(o, b) ==
  /\ o.project = b.project.id /\ o.inside
  /\ o.remotes \cup UNION Range(o.expectations) \subseteq b.project.remotes
  /\ \A x \in Range(o.bindings) :
       /\ x.role \in b.project.roles /\ x.remoteNames \subseteq DOMAIN o.expectations
       /\ \A n \in x.remoteNames : o.expectations[n] # {}
       /\ \A p \in {b.project.permissions, b.roles[x.role].permissions} :
            o.ceiling \subseteq p.permitted /\ o.ceiling \cap p.prohibited = {}

\* Every party that has a say in what the contract may do.
Layers(k, b) ==
  {b.project.permissions, b.roles[k.role].permissions} \cup {b.domains[d].permissions : d \in k.domains}

BranchOpen(role, branch) ==
  /\ branch \in role.allowed.exact \/ \E p \in role.allowed.prefixes : IsTextPrefix(p, branch)
  /\ branch \notin role.denied.exact /\ \A p \in role.denied.prefixes : ~IsTextPrefix(p, branch)

Authorized(k, o, b) ==
  /\ k.role \in DOMAIN b.roles /\ k.domains \subseteq b.roles[k.role].owned \cap b.project.domains
  /\ k.project = b.project.id
  /\ \A p \in Layers(k, b) : /\ k.mode \in p.modes /\ k.capabilities \subseteq p.permitted
                             /\ k.capabilities \cap p.prohibited = {}
  /\ k.capabilities \subseteq o.ceiling /\ k.remotes \subseteq o.remotes
  /\ k.withinDomains /\ k.withinCeiling
  /\ BranchOpen(b.roles[k.role], k.ref) /\ k.ref # <<"detached">>
  /\ b.roles[k.role].clean => k.clean
  /\ \E x \in Range(o.bindings) : x.worktree = k.worktree /\ x.role = k.role /\ x.ref = k.ref

OverlaysOf(members) == [i \in DOMAIN members |-> members[i].overlay]

Right ==
  LET s == submission
  IN /\ [overlay |-> s.overlay, bundle |-> s.bundle] \in Range(s.members)
     /\ \A m \in Range(s.members) :
          Closed(m.bundle) /\ Narrow(m.overlay, m.bundle) /\ m.overlay.host = s.overlay.host
     /\ Injective(OverlaysOf(s.members), s.trustedRoots)
     /\ Authorized(s.contract, s.overlay, s.bundle)

-----------------------------------------------------------------------------
\* The bundle of an accepted member is closed: every name in it resolves within
\* it, overlap is mutual, and of two rules on the same tasks one has priority
\* (_check_bundle_references, _check_overlap_symmetry,
\* _check_rule_static_relations).
BundleIsClosed == \A m \in Range(validated) : Closed(m.bundle)

\* An accepted contract has no authority that any layer above it lacks, through
\* however many layers: not the overlay of its host, and not the project that
\* the overlay narrows (_check_contract_bindings over _check_overlay_individual).
AuthorityOnlyNarrows ==
  Accepted => LET k == submission.contract   b == submission.bundle
              IN /\ Authorized(k, submission.overlay, b)
                 /\ k.remotes \subseteq b.project.remotes
                 /\ k.domains \cap b.roles[k.role].excluded = {}

\* The worktree of an accepted contract is bound once on its host, whatever the
\* projects there, and nothing that coordinates the host is a bound worktree or
\* lies inside one; a worktree may well lie beneath a coordination root
\* (_check_same_host_union; HX.A1-HX.B4).
HostIsInjective ==
  Accepted => /\ Injective(OverlaysOf(submission.members), submission.trustedRoots)
              /\ \A m \in Range(submission.members) : m.overlay.host = submission.overlay.host

\* What is right is accepted, unless somebody stays silent, and is never
\* refuted for that.
RightGovernanceIsAccepted ==
  Done /\ Right => /\ Verdict(ctx) # "INVALID"
                   /\ ctx.required = {} => Verdict(ctx) = "PASS"
=============================================================================
