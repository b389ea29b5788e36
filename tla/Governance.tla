----------------------------- MODULE Governance -----------------------------
(***************************************************************************)
(* The relations between the portable bundle, the overlays of a host and   *)
(* the bindings of a task contract, and the stages of a contract call that *)
(* examine them (_static_bundle.py, _static_overlay.py and                 *)
(* _check_contract_bindings of _static_contract.py).                       *)
(*                                                                         *)
(* A reference is the identifier of what it names, its kind being fixed by *)
(* the field; that arrays name nothing twice has been checked before       *)
(* (BUNDLE.IDS, REMOTE.NAME).  A remote and a capability are names, a path *)
(* scope is known by what the path-language proof would answer about it.   *)
(***************************************************************************)
EXTENDS StaticContext, Integers, FiniteSets, SequencesExt

CONSTANT
  Submissions     \* the contract calls explored, each with who may fail to answer in it

\* Identifiers and priorities are ordered; "deny" is the target of a rule that
\* names no role.
ASSUME SubmissionsAssumption ==
  \A s \in Submissions :
    /\ Len(s.members) \in Nat /\ DOMAIN s.members = 1 .. Len(s.members)
    /\ \A m \in Range(s.members) :
         LET rules == m.bundle.policy.rules
         IN /\ Len(rules) \in Nat /\ DOMAIN rules = 1 .. Len(rules)
            /\ \A i \in DOMAIN rules : rules[i].priority \in Int /\ rules[i].id \in Int
            /\ "deny" \notin DOMAIN m.bundle.roles

VARIABLES submission, phase, member, validated, roots, ctx

vars == <<submission, phase, member, validated, roots, ctx>>

Violated(rules) == {r[1] : r \in {x \in rules : ~x[2]}}
Silent(who, questions) == SUBSET (IF who \in submission.unreliable THEN questions ELSE {})

-----------------------------------------------------------------------------
\* The closed bundle.

DomainsOf(b, refs) ==
  refs \subseteq DOMAIN b.domains /\ \A d \in refs : b.domains[d].project = b.project.id

\* _check_bundle_references
ReferenceRules(b) ==
  {<<"BUNDLE.REFERENCES", /\ b.project.domains \subseteq DOMAIN b.domains
                          /\ b.project.roles \subseteq DOMAIN b.roles>>,
   <<"BUNDLE.PROJECT_POLICY", b.project.policy = b.policy.id /\ b.policy.project = b.project.id>>,
   <<"BUNDLE.REFERENCES", \A d \in DOMAIN b.domains :
       b.domains[d].project = b.project.id /\ DomainsOf(b, b.domains[d].overlap)>>,
   <<"BUNDLE.REFERENCES", \A r \in DOMAIN b.roles :
       /\ b.roles[r].project = b.project.id
       /\ DomainsOf(b, b.roles[r].owned \cup b.roles[r].excluded)>>,
   <<"BUNDLE.ROLE_OWNERSHIP", \A r \in DOMAIN b.roles : b.roles[r].owned \cap b.roles[r].excluded = {}>>,
   <<"BUNDLE.PERMISSIONS", \A p \in {b.project.permissions}
         \cup {b.domains[d].permissions : d \in DOMAIN b.domains}
         \cup {b.roles[r].permissions : r \in DOMAIN b.roles} : p.permitted \cap p.prohibited = {}>>}

\* Mutant of OverlapRules: a domain that overlaps itself reciprocates.
OverlapRulesReflexive(b) ==
  {<<"BUNDLE.OVERLAP", \A d \in DOMAIN b.domains : \A e \in b.domains[d].overlap \cap DOMAIN b.domains :
       d \in b.domains[e].overlap>>}

\* _check_overlap_symmetry
OverlapRules(b) ==
  {<<"BUNDLE.OVERLAP", \A d \in DOMAIN b.domains : \A e \in b.domains[d].overlap \cap DOMAIN b.domains :
       e # d /\ d \in b.domains[e].overlap>>}

\* _check_rule_static_relations without the comparisons.
RoutingRules(b) ==
  LET rules == b.policy.rules
  IN {<<"ROUTING.RULE_IDS", \A i \in 2 .. Len(rules) :
         \/ rules[i - 1].priority > rules[i].priority
         \/ rules[i - 1].priority = rules[i].priority /\ rules[i - 1].id < rules[i].id>>,
      <<"ROUTING.RULE_IDS", \A i, j \in DOMAIN rules : i # j => rules[i].id # rules[j].id>>,
      <<"ROUTING.PROJECT", \A i \in DOMAIN rules :
         /\ rules[i].project = b.project.id /\ DomainsOf(b, rules[i].domains)
         /\ rules[i].target # "deny" =>
              /\ rules[i].target \in DOMAIN b.roles
              /\ b.roles[rules[i].target].project = b.project.id
              /\ rules[i].domains \subseteq b.roles[rules[i].target].owned>>}

Match(rule) == <<rule.project, rule.domains, rule.operator>>
Projection(rule) == <<rule.priority, Match(rule), rule.target>>

\* Its comparisons, pair by pair: rules that are equal as wholes, and rules of
\* one priority with equal matches; the second question is put only where the
\* first was answered.
Duplicates(rules, silent) ==
  {"PROOF.RULE_PROJECTION" : pair \in {pair \in (DOMAIN rules) \X (DOMAIN rules) :
     /\ pair[1] < pair[2] /\ <<pair, "rule">> \notin silent
     /\ LET a == rules[pair[1]]   b == rules[pair[2]]
        IN \/ Projection(a) = Projection(b)
           \/ a.priority = b.priority /\ <<pair, "match">> \notin silent /\ Match(a) = Match(b)}}

Unanswered(rules, silent) ==
  {q \in silent : LET a == rules[q[1][1]]   b == rules[q[1][2]]
                  IN \/ q[2] = "rule"
                     \/ /\ <<q[1], "rule">> \notin silent
                        /\ Projection(a) # Projection(b) /\ a.priority = b.priority}

Comparisons(b) ==
  {pair \in (DOMAIN b.policy.rules) \X (DOMAIN b.policy.rules) : pair[1] < pair[2]} \X {"rule", "match"}

\* The stages of _bundle after its preparation.  No answer leaves an input proof
\* and an open predicate; an answer of another kind is a direct obligation.
JudgeBundle(c, b, silent) ==
  LET rules == b.policy.rules
      judged == Report(c, Violated(ReferenceRules(b) \cup OverlapRules(b) \cup RoutingRules(b))
                            \cup Duplicates(rules, silent))
  IN IF Unanswered(rules, silent) = {} THEN judged
     ELSE Unavailable(judged, "PROOF.RULE_PROJECTION", TRUE)

-----------------------------------------------------------------------------
\* One overlay, and the union of a host's overlays.

\* _check_overlay_individual.  The roles and the ceiling are compared binding
\* by binding.
OverlayRules(o, b) ==
  LET roles == {o.bindings[i].role : i \in DOMAIN o.bindings}
      portable(r) == (b.project.permissions.permitted \cap b.roles[r].permissions.permitted)
                       \ (b.project.permissions.prohibited \cup b.roles[r].permissions.prohibited)
  IN {<<"D10.project-mismatch", o.project = b.project.id>>,
      <<"D10.repository-widening", o.remotes \subseteq b.project.remotes>>,
      <<"D10.remote-widening", \A n \in DOMAIN o.expectations : o.expectations[n] \subseteq b.project.remotes>>,
      <<"D10.role-not-in-project", roles \subseteq b.project.roles>>,
      <<"D10.role-project-mismatch", \A r \in roles : r \in DOMAIN b.roles /\ b.roles[r].project = b.project.id>>,
      <<"D10.capability-widening", \A r \in roles \cap DOMAIN b.roles : o.ceiling \subseteq portable(r)>>,
      <<"D10.remote-unresolved", \A i \in DOMAIN o.bindings : \A n \in o.bindings[i].remoteNames :
         n \in DOMAIN o.expectations /\ o.expectations[n] # {}>>}

\* _prove_scope_subset as its caller sees it.
ProveScope(c, requirement, included, open) ==
  IF open THEN Unavailable(c, "D10.path-proof-unavailable", TRUE)
  ELSE Report(c, IF included THEN {} ELSE {requirement})

JudgeOverlay(c, o, b, open) ==
  ProveScope(Report(c, Violated(OverlayRules(o, b))), "D10.path-widening", o.inside, open)

IsTextPrefix(a, b) == Len(a) <= Len(b) /\ SubSeq(b, 1, Len(a)) = a
Separator(root) == IF root.platform = "posix" THEN "/" ELSE "\\"

\* Mutant of RootRelation: a prefix of the text need not end with a component.
RootRelationOfText(left, right) ==
  IF left.platform # right.platform THEN "unrelated"
  ELSE IF left.text = right.text THEN "equal"
  ELSE IF IsTextPrefix(right.text, left.text) THEN "descendant" ELSE "unrelated"

\* _exact_absolute_root_relation, on texts.
RootRelation(left, right) ==
  LET prefix == IF Last(right.text) = Separator(left) THEN right.text ELSE Append(right.text, Separator(left))
  IN IF left.platform # right.platform THEN "unrelated"
     ELSE IF left.text = right.text THEN "equal"
     ELSE IF IsTextPrefix(prefix, left.text) THEN "descendant" ELSE "unrelated"

\* What the schema says of an overlay's bindings, and of a root: it is an absolute
\* path, and ends in a separator only where it is the root of its volume.
ASSUME RootsAssumption ==
  LET cuts(root) == {i \in DOMAIN root.text : root.text[i] = Separator(root)}
      absolute(root) == /\ root.text \in Seq(Range(root.text)) /\ cuts(root) # {}
                        /\ Len(root.text) \in cuts(root) => cuts(root) = {Len(root.text)}
  IN \A s \in Submissions :
       /\ \A c \in s.trustedRoots : c[1] \in {"stateRoot", "lockRoot"} /\ absolute(c[2])
       /\ \A m \in Range(s.members) :
            /\ m.overlay.bindings \in Seq(Range(m.overlay.bindings))
            /\ absolute(m.overlay.stateRoot) /\ absolute(m.overlay.lockRoot)
            /\ \A x \in Range(m.overlay.bindings) : absolute(x.root)

Bindings(overlays) == FlattenSeq([i \in DOMAIN overlays |-> overlays[i].bindings])

\* _check_same_host_union
UnionRules(overlays, coordination) ==
  LET bs == Bindings(overlays)
      apart(kind, relation) == \A c \in coordination : \A i \in DOMAIN bs :
        c[1] = kind => RootRelation(c[2], bs[i].root) # relation
  IN {<<"HX.A1", \A i \in DOMAIN bs : bs[i].worktree \notin {bs[j].worktree : j \in 1 .. i - 1}>>,
      <<"HX.A2", \A i \in DOMAIN bs : bs[i].root \notin {bs[j].root : j \in 1 .. i - 1}>>,
      <<"HX.B1", apart("stateRoot", "equal")>>, <<"HX.B2", apart("stateRoot", "descendant")>>,
      <<"HX.B3", apart("lockRoot", "equal")>>, <<"HX.B4", apart("lockRoot", "descendant")>>}

-----------------------------------------------------------------------------
\* The contract.

\* _branch_policy_contains, on the components of a branch.
BranchAllowed(role, branch) ==
  LET matches(side) == branch \in side.exact \/ \E p \in side.prefixes : IsTextPrefix(p, branch)
  IN matches(role.allowed) /\ ~matches(role.denied)

Matching(k, o) == {i \in DOMAIN o.bindings : o.bindings[i].worktree = k.worktree /\ o.bindings[i].role = k.role}

\* The condition of the first check of _check_contract_bindings, which ends it
\* where it does not hold.
BoundUpstream(k, o, b) ==
  /\ k.project = b.project.id /\ k.project = o.project
  /\ k.role \in DOMAIN b.roles
  /\ k.domains \subseteq DOMAIN b.domains \cap b.project.domains
  /\ Cardinality(Matching(k, o)) = 1

\* Mutant of BindingRules: the overlay's ceiling stands for every layer below.
BindingRulesByCeiling(k, o, b) ==
  LET role == b.roles[k.role]
  IN {<<"CONTRACT.UPSTREAM", k.domains \subseteq role.owned>>,
      <<"CONTRACT.UPSTREAM", k.capabilities \subseteq o.ceiling>>,
      <<"CONTRACT.UPSTREAM", k.mode \in role.permissions.modes>>,
      <<"CONTRACT.UPSTREAM", k.remotes \subseteq o.remotes>>,
      <<"CONTRACT.UPSTREAM", \A i \in Matching(k, o) : k.ref = o.bindings[i].ref>>,
      <<"BRANCH.STATIC", k.ref # <<"detached">> /\ BranchAllowed(role, k.ref)>>}

BindingRules(k, o, b) ==
  LET role == b.roles[k.role]
      layers == {b.project.permissions, role.permissions} \cup {b.domains[d].permissions : d \in k.domains}
  IN {<<"CONTRACT.UPSTREAM", /\ k.domains \subseteq role.owned /\ role.project = k.project
                             /\ \A d \in k.domains : b.domains[d].project = k.project>>,
      <<"CONTRACT.UPSTREAM", \A p \in layers : /\ k.mode \in p.modes
                                               /\ k.capabilities \subseteq p.permitted
                                               /\ k.capabilities \cap p.prohibited = {}>>,
      <<"CONTRACT.UPSTREAM", k.capabilities \subseteq o.ceiling>>,
      <<"CONTRACT.UPSTREAM", k.remotes \subseteq o.remotes>>,
      <<"CONTRACT.UPSTREAM", \A i \in Matching(k, o) : k.ref = o.bindings[i].ref>>,
      <<"BRANCH.STATIC", k.ref # <<"detached">> /\ BranchAllowed(role, k.ref)>>,
      <<"CONTRACT.UPSTREAM", role.clean => k.clean>>}

-----------------------------------------------------------------------------
Init ==
  /\ submission \in Submissions
  /\ phase = "bundle" /\ member = 1 /\ validated = << >> /\ roots = {} /\ ctx = NewContext

Answer(c) == phase' = "done" /\ ctx' = c

CheckBundle ==
  /\ phase = "bundle"
  /\ \E silent \in Silent("comparison", Comparisons(submission.bundle)) :
       LET judged == JudgeBundle(ctx, submission.bundle, silent)
       IN IF judged.failed THEN Answer(LeaveUnevaluated(judged)) ELSE phase' = "overlay" /\ ctx' = judged
  /\ UNCHANGED <<submission, member, validated, roots>>

CheckOverlay ==
  /\ phase = "overlay"
  /\ \E open \in {"paths" \in submission.unreliable, FALSE} :
       LET judged == JudgeOverlay(ctx, submission.overlay, submission.bundle, open)
       IN IF judged.failed THEN Answer(judged) ELSE phase' = "members" /\ ctx' = judged
  /\ UNCHANGED <<submission, member, validated, roots>>

\* Mutant of ValidateMember: the roots of a refused overlay are kept as well.
ValidateMemberAnyRoots ==
  /\ phase = "members" /\ member <= Len(submission.members)
  /\ LET m == submission.members[member]
         bundled == JudgeBundle(NewContext, m.bundle, {})
         nested == IF bundled.failed THEN LeaveUnevaluated(bundled)
                   ELSE JudgeOverlay(bundled, m.overlay, m.bundle, FALSE)
     IN /\ ctx' = Merge(ctx, nested)
        /\ validated' = IF Verdict(nested) = "PASS" THEN Append(validated, m) ELSE validated
        /\ roots' = roots \cup {<<"stateRoot", m.overlay.stateRoot>>, <<"lockRoot", m.overlay.lockRoot>>}
  /\ member' = member + 1
  /\ UNCHANGED <<submission, phase>>

\* One turn of the loop of _validate_same_host_snapshot: a nested call of its
\* own context; only an accepted member and its roots enter the union.
ValidateMember ==
  /\ phase = "members" /\ member <= Len(submission.members)
  /\ LET m == submission.members[member]
     IN \E silent \in Silent("comparison", Comparisons(m.bundle)),
           open \in {"paths" \in submission.unreliable, FALSE} :
          LET bundled == JudgeBundle(NewContext, m.bundle, silent)
              nested == IF bundled.failed THEN LeaveUnevaluated(bundled)
                        ELSE JudgeOverlay(bundled, m.overlay, m.bundle, open)
              accepted == Verdict(nested) = "PASS"
          IN /\ ctx' = Report(Merge(ctx, nested),
                              {"PROOF.SNAPSHOT" : x \in {m.overlay.host} \ {submission.overlay.host}})
             /\ validated' = IF accepted THEN Append(validated, m) ELSE validated
             /\ roots' = IF accepted THEN roots \cup {<<"stateRoot", m.overlay.stateRoot>>,
                                                       <<"lockRoot", m.overlay.lockRoot>>} ELSE roots
  /\ member' = member + 1
  /\ UNCHANGED <<submission, phase>>

\* Mutant of CheckUnion: it takes in the overlay of the call's own project.
CheckUnionOfProject ==
  /\ phase = "members" /\ member > Len(submission.members)
  /\ LET own == SelectSeq(validated, LAMBDA m : m.bundle = submission.bundle)
         judged == Report(ctx, Violated(UnionRules([i \in DOMAIN own |-> own[i].overlay],
                                                   roots \cup submission.trustedRoots)))
     IN IF ctx.failed \/ ctx.unevaluated \/ judged.failed THEN Answer(judged)
        ELSE phase' = "bindings" /\ ctx' = judged
  /\ UNCHANGED <<submission, member, validated, roots>>

\* Its end: the union is examined when every member was accepted, and the call
\* goes on when the overlay and the bundle are a member.
CheckUnion ==
  /\ phase = "members" /\ member > Len(submission.members)
  /\ LET judged == Report(ctx, Violated(UnionRules([i \in DOMAIN validated |-> validated[i].overlay],
                                                   roots \cup submission.trustedRoots)))
         own == [overlay |-> submission.overlay, bundle |-> submission.bundle]
     IN IF ctx.failed \/ ctx.unevaluated THEN Answer(ctx)
        ELSE IF judged.failed THEN Answer(judged)
        ELSE IF own \notin Range(validated) THEN Answer(Report(judged, {"PROOF.SNAPSHOT"}))
        ELSE phase' = "bindings" /\ ctx' = judged
  /\ UNCHANGED <<submission, member, validated, roots>>

CheckContractBindings ==
  /\ phase = "bindings"
  /\ LET k == submission.contract   o == submission.overlay   b == submission.bundle
     IN IF ~BoundUpstream(k, o, b) THEN Answer(Report(ctx, {"CONTRACT.UPSTREAM"}))
        ELSE \E open \in Silent("paths", {"domains", "ceiling"}) :
               LET judged == Report(ctx, Violated(BindingRules(k, o, b)))
                   within == ProveScope(judged, "CONTRACT.UPSTREAM", k.withinDomains, "domains" \in open)
               IN Answer(ProveScope(within, "CONTRACT.UPSTREAM", k.withinCeiling, "ceiling" \in open))
  /\ UNCHANGED <<submission, member, validated, roots>>

Next == CheckBundle \/ CheckOverlay \/ ValidateMember \/ CheckUnion \/ CheckContractBindings

Spec == Init /\ [][Next]_vars
=============================================================================
