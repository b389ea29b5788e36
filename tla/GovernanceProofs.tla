-------------------------- MODULE GovernanceProofs --------------------------
(***************************************************************************)
(* Proofs about Governance, for any submissions: what an accepted contract *)
(* may do, every layer above it may do; an accepted member's bundle is     *)
(* closed; the bindings of an accepted host are apart; and what is right   *)
(* is accepted, unless somebody stays silent.                              *)
(***************************************************************************)
EXTENDS GovernanceProps, CommonProofs, FiniteSetTheorems

\* A path proof that neither stays open nor fails says that the scope is inside.
LEMMA ProveScopeFacts ==
  ASSUME NEW c, Well(c), NEW q, NEW included, NEW open \in BOOLEAN
  PROVE  /\ Onward(ProveScope(c, q, included, open), c)
         /\ Untainted(ProveScope(c, q, included, open)) => included
<1>1. CASE open BY <1>1, UnavailableFacts DEF ProveScope
<1>2. CASE ~open
  <2> DEFINE v == IF included THEN {} ELSE {q}
  <2>1. ProveScope(c, q, included, open) = Report(c, v) BY <1>2 DEF ProveScope
  <2>2. v = {} => included OBVIOUS
  <2> HIDE DEF v
  <2>3. QED BY <2>1, <2>2, ReportFacts DEF Untainted
<1>3. QED BY <1>1, <1>2

\* A report that does not fail found every rule to hold.
LEMMA AllHold ==
  ASSUME NEW R, Violated(R) = {}
  PROVE  \A x \in R : x[2]
<1>1. \A x \in R : ~x[2] => x[1] \in Violated(R) BY DEF Violated
<1>2. QED BY <1>1

LEMMA JudgeBundleFacts ==
  ASSUME NEW c, Well(c), NEW b, NEW silent
  PROVE  /\ Onward(JudgeBundle(c, b, silent), c)
         /\ ~JudgeBundle(c, b, silent).failed =>
              Violated(ReferenceRules(b) \cup OverlapRules(b) \cup RoutingRules(b)) = {}
<1> DEFINE rules == ReferenceRules(b) \cup OverlapRules(b) \cup RoutingRules(b)
           judged == Report(c, Violated(rules) \cup Duplicates(b.policy.rules, silent))
           k == JudgeBundle(c, b, silent)
<1>1. Onward(judged, c) /\ (~judged.failed => Violated(rules) = {}) BY ReportFacts
<1>2. k = judged \/ k = Unavailable(judged, "PROOF.RULE_PROJECTION", TRUE) BY DEF JudgeBundle
<1> HIDE DEF judged, k, rules
<1>3. Well(judged) BY <1>1 DEF Onward
<1>4. CASE k = judged BY <1>1, <1>4 DEF k, rules
<1>5. CASE k = Unavailable(judged, "PROOF.RULE_PROJECTION", TRUE)
  <2>1. Onward(k, judged) /\ k.failed = judged.failed BY <1>3, <1>5, UnavailableFacts
  <2>2. QED BY <1>1, <2>1 DEF Onward, k, rules
<1>6. QED BY <1>2, <1>4, <1>5

LEMMA JudgeOverlayFacts ==
  ASSUME NEW c, Well(c), NEW o, NEW b, NEW open \in BOOLEAN
  PROVE  /\ Onward(JudgeOverlay(c, o, b, open), c)
         /\ ~JudgeOverlay(c, o, b, open).failed => Violated(OverlayRules(o, b)) = {}
<1> DEFINE d == Report(c, Violated(OverlayRules(o, b)))
           k == ProveScope(d, "D10.path-widening", o.inside, open)
<1>1. Onward(d, c) /\ (~d.failed => Violated(OverlayRules(o, b)) = {}) BY ReportFacts
<1>2. JudgeOverlay(c, o, b, open) = k BY DEF JudgeOverlay
<1> HIDE DEF d
<1>3. Onward(k, d) BY <1>1, ProveScopeFacts DEF Onward
<1> HIDE DEF k
<1>4. QED BY <1>1, <1>2, <1>3 DEF Onward

-----------------------------------------------------------------------------
\* The inductive invariant: beyond a stage, its rules hold.

BundleHolds == Violated(ReferenceRules(submission.bundle)) = {}
OverlayHolds == Violated(OverlayRules(submission.overlay, submission.bundle)) = {}
Contract == /\ BoundUpstream(submission.contract, submission.overlay, submission.bundle)
            /\ Violated(BindingRules(submission.contract, submission.overlay, submission.bundle)) = {}
            /\ submission.contract.withinDomains /\ submission.contract.withinCeiling

Inv ==
  /\ Well(ctx)
  /\ phase \in {"overlay", "members", "bindings"} => BundleHolds
  /\ phase \in {"members", "bindings"} => OverlayHolds
  /\ phase = "done" /\ Untainted(ctx) => BundleHolds /\ OverlayHolds /\ Contract

LEMMA InitInv == Init => Inv
BY NewFacts DEF Init, Inv

\* A call that answers with a dent promises nothing.
LEMMA AnswerDented ==
  ASSUME NEW k, Answer(k), Well(k), ~Untainted(k) PROVE Inv'
BY DEF Answer, Inv

LEMMA CheckBundleInv == Inv /\ CheckBundle => Inv'
<1>1. SUFFICES ASSUME Inv, CheckBundle PROVE Inv' OBVIOUS
<1>2. PICK silent \in Silent("comparison", Comparisons(submission.bundle)) :
        LET judged == JudgeBundle(ctx, submission.bundle, silent)
        IN IF judged.failed THEN Answer(LeaveUnevaluated(judged)) ELSE phase' = "overlay" /\ ctx' = judged
  BY <1>1 DEF CheckBundle
<1> DEFINE judged == JudgeBundle(ctx, submission.bundle, silent)
<1>3. /\ Onward(judged, ctx)
      /\ ~judged.failed =>
           Violated(ReferenceRules(submission.bundle) \cup OverlapRules(submission.bundle)
                      \cup RoutingRules(submission.bundle)) = {}
  BY <1>1, JudgeBundleFacts DEF Inv
<1>4. IF judged.failed THEN Answer(LeaveUnevaluated(judged)) ELSE phase' = "overlay" /\ ctx' = judged
  BY <1>2
<1> HIDE DEF judged
<1>5. CASE judged.failed
  <2>1. Onward(LeaveUnevaluated(judged), judged) /\ ~Untainted(LeaveUnevaluated(judged))
    BY <1>3, LeaveFacts DEF Onward
  <2>2. QED BY <1>4, <1>5, <2>1, AnswerDented DEF Onward
<1>6. CASE ~judged.failed
  <2>1. phase' = "overlay" /\ ctx' = judged /\ submission' = submission
    BY <1>1, <1>4, <1>6 DEF CheckBundle
  <2>2. BundleHolds BY <1>3, <1>6 DEF BundleHolds, Violated
  <2>3. BundleHolds' BY <2>1, <2>2 DEF BundleHolds
  <2>4. QED BY <1>3, <2>1, <2>3 DEF Inv, Onward
<1>7. QED BY <1>5, <1>6

LEMMA CheckOverlayInv == Inv /\ CheckOverlay => Inv'
<1>1. SUFFICES ASSUME Inv, CheckOverlay PROVE Inv' OBVIOUS
<1>2. PICK open \in {"paths" \in submission.unreliable, FALSE} :
        LET judged == JudgeOverlay(ctx, submission.overlay, submission.bundle, open)
        IN IF judged.failed THEN Answer(judged) ELSE phase' = "members" /\ ctx' = judged
  BY <1>1 DEF CheckOverlay
<1>a. open \in BOOLEAN
  <2>1. ("paths" \in submission.unreliable) \in BOOLEAN OBVIOUS
  <2>2. QED BY <1>2, <2>1
<1> DEFINE judged == JudgeOverlay(ctx, submission.overlay, submission.bundle, open)
<1>3. Onward(judged, ctx) /\ (~judged.failed => OverlayHolds)
  BY <1>1, <1>a, JudgeOverlayFacts DEF Inv, OverlayHolds
<1>4. IF judged.failed THEN Answer(judged) ELSE phase' = "members" /\ ctx' = judged BY <1>2
<1> HIDE DEF judged
<1>5. CASE judged.failed BY <1>3, <1>4, <1>5, AnswerDented DEF Onward, Untainted
<1>6. CASE ~judged.failed
  <2>1. phase' = "members" /\ ctx' = judged /\ submission' = submission /\ BundleHolds
    BY <1>1, <1>4, <1>6 DEF CheckOverlay, Inv
  <2>2. BundleHolds' /\ OverlayHolds' BY <1>3, <1>6, <2>1 DEF BundleHolds, OverlayHolds
  <2>3. QED BY <1>3, <2>1, <2>2 DEF Inv, Onward
<1>7. QED BY <1>5, <1>6

LEMMA ValidateMemberInv == Inv /\ ValidateMember => Inv'
<1>1. SUFFICES ASSUME Inv, ValidateMember PROVE Inv' OBVIOUS
<1> DEFINE m == submission.members[member]
           Bundled(silent) == JudgeBundle(NewContext, m.bundle, silent)
           Nested(silent, open) == IF Bundled(silent).failed THEN LeaveUnevaluated(Bundled(silent))
                                   ELSE JudgeOverlay(Bundled(silent), m.overlay, m.bundle, open)
<1>2. PICK silent \in Silent("comparison", Comparisons(m.bundle)),
           open \in {"paths" \in submission.unreliable, FALSE} :
        ctx' = Report(Merge(ctx, Nested(silent, open)),
                      {"PROOF.SNAPSHOT" : x \in {m.overlay.host} \ {submission.overlay.host}})
  BY <1>1 DEF ValidateMember
<1>a. open \in BOOLEAN
  <2>1. ("paths" \in submission.unreliable) \in BOOLEAN OBVIOUS
  <2>2. QED BY <1>2, <2>1
<1>3. Well(Bundled(silent)) BY NewFacts, JudgeBundleFacts DEF Onward
<1>4. Well(Nested(silent, open))
  <2> HIDE DEF Bundled
  <2>1. CASE Bundled(silent).failed BY <1>3, <2>1, LeaveFacts DEF Onward
  <2>2. CASE ~Bundled(silent).failed BY <1>3, <1>a, <2>2, JudgeOverlayFacts DEF Onward
  <2>3. QED BY <2>1, <2>2
<1> HIDE DEF Nested, Bundled
<1>5. Well(Merge(ctx, Nested(silent, open))) BY <1>1, <1>4, MergeFacts DEF Inv, Onward
<1>6. Well(ctx') BY <1>2, <1>5, ReportFacts DEF Onward
<1>7. phase' = phase /\ submission' = submission /\ phase = "members" BY <1>1 DEF ValidateMember
<1>8. QED BY <1>1, <1>6, <1>7 DEF Inv, BundleHolds, OverlayHolds

LEMMA CheckUnionInv == Inv /\ CheckUnion => Inv'
<1>1. SUFFICES ASSUME Inv, CheckUnion PROVE Inv' OBVIOUS
<1> DEFINE found == Violated(UnionRules([i \in DOMAIN validated |-> validated[i].overlay],
                                        roots \cup submission.trustedRoots))
           judged == Report(ctx, found)
           own == [overlay |-> submission.overlay, bundle |-> submission.bundle]
<1>2. IF ctx.failed \/ ctx.unevaluated THEN Answer(ctx)
      ELSE IF judged.failed THEN Answer(judged)
      ELSE IF own \notin Range(validated) THEN Answer(Report(judged, {"PROOF.SNAPSHOT"}))
      ELSE phase' = "bindings" /\ ctx' = judged
  BY <1>1 DEF CheckUnion
<1>3. submission' = submission /\ phase = "members" BY <1>1 DEF CheckUnion
<1> HIDE DEF found, own
<1>4. Well(ctx) /\ Onward(judged, ctx) BY <1>1, ReportFacts DEF Inv
<1> HIDE DEF judged
<1>5. CASE (ctx.failed \/ ctx.unevaluated) /\ Answer(ctx)
  BY <1>4, <1>5, AnswerDented DEF Untainted
<1>6. CASE judged.failed /\ Answer(judged) BY <1>4, <1>6, AnswerDented DEF Untainted, Onward
<1>7. CASE Answer(Report(judged, {"PROOF.SNAPSHOT"}))
  <2> DEFINE k == Report(judged, {"PROOF.SNAPSHOT"})
  <2>1. Well(k) /\ k.failed BY <1>4, ReportFacts DEF Onward
  <2>2. QED BY <1>7, <2>1, AnswerDented DEF Untainted
<1>8. CASE phase' = "bindings" /\ ctx' = judged
  BY <1>1, <1>3, <1>4, <1>8 DEF Inv, BundleHolds, OverlayHolds, Onward
<1>9. QED BY <1>2, <1>5, <1>6, <1>7, <1>8

LEMMA BindingsInv == Inv /\ CheckContractBindings => Inv'
<1>1. SUFFICES ASSUME Inv, CheckContractBindings PROVE Inv' OBVIOUS
<1> DEFINE k == submission.contract
           o == submission.overlay
           b == submission.bundle
           judged == Report(ctx, Violated(BindingRules(k, o, b)))
           Within(x) == ProveScope(judged, "CONTRACT.UPSTREAM", k.withinDomains, x)
           All(x, y) == ProveScope(Within(x), "CONTRACT.UPSTREAM", k.withinCeiling, y)
<1>2. /\ phase = "bindings" /\ submission' = submission /\ Well(ctx) /\ BundleHolds /\ OverlayHolds
      /\ IF ~BoundUpstream(k, o, b) THEN Answer(Report(ctx, {"CONTRACT.UPSTREAM"}))
         ELSE \E open \in Silent("paths", {"domains", "ceiling"}) : Answer(All("domains" \in open, "ceiling" \in open))
  BY <1>1 DEF CheckContractBindings, Inv
<1>3. CASE ~BoundUpstream(k, o, b)
  <2>1. Well(Report(ctx, {"CONTRACT.UPSTREAM"})) /\ Report(ctx, {"CONTRACT.UPSTREAM"}).failed
    BY <1>2, ReportFacts DEF Onward
  <2>2. QED BY <1>2, <1>3, <2>1, AnswerDented DEF Untainted
<1>4. CASE BoundUpstream(k, o, b)
  <2>1. PICK open : Answer(All("domains" \in open, "ceiling" \in open)) BY <1>2, <1>4
  <2>2. Onward(judged, ctx) /\ (~judged.failed => Violated(BindingRules(k, o, b)) = {})
    BY <1>2, ReportFacts
  <2> HIDE DEF judged
  <2>3. ASSUME NEW x \in BOOLEAN
        PROVE  Onward(Within(x), judged) /\ (Untainted(Within(x)) => k.withinDomains)
    BY <2>2, ProveScopeFacts DEF Onward
  <2> HIDE DEF Within
  <2>4. ASSUME NEW x \in BOOLEAN, NEW y \in BOOLEAN
        PROVE  Onward(All(x, y), Within(x)) /\ (Untainted(All(x, y)) => k.withinCeiling)
    BY <2>3, ProveScopeFacts DEF Onward
  <2> HIDE DEF All
  <2>5. ASSUME NEW x \in BOOLEAN, NEW y \in BOOLEAN, Answer(All(x, y)) PROVE Inv'
    <3>1. Untainted(All(x, y)) => Contract
      BY <1>4, <2>2, <2>3, <2>4 DEF Contract, Onward, Untainted
    <3>2. phase' = "done" /\ ctx' = All(x, y) BY <2>5 DEF Answer
    <3>3. Well(ctx') BY <2>4, <3>2 DEF Onward
    <3>4. QED BY <1>2, <3>1, <3>2, <3>3 DEF Inv, BundleHolds, OverlayHolds, Contract, Untainted
  <2>6. ("domains" \in open) \in BOOLEAN /\ ("ceiling" \in open) \in BOOLEAN OBVIOUS
  <2>7. QED BY <2>1, <2>5, <2>6
<1>5. QED BY <1>3, <1>4

LEMMA NextInv == Inv /\ [Next]_vars => Inv'
<1>1. CASE UNCHANGED vars BY <1>1 DEF vars, Inv, BundleHolds, OverlayHolds, Contract
<1>2. CASE Next
  BY <1>2, CheckBundleInv, CheckOverlayInv, ValidateMemberInv, CheckUnionInv, BindingsInv DEF Next
<1>3. QED BY <1>1, <1>2

LEMMA Inductive == Spec => []Inv
BY InitInv, NextInv, PTL DEF Spec

-----------------------------------------------------------------------------
\* What the rules say, read off the sets they are written in.

LEMMA BindingRulesSay ==
  ASSUME NEW k, NEW o, NEW b, Violated(BindingRules(k, o, b)) = {}
  PROVE  /\ k.domains \subseteq b.roles[k.role].owned
         /\ \A p \in Layers(k, b) : /\ k.mode \in p.modes /\ k.capabilities \subseteq p.permitted
                                    /\ k.capabilities \cap p.prohibited = {}
         /\ k.capabilities \subseteq o.ceiling /\ k.remotes \subseteq o.remotes
         /\ \A i \in Matching(k, o) : k.ref = o.bindings[i].ref
         /\ k.ref # <<"detached">> /\ BranchAllowed(b.roles[k.role], k.ref)
         /\ b.roles[k.role].clean => k.clean
<1>1. \A x \in BindingRules(k, o, b) : x[2] BY AllHold
<1>2. QED BY <1>1 DEF BindingRules, Layers

LEMMA RemotesNarrow ==
  ASSUME NEW o, NEW b, Violated(OverlayRules(o, b)) = {}
  PROVE  o.remotes \subseteq b.project.remotes
<1>1. \A x \in OverlayRules(o, b) : x[2] BY AllHold
<1>2. QED BY <1>1 DEF OverlayRules

LEMMA RolesOwnOrExclude ==
  ASSUME NEW b, Violated(ReferenceRules(b)) = {}
  PROVE  \A r \in DOMAIN b.roles : b.roles[r].owned \cap b.roles[r].excluded = {}
<1>1. \A x \in ReferenceRules(b) : x[2] BY AllHold
<1>2. QED BY <1>1 DEF ReferenceRules

LEMMA BranchesOpen ==
  ASSUME NEW role, NEW branch, BranchAllowed(role, branch) PROVE BranchOpen(role, branch)
BY DEF BranchAllowed, BranchOpen

\* The worktree of the contract is bound.
LEMMA OneBinding ==
  ASSUME NEW k, NEW o, Cardinality(Matching(k, o)) = 1
  PROVE  \E i \in DOMAIN o.bindings : o.bindings[i].worktree = k.worktree /\ o.bindings[i].role = k.role
<1>1. Matching(k, o) # {} BY FS_EmptySet
<1>2. QED BY <1>1 DEF Matching

LEMMA InvNarrows == Inv => AuthorityOnlyNarrows
<1>1. SUFFICES ASSUME Inv, Accepted PROVE
        LET k == submission.contract   b == submission.bundle
        IN /\ Authorized(k, submission.overlay, b)
           /\ k.remotes \subseteq b.project.remotes
           /\ k.domains \cap b.roles[k.role].excluded = {}
  BY DEF AuthorityOnlyNarrows
<1> DEFINE k == submission.contract
           o == submission.overlay
           b == submission.bundle
<1>2. BundleHolds /\ OverlayHolds /\ Contract BY <1>1, VerdictFacts DEF Inv, Accepted, Done
<1>3. /\ Violated(ReferenceRules(b)) = {} /\ Violated(OverlayRules(o, b)) = {}
      /\ BoundUpstream(k, o, b) /\ Violated(BindingRules(k, o, b)) = {}
      /\ k.withinDomains /\ k.withinCeiling
  BY <1>2 DEF BundleHolds, OverlayHolds, Contract
<1> HIDE DEF k, o, b
<1>4. /\ k.project = b.project.id /\ k.role \in DOMAIN b.roles
      /\ k.domains \subseteq b.project.domains /\ Cardinality(Matching(k, o)) = 1
  BY <1>3 DEF BoundUpstream
<1>5. /\ k.domains \subseteq b.roles[k.role].owned
      /\ \A p \in Layers(k, b) : /\ k.mode \in p.modes /\ k.capabilities \subseteq p.permitted
                                 /\ k.capabilities \cap p.prohibited = {}
      /\ k.capabilities \subseteq o.ceiling /\ k.remotes \subseteq o.remotes
      /\ \A i \in Matching(k, o) : k.ref = o.bindings[i].ref
      /\ k.ref # <<"detached">> /\ BranchAllowed(b.roles[k.role], k.ref)
      /\ b.roles[k.role].clean => k.clean
  BY <1>3, BindingRulesSay
<1>6. \E x \in Range(o.bindings) : x.worktree = k.worktree /\ x.role = k.role /\ x.ref = k.ref
  <2>1. PICK i \in DOMAIN o.bindings : o.bindings[i].worktree = k.worktree /\ o.bindings[i].role = k.role
    BY <1>4, OneBinding
  <2>2. i \in Matching(k, o) BY <2>1 DEF Matching
  <2>3. o.bindings[i] \in Range(o.bindings) BY DEF Range
  <2>4. QED BY <1>5, <2>1, <2>2, <2>3
<1>7. Authorized(k, o, b) BY <1>3, <1>4, <1>5, <1>6, BranchesOpen DEF Authorized
<1>8. k.remotes \subseteq b.project.remotes BY <1>3, <1>5, RemotesNarrow
<1>9. k.domains \cap b.roles[k.role].excluded = {} BY <1>3, <1>4, <1>5, RolesOwnOrExclude
<1>10. QED BY <1>7, <1>8, <1>9 DEF k, o, b

\* An accepted contract has no authority that any layer above it lacks, for any
\* bundles, overlays, hosts and contracts and whoever stays silent
\* (_check_contract_bindings over _check_overlay_individual).
THEOREM AuthorityNarrows == Spec => []AuthorityOnlyNarrows
<1>1. QED BY Inductive, InvNarrows, PTL

-----------------------------------------------------------------------------
\* The bundle of an accepted member.

ListOf(rules) == /\ Len(rules) \in Nat /\ DOMAIN rules = 1 .. Len(rules)
                 /\ \A i \in DOMAIN rules : rules[i].priority \in Int /\ rules[i].id \in Int

\* The rules find nothing in b and its comparisons were answered.
Sound(b) ==
  /\ Violated(ReferenceRules(b) \cup OverlapRules(b) \cup RoutingRules(b)) = {}
  /\ \E silent : Unanswered(b.policy.rules, silent) = {} /\ Duplicates(b.policy.rules, silent) = {}

LEMMA JudgedSound ==
  ASSUME NEW c, Well(c), NEW b, NEW silent, Untainted(JudgeBundle(c, b, silent))
  PROVE  Sound(b)
<1> DEFINE V == Violated(ReferenceRules(b) \cup OverlapRules(b) \cup RoutingRules(b))
           D == Duplicates(b.policy.rules, silent)
           judged == Report(c, V \cup D)
<1>1. Onward(judged, c) /\ (~judged.failed => V \cup D = {}) BY ReportFacts
<1>2. JudgeBundle(c, b, silent) = IF Unanswered(b.policy.rules, silent) = {} THEN judged
                                  ELSE Unavailable(judged, "PROOF.RULE_PROJECTION", TRUE)
  BY DEF JudgeBundle
<1> HIDE DEF judged, V, D
<1>3. Unanswered(b.policy.rules, silent) = {} BY <1>1, <1>2, UnavailableFacts DEF Onward
<1>4. V \cup D = {} BY <1>1, <1>2, <1>3 DEF Untainted
<1>5. V = {} /\ D = {} BY <1>4
<1>6. QED BY <1>3, <1>5 DEF Sound, V, D

\* Routing rules in canonical order: neighbours are, and the order is
\* transitive.
LEMMA RulesInOrder ==
  ASSUME NEW rules, ListOf(rules),
         \A i \in 2 .. Len(rules) :
           \/ rules[i - 1].priority > rules[i].priority
           \/ rules[i - 1].priority = rules[i].priority /\ rules[i - 1].id < rules[i].id
  PROVE  \A i, j \in DOMAIN rules : i < j =>
           \/ rules[i].priority > rules[j].priority
           \/ rules[i].priority = rules[j].priority /\ rules[i].id < rules[j].id
<1> DEFINE n == Len(rules)
           Before(i, j) == \/ rules[i].priority > rules[j].priority
                           \/ rules[i].priority = rules[j].priority /\ rules[i].id < rules[j].id
           R == {p \in (1 .. n) \X (1 .. n) : Before(p[1], p[2])}
<1>1. n \in Nat /\ \A i \in 1 .. n : rules[i].priority \in Int /\ rules[i].id \in Int BY DEF ListOf
<1>2. \A i, j \in 1 .. n : <<i, j>> \in R <=> Before(i, j) OBVIOUS
<1>3. \A i \in 2 .. n : <<i - 1, i>> \in R
  <2>1. \A i \in 2 .. n : i \in 1 .. n /\ i - 1 \in 1 .. n BY <1>1
  <2>2. QED BY <1>2, <2>1
<1>4. \A i, j, k \in 1 .. n : Before(i, j) /\ Before(j, k) => Before(i, k) BY <1>1
<1> HIDE DEF R, Before
<1>5. \A i, j, k \in 1 .. n : <<i, j>> \in R /\ <<j, k>> \in R => <<i, k>> \in R BY <1>2, <1>4
<1>6. \A i, j \in 1 .. n : i < j => <<i, j>> \in R BY <1>1, <1>3, <1>5, NeighboursSuffice
<1>7. QED BY <1>2, <1>6 DEF Before, ListOf

\* Of two rules of one priority the matches differ.
LEMMA MatchesDiffer ==
  ASSUME NEW rules, NEW silent, Unanswered(rules, silent) = {}, Duplicates(rules, silent) = {},
         NEW i \in DOMAIN rules, NEW j \in DOMAIN rules, i < j,
         rules[i].priority = rules[j].priority
  PROVE  Match(rules[i]) # Match(rules[j])
<1> DEFINE pair == <<i, j>>
<1>1. pair \in (DOMAIN rules) \X (DOMAIN rules) /\ pair[1] = i /\ pair[2] = j OBVIOUS
<1>2. <<pair, "rule">> \notin silent
  <2>1. <<pair, "rule">> \in silent => <<pair, "rule">> \in Unanswered(rules, silent) BY DEF Unanswered
  <2>2. QED BY <2>1
<1> HIDE DEF pair
<1>3. ASSUME \/ Projection(rules[i]) = Projection(rules[j])
             \/ <<pair, "match">> \notin silent /\ Match(rules[i]) = Match(rules[j])
      PROVE  FALSE
  <2>1. pair \in {p \in (DOMAIN rules) \X (DOMAIN rules) :
          /\ p[1] < p[2] /\ <<p, "rule">> \notin silent
          /\ LET a == rules[p[1]]   b == rules[p[2]]
             IN \/ Projection(a) = Projection(b)
                \/ a.priority = b.priority /\ <<p, "match">> \notin silent /\ Match(a) = Match(b)}
    BY <1>1, <1>2, <1>3
  <2>2. "PROOF.RULE_PROJECTION" \in Duplicates(rules, silent) BY <2>1 DEF Duplicates
  <2>3. QED BY <2>2
<1>4. ASSUME <<pair, "match">> \in silent, Projection(rules[i]) # Projection(rules[j]) PROVE FALSE
  <2> DEFINE q == <<pair, "match">>
  <2>1. q \in silent /\ q[1] = pair /\ q[2] = "match" BY <1>4
  <2>2. q \in Unanswered(rules, silent) BY <1>1, <1>2, <1>4, <2>1 DEF Unanswered
  <2>3. QED BY <2>2
<1>5. QED BY <1>3, <1>4

LEMMA SoundIsClosed ==
  ASSUME NEW b, Sound(b), ListOf(b.policy.rules), "deny" \notin DOMAIN b.roles
  PROVE  Closed(b)
<1> DEFINE rules == b.policy.rules
           pid == b.project.id
<1>1. PICK silent : Unanswered(rules, silent) = {} /\ Duplicates(rules, silent) = {} BY DEF Sound
<1>2. \A x \in ReferenceRules(b) \cup OverlapRules(b) \cup RoutingRules(b) : x[2] BY AllHold DEF Sound
<1>3. /\ \A x \in ReferenceRules(b) : x[2]
      /\ \A x \in OverlapRules(b) : x[2]
      /\ \A x \in RoutingRules(b) : x[2]
  BY <1>2
<1>4. /\ b.project.domains \subseteq DOMAIN b.domains /\ b.project.roles \subseteq DOMAIN b.roles
      /\ b.project.policy = b.policy.id /\ b.policy.project = pid
  BY <1>3 DEF ReferenceRules
<1>5. \A d \in DOMAIN b.domains : b.domains[d].project = pid /\ b.domains[d].overlap \subseteq DOMAIN b.domains
  BY <1>3 DEF ReferenceRules, DomainsOf
<1>6. \A r \in DOMAIN b.roles :
        /\ b.roles[r].project = pid /\ b.roles[r].owned \cup b.roles[r].excluded \subseteq DOMAIN b.domains
        /\ b.roles[r].owned \cap b.roles[r].excluded = {}
  BY <1>3 DEF ReferenceRules, DomainsOf
<1>7. \A p \in {b.project.permissions} \cup {b.domains[d].permissions : d \in DOMAIN b.domains}
                 \cup {b.roles[r].permissions : r \in DOMAIN b.roles} : p.permitted \cap p.prohibited = {}
  BY <1>3 DEF ReferenceRules
<1>8. \A d \in DOMAIN b.domains : \A e \in b.domains[d].overlap \cap DOMAIN b.domains :
        e # d /\ d \in b.domains[e].overlap
  BY <1>3 DEF OverlapRules
<1>9. \A i \in 2 .. Len(rules) :
         \/ rules[i - 1].priority > rules[i].priority
         \/ rules[i - 1].priority = rules[i].priority /\ rules[i - 1].id < rules[i].id
  BY <1>3 DEF RoutingRules
<1>10. \A i, j \in DOMAIN rules : i # j => rules[i].id # rules[j].id BY <1>3 DEF RoutingRules
<1>11. \A i \in DOMAIN rules :
         /\ rules[i].project = pid /\ rules[i].domains \subseteq DOMAIN b.domains
         /\ rules[i].target # "deny" =>
              rules[i].target \in DOMAIN b.roles /\ rules[i].domains \subseteq b.roles[rules[i].target].owned
  BY <1>3 DEF RoutingRules, DomainsOf
<1>12. \A i, j \in DOMAIN rules : i < j =>
         /\ rules[i].priority >= rules[j].priority
         /\ rules[i].priority = rules[j].priority =>
              rules[i].id < rules[j].id /\ Match(rules[i]) # Match(rules[j])
  <2>1. SUFFICES ASSUME NEW i \in DOMAIN rules, NEW j \in DOMAIN rules, i < j
                 PROVE  /\ rules[i].priority >= rules[j].priority
                        /\ rules[i].priority = rules[j].priority =>
                             rules[i].id < rules[j].id /\ Match(rules[i]) # Match(rules[j])
    OBVIOUS
  <2>2. \/ rules[i].priority > rules[j].priority
        \/ rules[i].priority = rules[j].priority /\ rules[i].id < rules[j].id
    BY <1>9, <2>1, RulesInOrder
  <2>3. rules[i].priority = rules[j].priority => Match(rules[i]) # Match(rules[j])
    BY <1>1, <2>1, MatchesDiffer
  <2>4. rules[i].priority \in Int /\ rules[j].priority \in Int BY DEF ListOf
  <2>5. QED BY <2>2, <2>3, <2>4
<1>13. \A d, e \in UNION {{x} \cup b.domains[x].overlap : x \in DOMAIN b.domains} :
         /\ d \in DOMAIN b.domains /\ d \notin b.domains[d].overlap
         /\ d \in b.domains[e].overlap <=> e \in b.domains[d].overlap
  BY <1>5, <1>8
<1>14. {d.project : d \in Range(b.domains) \cup Range(b.roles) \cup Range(rules) \cup {b.policy}} = {pid}
  <2>1. \A d \in Range(b.domains) : d.project = pid BY <1>5 DEF Range
  <2>2. \A d \in Range(b.roles) : d.project = pid BY <1>6 DEF Range
  <2>3. \A d \in Range(rules) : d.project = pid BY <1>11 DEF Range
  <2>4. b.policy.project = pid BY <1>4
  <2>5. QED BY <2>1, <2>2, <2>3, <2>4
<1>15. \A x \in {b.project} \cup Range(b.domains) \cup Range(b.roles) :
         x.permissions.permitted \cap x.permissions.prohibited = {}
  BY <1>7 DEF Range
<1>16. \A r \in Range(b.roles) : r.owned \cup r.excluded \subseteq DOMAIN b.domains /\ r.owned \cap r.excluded = {}
  BY <1>6 DEF Range
<1>17. \A i \in DOMAIN rules :
          /\ rules[i].domains \subseteq DOMAIN b.domains
          /\ rules[i].target \in {"deny"} \cup DOMAIN b.roles
          /\ rules[i].target \in DOMAIN b.roles =>
               rules[i].domains \subseteq b.roles[rules[i].target].owned
  BY <1>11
<1> HIDE DEF rules, pid
<1>18. QED
  BY <1>4, <1>10, <1>12, <1>13, <1>14, <1>15, <1>16, <1>17 DEF Closed, rules, pid

-----------------------------------------------------------------------------
\* The members that were accepted are members, and their bundles sound.
SoundMembers == {m \in Range(submission.members) : Sound(m.bundle)}

InvMembers ==
  /\ submission \in Submissions /\ Well(ctx)
  /\ member \in Nat \ {0}
  /\ validated \in Seq(SoundMembers)

LEMMA InitMembers == Init => InvMembers
BY NewFacts DEF Init, InvMembers

\* An accepted member is sound.
LEMMA AcceptedMemberSound ==
  ASSUME NEW m, NEW silent, NEW open \in BOOLEAN,
         Verdict(IF JudgeBundle(NewContext, m.bundle, silent).failed
                 THEN LeaveUnevaluated(JudgeBundle(NewContext, m.bundle, silent))
                 ELSE JudgeOverlay(JudgeBundle(NewContext, m.bundle, silent), m.overlay, m.bundle, open)) = "PASS"
  PROVE  Sound(m.bundle)
<1> DEFINE bundled == JudgeBundle(NewContext, m.bundle, silent)
           nested == IF bundled.failed THEN LeaveUnevaluated(bundled)
                     ELSE JudgeOverlay(bundled, m.overlay, m.bundle, open)
<1>1. Well(bundled) BY NewFacts, JudgeBundleFacts DEF Onward
<1>2. Untainted(nested) BY VerdictFacts
<1>3. Untainted(bundled) => Sound(m.bundle) BY NewFacts, JudgedSound
<1> HIDE DEF bundled
<1>4. Onward(nested, bundled) BY <1>1, LeaveFacts, JudgeOverlayFacts
<1> HIDE DEF nested
<1>5. QED BY <1>2, <1>3, <1>4 DEF Onward

LEMMA ValidateMemberMembers ==
  ASSUME InvMembers, ValidateMember PROVE member' \in Nat \ {0} /\ validated' \in Seq(SoundMembers)
<1> DEFINE m == submission.members[member]
<1>1. member \in DOMAIN submission.members
  <2>1. submission \in Submissions /\ member \in Nat \ {0} BY DEF InvMembers
  <2>2. member <= Len(submission.members) BY DEF ValidateMember
  <2>3. Len(submission.members) \in Nat /\ DOMAIN submission.members = 1 .. Len(submission.members)
    BY <2>1, SubmissionsAssumption
  <2>4. QED BY <2>1, <2>2, <2>3
<1>2. m \in Range(submission.members) BY <1>1 DEF Range
<1>3. PICK silent \in Silent("comparison", Comparisons(m.bundle)),
           open \in {"paths" \in submission.unreliable, FALSE} :
        validated' = IF Verdict(IF JudgeBundle(NewContext, m.bundle, silent).failed
                                THEN LeaveUnevaluated(JudgeBundle(NewContext, m.bundle, silent))
                                ELSE JudgeOverlay(JudgeBundle(NewContext, m.bundle, silent),
                                                  m.overlay, m.bundle, open)) = "PASS"
                     THEN Append(validated, m) ELSE validated
  BY DEF ValidateMember
<1>4. open \in BOOLEAN
  <2>1. ("paths" \in submission.unreliable) \in BOOLEAN OBVIOUS
  <2>2. QED BY <1>3, <2>1
<1>5. validated' = validated \/ (validated' = Append(validated, m) /\ Sound(m.bundle))
  BY <1>3, <1>4, AcceptedMemberSound
<1> HIDE DEF m
<1>6. Sound(m.bundle) => m \in SoundMembers BY <1>2 DEF SoundMembers
<1>7. validated' \in Seq(SoundMembers) BY <1>5, <1>6 DEF InvMembers
<1>8. QED BY <1>7 DEF InvMembers, ValidateMember

LEMMA NextMembers == Inv /\ InvMembers /\ [Next]_vars => InvMembers'
<1>1. SUFFICES ASSUME Inv, InvMembers, [Next]_vars PROVE InvMembers' OBVIOUS
<1>2. submission' = submission BY <1>1
  DEF Next, vars, CheckBundle, CheckOverlay, ValidateMember, CheckUnion, CheckContractBindings
<1>3. SoundMembers' = SoundMembers BY <1>2 DEF SoundMembers
<1>4. Well(ctx') BY <1>1, NextInv DEF Inv
<1>5. CASE ValidateMember BY <1>1, <1>2, <1>3, <1>4, <1>5, ValidateMemberMembers DEF InvMembers
<1>6. CASE UNCHANGED <<member, validated>> BY <1>1, <1>2, <1>3, <1>4, <1>6 DEF InvMembers
<1>7. QED BY <1>1, <1>5, <1>6
  DEF Next, vars, CheckBundle, CheckOverlay, CheckUnion, CheckContractBindings

LEMMA MembersClosed == InvMembers => BundleIsClosed
<1>1. SUFFICES ASSUME InvMembers, NEW m \in Range(validated) PROVE Closed(m.bundle) BY DEF BundleIsClosed
<1>2. m \in SoundMembers BY <1>1 DEF InvMembers, Range
<1>3. Sound(m.bundle) /\ m \in Range(submission.members) BY <1>2 DEF SoundMembers
<1>4. ListOf(m.bundle.policy.rules) /\ "deny" \notin DOMAIN m.bundle.roles
  BY <1>1, <1>3, SubmissionsAssumption DEF InvMembers, ListOf
<1>5. QED BY <1>3, <1>4, SoundIsClosed

\* The bundle of an accepted member is closed, whatever bundles are submitted
\* and however many rules they route by (_check_bundle_references,
\* _check_overlap_symmetry, _check_rule_static_relations).
THEOREM MembersAreClosed == Spec => []BundleIsClosed
<1>1. Init => Inv /\ InvMembers BY InitInv, InitMembers
<1>2. Inv /\ InvMembers /\ [Next]_vars => (Inv /\ InvMembers)' BY NextInv, NextMembers
<1>3. QED BY <1>1, <1>2, MembersClosed, PTL DEF Spec

-----------------------------------------------------------------------------
\* The bindings of all overlays, one after the other.

IsFlat(seqs, flat, n) == flat = [i \in 1 .. n |-> IF i = 1 THEN seqs[i] ELSE flat[i - 1] \o seqs[i]]

LEMMA FlatExists ==
  ASSUME NEW seqs, NEW n \in Nat PROVE \E flat : IsFlat(seqs, flat, n)
<1> DEFINE S == {k \in Nat : \E flat : IsFlat(seqs, flat, k)}
<1>1. 0 \in S
  <2> DEFINE g == [i \in 1 .. 0 |-> seqs]
  <2>1. g = [i \in 1 .. 0 |-> IF i = 1 THEN seqs[i] ELSE g[i - 1] \o seqs[i]] OBVIOUS
  <2>2. QED BY <2>1 DEF IsFlat
<1>2. ASSUME NEW k \in 1 .. n, k - 1 \in S PROVE k \in S
  <2>1. PICK g : IsFlat(seqs, g, k - 1) BY <1>2
  <2> DEFINE h == [i \in 1 .. k |-> IF i \in 1 .. k - 1 THEN g[i]
                                    ELSE IF i = 1 THEN seqs[i] ELSE g[i - 1] \o seqs[i]]
             body(i) == IF i = 1 THEN seqs[i] ELSE g[i - 1] \o seqs[i]
  <2>2. \A i \in 1 .. k - 1 : g[i] = body(i)
    <3>1. g = [i \in 1 .. k - 1 |-> body(i)] BY <2>1 DEF IsFlat
    <3> HIDE DEF body
    <3>2. QED BY <3>1
  <2>3. ASSUME NEW i \in 1 .. k PROVE h[i] = IF i = 1 THEN seqs[i] ELSE h[i - 1] \o seqs[i]
    <3>1. i # 1 => i - 1 \in 1 .. k - 1 OBVIOUS
    <3>2. i # 1 => h[i - 1] = g[i - 1] BY <3>1
    <3>3. h[i] = body(i) BY <2>2
    <3> HIDE DEF h
    <3>4. QED BY <3>2, <3>3
  <2>4. h = [i \in 1 .. k |-> h[i]] OBVIOUS
  <2> HIDE DEF h
  <2>5. h = [i \in 1 .. k |-> IF i = 1 THEN seqs[i] ELSE h[i - 1] \o seqs[i]] BY <2>3, <2>4
  <2>6. IsFlat(seqs, h, k) BY <2>5 DEF IsFlat
  <2>7. k \in Nat OBVIOUS
  <2>8. QED BY <2>6, <2>7
<1> HIDE DEF S
<1>3. n \in S BY <1>1, <1>2, UpTo
<1>4. QED BY <1>3 DEF S

LEMMA FlattenIsFlat ==
  ASSUME NEW seqs, NEW T, seqs \in Seq(T), Len(seqs) # 0
  PROVE  \E flat : IsFlat(seqs, flat, Len(seqs)) /\ FlattenSeq(seqs) = flat[Len(seqs)]
<1> DEFINE F == CHOOSE flat : flat = [i \in 1 .. Len(seqs) |-> IF i = 1 THEN seqs[i] ELSE flat[i - 1] \o seqs[i]]
<1>1. FlattenSeq(seqs) = F[Len(seqs)] BY DEF FlattenSeq
<1>2. Len(seqs) \in Nat OBVIOUS
<1>3. \E flat : flat = [i \in 1 .. Len(seqs) |-> IF i = 1 THEN seqs[i] ELSE flat[i - 1] \o seqs[i]]
  BY <1>2, FlatExists DEF IsFlat
<1>4. F = [i \in 1 .. Len(seqs) |-> IF i = 1 THEN seqs[i] ELSE F[i - 1] \o seqs[i]] BY <1>3
<1> HIDE DEF F
<1>5. QED BY <1>1, <1>4 DEF IsFlat

LEMMA FlatSteps ==
  ASSUME NEW seqs, NEW n \in Nat, NEW flat, IsFlat(seqs, flat, n), NEW i \in 1 .. n
  PROVE  flat[i] = IF i = 1 THEN seqs[i] ELSE flat[i - 1] \o seqs[i]
<1> DEFINE body(j) == IF j = 1 THEN seqs[j] ELSE flat[j - 1] \o seqs[j]
<1>1. flat = [j \in 1 .. n |-> body(j)] BY DEF IsFlat
<1>2. flat[i] = body(i)
  <2> HIDE DEF body
  <2>1. QED BY <1>1
<1>3. QED BY <1>2

\* all holds the members of seqs[i] from some place on.
Holds(all, seqs, i) ==
  \E off \in Nat : /\ off + Len(seqs[i]) <= Len(all)
                   /\ \A k \in DOMAIN seqs[i] : all[off + k] = seqs[i][k]
\* Every member of all is one of the first n of seqs.
From(all, seqs, n) == \A j \in DOMAIN all : \E i \in 1 .. n : \E k \in DOMAIN seqs[i] : all[j] = seqs[i][k]

LEMMA FlatHolds ==
  ASSUME NEW T, NEW seqs \in Seq(Seq(T)), NEW flat, IsFlat(seqs, flat, Len(seqs))
  PROVE  \A n \in 1 .. Len(seqs) :
           flat[n] \in Seq(T) /\ From(flat[n], seqs, n) /\ \A i \in 1 .. n : Holds(flat[n], seqs, i)
<1> DEFINE Good(n) == flat[n] \in Seq(T) /\ From(flat[n], seqs, n) /\ \A i \in 1 .. n : Holds(flat[n], seqs, i)
           S == {n \in 0 .. Len(seqs) : n = 0 \/ Good(n)}
<1>0. Len(seqs) \in Nat /\ \A i \in 1 .. Len(seqs) : seqs[i] \in Seq(T) OBVIOUS
<1>1. ASSUME NEW n \in 1 .. Len(seqs), n = 1 \/ Good(n - 1) PROVE Good(n)
  <2>1. seqs[n] \in Seq(T) /\ flat[n] = IF n = 1 THEN seqs[n] ELSE flat[n - 1] \o seqs[n]
    BY <1>0, FlatSteps
  <2>2. CASE n = 1
    <3>1. flat[n] = seqs[n] BY <2>1, <2>2
    <3>2. From(flat[n], seqs, n) BY <3>1 DEF From
    <3>3. Holds(seqs[n], seqs, n)
      <4> DEFINE c == seqs[n]
      <4>1. c \in Seq(T) BY <2>1
      <4> HIDE DEF c
      <4>2. 0 \in Nat /\ 0 + Len(c) <= Len(c) /\ \A k \in DOMAIN c : c[0 + k] = c[k] BY <4>1
      <4>3. QED BY <4>2 DEF Holds, c
    <3>4. \A i \in 1 .. n : i = n BY <2>2
    <3>5. QED BY <2>1, <3>1, <3>2, <3>3, <3>4
  <2>3. CASE n # 1
    <3> DEFINE a == flat[n - 1]   c == seqs[n]
    <3>1. /\ a \in Seq(T) /\ From(a, seqs, n - 1) /\ \A i \in 1 .. n - 1 : Holds(a, seqs, i)
          /\ flat[n] = a \o c /\ c \in Seq(T)
      BY <1>1, <2>1, <2>3
    <3> HIDE DEF a
    <3>2. flat[n] \in Seq(T) /\ Len(a \o c) = Len(a) + Len(c) BY <3>1
    <3>3. \A j \in 1 .. Len(a) : (a \o c)[j] = a[j] BY <3>1
    <3>4. \A j \in 1 .. Len(c) : (a \o c)[Len(a) + j] = c[j] BY <3>1
    <3>5. Holds(a \o c, seqs, n)
      <4>1. Len(a) \in Nat /\ DOMAIN c = 1 .. Len(c) BY <3>1
      <4>2. Len(a) + Len(c) <= Len(a \o c) BY <3>1, <3>2
      <4>3. \A k \in DOMAIN c : (a \o c)[Len(a) + k] = c[k] BY <3>4, <4>1
      <4>4. QED BY <4>1, <4>2, <4>3 DEF Holds
    <3>6. ASSUME NEW i \in 1 .. n - 1 PROVE Holds(a \o c, seqs, i)
      <4>1. PICK off \in Nat : /\ off + Len(seqs[i]) <= Len(a)
                               /\ \A k \in DOMAIN seqs[i] : a[off + k] = seqs[i][k]
        BY <3>1 DEF Holds
      <4>2. seqs[i] \in Seq(T) BY <1>0
      <4>3. \A k \in DOMAIN seqs[i] : off + k \in 1 .. Len(a)
        <5>1. Len(a) \in Nat /\ Len(seqs[i]) \in Nat /\ DOMAIN seqs[i] = 1 .. Len(seqs[i]) BY <3>1, <4>2
        <5>2. \A n1, n2 \in Nat : \A k \in 1 .. n1 : off + n1 <= n2 => off + k \in 1 .. n2 OBVIOUS
        <5>3. QED BY <4>1, <5>1, <5>2
      <4>4. \A k \in DOMAIN seqs[i] : (a \o c)[off + k] = seqs[i][k] BY <3>3, <4>1, <4>3
      <4>5. off + Len(seqs[i]) <= Len(a \o c) BY <3>1, <3>2, <4>1, <4>2
      <4>6. QED BY <4>4, <4>5 DEF Holds
    <3>7. ASSUME NEW j \in DOMAIN (a \o c)
          PROVE  \E i \in 1 .. n : \E k \in DOMAIN seqs[i] : (a \o c)[j] = seqs[i][k]
      <4>1. j \in 1 .. Len(a) + Len(c) /\ Len(a) \in Nat /\ Len(c) \in Nat BY <3>1, <3>2, <3>7
      <4>2. CASE j \in 1 .. Len(a)
        <5>0. j \in DOMAIN a BY <3>1, <4>2
        <5>1. PICK i \in 1 .. n - 1 : \E k \in DOMAIN seqs[i] : a[j] = seqs[i][k] BY <3>1, <5>0 DEF From
        <5>2. i \in 1 .. n OBVIOUS
        <5>3. QED BY <3>3, <4>2, <5>1, <5>2
      <4>3. CASE j \notin 1 .. Len(a)
        <5>1. j - Len(a) \in 1 .. Len(c) /\ j = Len(a) + (j - Len(a)) BY <4>1, <4>3
        <5>2. (a \o c)[j] = c[j - Len(a)] BY <3>4, <5>1
        <5>3. j - Len(a) \in DOMAIN c BY <3>1, <5>1
        <5>4. n \in 1 .. n OBVIOUS
        <5>5. QED BY <5>2, <5>3, <5>4
      <4>4. QED BY <4>2, <4>3
    <3>8. \A i \in 1 .. n : i = n \/ i \in 1 .. n - 1 OBVIOUS
    <3>9. From(a \o c, seqs, n) BY <3>7 DEF From
    <3>10. \A i \in 1 .. n : Holds(a \o c, seqs, i) BY <3>5, <3>6, <3>8
    <3>11. QED BY <3>1, <3>2, <3>9, <3>10
  <2>4. QED BY <2>2, <2>3
<1>2. 0 \in S BY <1>0
<1>3. ASSUME NEW i \in 1 .. Len(seqs), i - 1 \in S PROVE i \in S
  <2>1. i = 1 \/ Good(i - 1) BY <1>3
  <2>2. Good(i) BY <1>1, <2>1
  <2>3. QED BY <2>2
<1>4. \A i \in 0 .. Len(seqs) : i \in S
  <2> HIDE DEF S
  <2>1. QED BY <1>0, <1>2, <1>3, UpTo
<1>5. QED
  <2>1. ASSUME NEW n \in 1 .. Len(seqs) PROVE Good(n)
    <3>1. n \in S /\ n # 0 BY <1>4
    <3>2. QED BY <3>1
  <2>2. QED BY <2>1

LEMMA FlattenFacts ==
  ASSUME NEW T, NEW seqs \in Seq(Seq(T))
  PROVE  /\ FlattenSeq(seqs) \in Seq(T)
         /\ From(FlattenSeq(seqs), seqs, Len(seqs))
         /\ \A i \in 1 .. Len(seqs) : Holds(FlattenSeq(seqs), seqs, i)
<1>0. Len(seqs) \in Nat OBVIOUS
<1>1. CASE Len(seqs) = 0
  <2>1. FlattenSeq(seqs) = seqs /\ seqs = << >> BY <1>1 DEF FlattenSeq
  <2>2. From(<< >>, seqs, 0) BY DEF From
  <2>3. << >> \in Seq(T) OBVIOUS
  <2>4. QED BY <1>1, <2>1, <2>2, <2>3
<1>2. CASE Len(seqs) # 0
  <2>1. PICK flat : IsFlat(seqs, flat, Len(seqs)) /\ FlattenSeq(seqs) = flat[Len(seqs)] BY <1>2, FlattenIsFlat
  <2>2. Len(seqs) \in 1 .. Len(seqs) BY <1>0, <1>2
  <2>3. QED BY <2>1, <2>2, FlatHolds
<1>3. QED BY <1>1, <1>2

-----------------------------------------------------------------------------
\* A root and the directories on the way down to it.

Cuts(root) == {i \in DOMAIN root.text : root.text[i] = Separator(root)}
Absolute(root) == /\ root.text \in Seq(Range(root.text)) /\ Cuts(root) # {}
                  /\ Len(root.text) \in Cuts(root) => Cuts(root) = {Len(root.text)}
Related(left, right) == RootRelation(left, right) \in {"equal", "descendant"}

LEMMA RelatedIsPrefix ==
  ASSUME NEW left, NEW right, left.platform = right.platform, left.text # right.text
  PROVE  Related(left, right) <=>
           IsTextPrefix(IF right.text[Len(right.text)] = Separator(left) THEN right.text
                        ELSE Append(right.text, Separator(left)), left.text)
BY DEF Related, RootRelation, Last

\* What begins like the way down to a root is on that way.
LEMMA InsideIsRelated ==
  ASSUME NEW left, NEW right, left.text \in Seq(Range(left.text)), Inside(left, right)
  PROVE  Related(left, right)
<1> DEFINE text == left.text   sep == Separator(left)
<1>1. left.platform = right.platform /\ right.text \in Way(left) BY DEF Inside
<1>2. CASE left.text = right.text BY <1>1, <1>2 DEF Related, RootRelation
<1>3. CASE left.text # right.text
  <2>1. PICK i \in Cuts(left) :
          right.text = SubSeq(text, 1, IF \A j \in Cuts(left) : i <= j THEN i ELSE i - 1)
    BY <1>1, <1>3 DEF Way, Cuts
  <2>2. i \in 1 .. Len(text) /\ text[i] = sep /\ text \in Seq(Range(text)) BY <2>1 DEF Cuts
  <2>0. Len(text) \in Nat /\ i \in Nat BY <2>2
  <2> HIDE DEF text, sep
  <2>3. CASE \A j \in Cuts(left) : i <= j
    <3>1. right.text = SubSeq(text, 1, i) BY <2>1, <2>3
    <3>2. Len(SubSeq(text, 1, i)) = i /\ SubSeq(text, 1, i)[i] = text[i] BY <2>2
    <3>3. right.text[Len(right.text)] = sep BY <2>2, <3>1, <3>2
    <3>4. IsTextPrefix(right.text, text) BY <2>0, <2>2, <3>1, <3>2 DEF IsTextPrefix
    <3>5. QED BY <1>1, <1>3, <3>3, <3>4, RelatedIsPrefix DEF text, sep
  <2>4. CASE \E j \in Cuts(left) : ~(i <= j)
    <3>1. right.text = SubSeq(text, 1, i - 1) BY <2>1, <2>4
    <3>2. PICK j \in Cuts(left) : ~(i <= j) BY <2>4
    <3>3. i - 1 \in 1 .. Len(text) BY <2>0, <2>2, <3>2 DEF Cuts, text
    <3>4. Len(SubSeq(text, 1, i - 1)) = i - 1 /\ SubSeq(text, 1, i - 1) \in Seq(Range(text)) BY <2>2, <3>3
    <3>5. CASE right.text[Len(right.text)] = sep
      <4>1. IsTextPrefix(right.text, text) BY <2>0, <3>1, <3>3, <3>4 DEF IsTextPrefix
      <4>2. QED BY <1>1, <1>3, <3>5, <4>1, RelatedIsPrefix DEF text, sep
    <3>6. CASE right.text[Len(right.text)] # sep
      <4> DEFINE p == Append(SubSeq(text, 1, i - 1), sep)
      <4>1. sep \in Range(text) BY <2>2 DEF Range
      <4>2. SubSeq(text, 1, i) = p BY <2>2, <3>3, <4>1
      <4>3. Len(p) = i BY <2>2, <4>2
      <4>4. IsTextPrefix(p, text) BY <2>0, <2>2, <4>2, <4>3 DEF IsTextPrefix
      <4>5. QED BY <1>1, <1>3, <3>1, <3>6, <4>4, RelatedIsPrefix DEF text, sep
    <3>7. QED BY <3>5, <3>6
  <2>5. QED BY <2>3, <2>4
<1>4. QED BY <1>2, <1>3

LEMMA RelatedIsInside ==
  ASSUME NEW left, NEW right, Absolute(left), Absolute(right), Related(left, right)
  PROVE  Inside(left, right)
<1> DEFINE text == left.text   sep == Separator(left)   short == right.text   n == Len(short)
<1>1. left.platform = right.platform /\ sep = Separator(right) BY DEF Related, RootRelation, Separator
<1>2. CASE left.text = right.text BY <1>1, <1>2 DEF Inside, Way
<1>3. CASE left.text # right.text
  <2>1. IsTextPrefix(IF short[n] = sep THEN short ELSE Append(short, sep), text)
    BY <1>1, <1>3, RelatedIsPrefix
  <2>2. /\ text \in Seq(Range(text)) /\ short \in Seq(Range(short))
        /\ Len(text) \in Nat /\ n \in Nat /\ DOMAIN text = 1 .. Len(text) /\ DOMAIN short = 1 .. n
    BY DEF Absolute
  <2>3. PICK c \in Cuts(right) : TRUE BY DEF Absolute
  <2>4. c \in 1 .. n /\ short[c] = sep BY <1>1, <2>2, <2>3 DEF Cuts
  <2>5. n \in 1 .. n /\ n >= c BY <2>2, <2>4
  <2>6. ASSUME NEW i \in Cuts(left), short = SubSeq(text, 1, IF \A j \in Cuts(left) : i <= j THEN i ELSE i - 1)
        PROVE  Inside(left, right)
    BY <1>1, <2>6 DEF Inside, Way, Cuts
  <2> HIDE DEF text, sep, short
  <2>7. CASE short[n] = sep
    <3>1. n <= Len(text) /\ short = SubSeq(text, 1, n) BY <2>1, <2>7 DEF IsTextPrefix
    <3>2. \A j \in 1 .. n : short[j] = text[j] BY <2>2, <3>1
    <3>3. n \in Cuts(left) BY <2>2, <2>5, <2>7, <3>1, <3>2 DEF Cuts, text, sep
    <3>4. Cuts(right) = {n} BY <1>1, <2>2, <2>5, <2>7 DEF Absolute, Cuts, short
    <3>5. ASSUME NEW j \in Cuts(left), ~(n <= j) PROVE FALSE
      <4>1. j \in 1 .. Len(text) /\ text[j] = sep BY <2>2 DEF Cuts, text, sep
      <4>2. j \in 1 .. n /\ short[j] = sep BY <2>2, <3>2, <3>5, <4>1
      <4>3. j \in Cuts(right) BY <1>1, <2>2, <4>2 DEF Cuts, short
      <4>4. QED BY <3>4, <3>5, <4>2, <4>3
    <3>6. \A j \in Cuts(left) : n <= j BY <3>5
    <3>7. short = SubSeq(text, 1, IF \A j \in Cuts(left) : n <= j THEN n ELSE n - 1) BY <3>1, <3>6
    <3>8. QED BY <2>6, <3>3, <3>7
  <2>8. CASE short[n] # sep
    <3> DEFINE p == Append(short, sep)
    <3>1. Len(p) = n + 1 /\ (\A j \in 1 .. n : p[j] = short[j]) /\ p[n + 1] = sep BY <2>2
    <3>2. n + 1 <= Len(text) /\ p = SubSeq(text, 1, n + 1) BY <2>1, <2>8, <3>1 DEF IsTextPrefix
    <3> HIDE DEF p
    <3>3. \A j \in 1 .. n + 1 : p[j] = text[j] BY <2>2, <3>2
    <3>4. \A j \in 1 .. n : short[j] = text[j]
      <4>1. \A j \in 1 .. n : j \in 1 .. n + 1 BY <2>2
      <4>2. QED BY <3>1, <3>3, <4>1
    <3>5. n + 1 \in Cuts(left)
      <4>1. n + 1 \in 1 .. Len(text) /\ n + 1 \in 1 .. n + 1 BY <2>2, <3>2
      <4>2. text[n + 1] = sep BY <3>1, <3>3, <4>1
      <4>3. QED BY <2>2, <4>1, <4>2 DEF Cuts, text, sep
    <3>6. c \in Cuts(left) /\ ~(n + 1 <= c)
      <4>1. c \in 1 .. Len(text) /\ text[c] = sep BY <2>2, <2>4, <3>2, <3>4
      <4>2. QED BY <2>2, <2>5, <4>1 DEF Cuts, text, sep
    <3>7. short = SubSeq(text, 1, n)
      <4>1. Len(SubSeq(text, 1, n)) = n /\ \A j \in 1 .. n : SubSeq(text, 1, n)[j] = text[j] BY <2>2, <3>2
      <4>2. SubSeq(text, 1, n) \in Seq(Range(text)) BY <2>2, <3>2
      <4>3. short = [j \in 1 .. n |-> short[j]] /\ SubSeq(text, 1, n) = [j \in 1 .. n |-> SubSeq(text, 1, n)[j]]
        BY <2>2, <4>1, <4>2
      <4>4. QED BY <3>4, <4>1, <4>3
    <3>8. (n + 1) - 1 = n BY <2>2
    <3>9. short = SubSeq(text, 1, IF \A j \in Cuts(left) : n + 1 <= j THEN n + 1 ELSE (n + 1) - 1)
      BY <3>6, <3>7, <3>8
    <3>10. QED BY <2>6, <3>5, <3>9
  <2>9. QED BY <2>7, <2>8
<1>4. QED BY <1>2, <1>3

-----------------------------------------------------------------------------
\* The members and their roots, as far as they were accepted.

RootsOf(o) == {<<"stateRoot", o.stateRoot>>, <<"lockRoot", o.lockRoot>>}
Grounded(c) == Well(c) /\ c.required \subseteq c.diagnostics

LEMMA GroundedStays ==
  ASSUME NEW c, Grounded(c)
  PROVE  /\ \A v : Grounded(Report(c, v))
         /\ \A q : \A direct \in BOOLEAN : Grounded(Unavailable(c, q, direct))
         /\ Grounded(LeaveUnevaluated(c))
         /\ \A n : Grounded(n) => Grounded(Merge(c, n))
<1>1. PICK U : c \in ContextType(U, {}) BY DEF Grounded, Well
<1>2. ASSUME NEW v PROVE Grounded(Report(c, v))
  <2>1. Well(Report(c, v)) BY ReportFacts DEF Onward, Grounded
  <2>2. QED BY <1>1, <2>1 DEF Grounded, Report, ContextType
<1>3. ASSUME NEW q, NEW direct \in BOOLEAN PROVE Grounded(Unavailable(c, q, direct))
  <2>1. Well(Unavailable(c, q, direct)) BY UnavailableFacts DEF Onward, Grounded
  <2>2. QED BY <1>1, <2>1 DEF Grounded, Unavailable, ContextType
<1>4. Grounded(LeaveUnevaluated(c))
  <2>1. Well(LeaveUnevaluated(c)) BY LeaveFacts DEF Onward, Grounded
  <2>2. QED BY <1>1, <2>1 DEF Grounded, LeaveUnevaluated, ContextType
<1>5. ASSUME NEW n, Grounded(n) PROVE Grounded(Merge(c, n))
  <2>1. Well(Merge(c, n)) BY <1>5, MergeFacts DEF Onward, Grounded
  <2>2. PICK V : n \in ContextType(V, {}) BY <1>5 DEF Grounded, Well
  <2>3. QED BY <1>1, <1>5, <2>1, <2>2 DEF Grounded, Merge, ContextType
<1>6. QED BY <1>2, <1>3, <1>4, <1>5

LEMMA NewGrounded == Grounded(NewContext)
BY NewFacts DEF Grounded, NewContext

LEMMA ProveScopeGrounded ==
  ASSUME NEW c, Grounded(c), NEW q, NEW included, NEW open \in BOOLEAN
  PROVE  Grounded(ProveScope(c, q, included, open))
<1>1. CASE open BY <1>1, GroundedStays DEF ProveScope
<1>2. CASE ~open BY <1>2, GroundedStays DEF ProveScope
<1>3. QED BY <1>1, <1>2

LEMMA JudgeBundleGrounded ==
  ASSUME NEW c, Grounded(c), NEW b, NEW silent PROVE Grounded(JudgeBundle(c, b, silent))
<1> DEFINE judged == Report(c, Violated(ReferenceRules(b) \cup OverlapRules(b) \cup RoutingRules(b))
                                 \cup Duplicates(b.policy.rules, silent))
<1>1. Grounded(judged) BY GroundedStays
<1>2. JudgeBundle(c, b, silent) = judged
        \/ JudgeBundle(c, b, silent) = Unavailable(judged, "PROOF.RULE_PROJECTION", TRUE)
  BY DEF JudgeBundle
<1> HIDE DEF judged
<1>3. Grounded(Unavailable(judged, "PROOF.RULE_PROJECTION", TRUE)) BY <1>1, GroundedStays
<1>4. QED BY <1>1, <1>2, <1>3

LEMMA JudgeOverlayGrounded ==
  ASSUME NEW c, Grounded(c), NEW o, NEW b, NEW open \in BOOLEAN
  PROVE  Grounded(JudgeOverlay(c, o, b, open))
<1>1. Grounded(Report(c, Violated(OverlayRules(o, b)))) BY GroundedStays
<1>2. QED BY <1>1, ProveScopeGrounded DEF JudgeOverlay

\* The nested call on a member.
Nested(m, silent, open) ==
  IF JudgeBundle(NewContext, m.bundle, silent).failed
  THEN LeaveUnevaluated(JudgeBundle(NewContext, m.bundle, silent))
  ELSE JudgeOverlay(JudgeBundle(NewContext, m.bundle, silent), m.overlay, m.bundle, open)

LEMMA NestedGrounded ==
  ASSUME NEW m, NEW silent, NEW open \in BOOLEAN PROVE Grounded(Nested(m, silent, open))
<1>1. Grounded(JudgeBundle(NewContext, m.bundle, silent)) BY NewGrounded, JudgeBundleGrounded
<1>2. QED BY <1>1, GroundedStays, JudgeOverlayGrounded DEF Nested

Alien(m) == {"PROOF.SNAPSHOT" : x \in {m.overlay.host} \ {submission.overlay.host}}

LEMMA MemberStep ==
  ASSUME ValidateMember
  PROVE  \E silent \in Silent("comparison", Comparisons(submission.members[member].bundle)), open \in BOOLEAN :
           LET m == submission.members[member]
               accepted == Verdict(Nested(m, silent, open)) = "PASS"
           IN /\ ctx' = Report(Merge(ctx, Nested(m, silent, open)), Alien(m))
              /\ validated' = IF accepted THEN Append(validated, m) ELSE validated
              /\ roots' = IF accepted THEN roots \cup RootsOf(m.overlay) ELSE roots
<1> DEFINE m == submission.members[member]
<1>1. PICK silent \in Silent("comparison", Comparisons(m.bundle)),
           open \in {"paths" \in submission.unreliable, FALSE} :
         /\ ctx' = Report(Merge(ctx, Nested(m, silent, open)), Alien(m))
         /\ validated' = IF Verdict(Nested(m, silent, open)) = "PASS" THEN Append(validated, m) ELSE validated
         /\ roots' = IF Verdict(Nested(m, silent, open)) = "PASS"
                     THEN roots \cup RootsOf(m.overlay) ELSE roots
  BY DEF ValidateMember, Nested, Alien, RootsOf
<1>2. open \in BOOLEAN
  <2>1. ("paths" \in submission.unreliable) \in BOOLEAN OBVIOUS
  <2>2. QED BY <1>1, <2>1
<1>3. QED BY <1>1, <1>2

\* A call that neither failed nor left a predicate open accepted every member
\* so far, and each is of its host.
Whole(n) ==
  /\ Len(validated) = n
  /\ \A i \in 1 .. n : /\ validated[i] = submission.members[i]
                       /\ submission.members[i].overlay.host = submission.overlay.host

Sane(c) == ~c.failed /\ ~c.unevaluated
Joined == Violated(UnionRules(OverlaysOf(validated), roots \cup submission.trustedRoots)) = {}

Snapshot ==
  /\ submission \in Submissions
  /\ phase \in {"bundle", "overlay", "members", "bindings", "done"}
  /\ member \in 1 .. Len(submission.members) + 1
  /\ validated \in Seq(Range(submission.members)) /\ Len(validated) < member
  /\ Cardinality(roots) <= 2 * Len(validated) /\ IsFiniteSet(roots)
  /\ roots = UNION {RootsOf(m.overlay) : m \in Range(validated)}
  /\ Grounded(ctx)
  /\ phase \in {"bundle", "overlay"} => member = 1
  /\ phase \in {"bundle", "overlay", "members"} /\ Sane(ctx) => Whole(member - 1)
  /\ phase = "bindings" => Sane(ctx)
  /\ phase = "bindings" \/ (phase = "done" /\ Untainted(ctx)) => Whole(Len(submission.members)) /\ Joined

LEMMA InitSnapshot == Init => Snapshot
<1> SUFFICES ASSUME Init PROVE Snapshot OBVIOUS
<1>1. /\ submission \in Submissions /\ phase = "bundle" /\ member = 1 /\ validated = << >>
      /\ roots = {} /\ ctx = NewContext
  BY DEF Init
<1>2. Len(submission.members) \in Nat BY <1>1, SubmissionsAssumption
<1>3. Cardinality(roots) = 0 /\ IsFiniteSet(roots) BY <1>1, FS_EmptySet
<1>4. Len(validated) = 0 /\ Range(validated) = {} /\ validated \in Seq(Range(submission.members))
  BY <1>1 DEF Range
<1>5. Whole(0) BY <1>4 DEF Whole
<1>6. QED BY <1>1, <1>2, <1>3, <1>4, <1>5, NewGrounded DEF Snapshot

LEMMA MemberSnapshot ==
  ASSUME Snapshot, ValidateMember, submission' = submission PROVE Snapshot'
<1> DEFINE m == submission.members[member]
           n == Len(submission.members)
<1>1. phase = "members" /\ phase' = "members" /\ member <= n /\ member' = member + 1
  BY DEF ValidateMember
<1>2. n \in Nat /\ DOMAIN submission.members = 1 .. n BY SubmissionsAssumption DEF Snapshot
<1>3. member \in 1 .. n /\ m \in Range(submission.members)
  <2>1. member \in 1 .. n BY <1>1, <1>2 DEF Snapshot
  <2>2. QED BY <1>2, <2>1 DEF Range
<1>4. PICK silent \in Silent("comparison", Comparisons(m.bundle)), open \in BOOLEAN :
        /\ ctx' = Report(Merge(ctx, Nested(m, silent, open)), Alien(m))
        /\ validated' = IF Verdict(Nested(m, silent, open)) = "PASS" THEN Append(validated, m) ELSE validated
        /\ roots' = IF Verdict(Nested(m, silent, open)) = "PASS" THEN roots \cup RootsOf(m.overlay) ELSE roots
  BY MemberStep
<1> DEFINE k == Nested(m, silent, open)
<1>5. Grounded(k) BY NestedGrounded
<1>6. /\ ctx' = Report(Merge(ctx, k), Alien(m))
      /\ \/ Verdict(k) = "PASS" /\ validated' = Append(validated, m) /\ roots' = roots \cup RootsOf(m.overlay)
         \/ Verdict(k) # "PASS" /\ validated' = validated /\ roots' = roots
  BY <1>4
<1> HIDE DEF k
<1>7. Grounded(ctx')
  <2>1. Grounded(Merge(ctx, k)) BY <1>5, GroundedStays DEF Snapshot
  <2>2. QED BY <1>6, <2>1, GroundedStays
<1>8. Sane(ctx)' => Sane(ctx) /\ Verdict(k) = "PASS" /\ m.overlay.host = submission.overlay.host
  <2>1. Grounded(Merge(ctx, k)) /\ Grounded(ctx) BY <1>5, GroundedStays DEF Snapshot
  <2>2. PICK U : Merge(ctx, k) \in ContextType(U, {}) BY <2>1 DEF Grounded, Well
  <2>3. PICK V : ctx \in ContextType(V, {}) BY <2>1 DEF Grounded, Well
  <2>4. ctx'.failed = (Merge(ctx, k).failed \/ Alien(m) # {}) /\ ctx'.unevaluated = Merge(ctx, k).unevaluated
    BY <1>6, <2>2 DEF Report, ContextType
  <2>5. /\ Merge(ctx, k).failed = (ctx.failed \/ Verdict(k) = "INVALID")
        /\ Merge(ctx, k).unevaluated = (ctx.unevaluated \/ Verdict(k) # "PASS")
    BY <2>3 DEF Merge, ContextType
  <2>6. Alien(m) = {} => m.overlay.host = submission.overlay.host BY DEF Alien
  <2>7. QED BY <2>4, <2>5, <2>6 DEF Sane
<1> HIDE DEF m
<1>9. /\ validated' \in Seq(Range(submission.members)) /\ Len(validated') < member'
      /\ Cardinality(roots') <= 2 * Len(validated') /\ IsFiniteSet(roots')
      /\ roots' = UNION {RootsOf(x.overlay) : x \in Range(validated')}
  <2>0. /\ validated \in Seq(Range(submission.members)) /\ Len(validated) < member /\ Len(validated) \in Nat
        /\ Cardinality(roots) <= 2 * Len(validated) /\ IsFiniteSet(roots)
        /\ roots = UNION {RootsOf(x.overlay) : x \in Range(validated)}
    BY DEF Snapshot
  <2>1. CASE validated' = validated /\ roots' = roots BY <1>1, <1>2, <1>3, <2>0, <2>1
  <2>2. CASE validated' = Append(validated, m) /\ roots' = roots \cup RootsOf(m.overlay)
    <3>1. validated' \in Seq(Range(submission.members)) /\ Len(validated') = Len(validated) + 1
      BY <1>3, <2>0, <2>2
    <3>2. Range(validated') = Range(validated) \cup {m}
      <4>1. \A i \in 1 .. Len(validated) : validated'[i] = validated[i] BY <1>3, <2>0, <2>2
      <4>2. validated'[Len(validated) + 1] = m BY <1>3, <2>0, <2>2
      <4>3. DOMAIN validated' = 1 .. Len(validated) + 1 /\ DOMAIN validated = 1 .. Len(validated)
        BY <2>0, <3>1
      <4>4. 1 .. Len(validated) + 1 = (1 .. Len(validated)) \cup {Len(validated) + 1} BY <2>0
      <4>5. QED BY <4>1, <4>2, <4>3, <4>4 DEF Range
    <3>3. roots' = UNION {RootsOf(x.overlay) : x \in Range(validated')} BY <2>0, <2>2, <3>2
    <3>4. roots' = (roots \cup {<<"stateRoot", m.overlay.stateRoot>>}) \cup {<<"lockRoot", m.overlay.lockRoot>>}
      BY <2>2 DEF RootsOf
    <3> DEFINE a == <<"stateRoot", m.overlay.stateRoot>>   c == <<"lockRoot", m.overlay.lockRoot>>
               once == roots \cup {a}
    <3> HIDE DEF a, c
    <3>5. /\ IsFiniteSet(once) /\ Cardinality(once) \in Nat
          /\ Cardinality(once) = IF a \in roots THEN Cardinality(roots) ELSE Cardinality(roots) + 1
      BY <2>0, FS_AddElement, FS_CardinalityType
    <3> HIDE DEF once
    <3>6. /\ IsFiniteSet(once \cup {c})
          /\ Cardinality(once \cup {c}) = IF c \in once THEN Cardinality(once) ELSE Cardinality(once) + 1
      BY <3>5, FS_AddElement
    <3>7. Cardinality(roots) \in Nat BY <2>0, FS_CardinalityType
    <3>8. roots' = once \cup {c} BY <3>4 DEF a, c, once
    <3>9. IsFiniteSet(roots') /\ Cardinality(roots') <= Cardinality(roots) + 2 BY <3>5, <3>6, <3>7, <3>8
    <3>10. Len(validated') < member' BY <1>1, <1>3, <2>0, <3>1
    <3>11. Cardinality(roots') <= 2 * Len(validated')
      <4>1. Cardinality(roots') \in Nat BY <3>9, FS_CardinalityType
      <4>2. QED BY <2>0, <3>1, <3>7, <3>9, <4>1
    <3>12. QED BY <3>1, <3>3, <3>9, <3>10, <3>11
  <2>3. QED BY <1>6, <2>1, <2>2
<1>10. Sane(ctx)' => Whole(member - 1)
  BY <1>1, <1>8 DEF Snapshot
<1>11. Sane(ctx)' => Whole(member - 1)'
  <2>1. SUFFICES ASSUME Sane(ctx)' PROVE Whole(member - 1)' OBVIOUS
  <2>2. /\ validated' = Append(validated, m) /\ m.overlay.host = submission.overlay.host
        /\ validated \in Seq(Range(submission.members)) /\ Len(validated) = member - 1
        /\ \A i \in 1 .. member - 1 : /\ validated[i] = submission.members[i]
                                      /\ submission.members[i].overlay.host = submission.overlay.host
    BY <1>6, <1>8, <1>10, <2>1 DEF Snapshot, Whole
  <2>3. member' - 1 = member /\ member \in Nat BY <1>1, <1>3
  <2>4. Len(validated') = member /\ validated'[member] = m BY <1>3, <2>2, <2>3
  <2>5. \A i \in 1 .. member - 1 : validated'[i] = validated[i] BY <1>3, <2>2
  <2>6. ASSUME NEW i \in 1 .. member
        PROVE  /\ validated'[i] = submission.members[i]
               /\ submission.members[i].overlay.host = submission.overlay.host
    <3>1. i = member \/ i \in 1 .. member - 1 BY <2>3
    <3>2. QED BY <2>2, <2>4, <2>5, <3>1 DEF m
  <2>7. QED BY <2>3, <2>4, <2>6 DEF Whole
<1>12. member' \in 1 .. n + 1 BY <1>1, <1>2, <1>3
<1> HIDE DEF Whole, Sane
<1>13. QED BY <1>1, <1>7, <1>9, <1>11, <1>12 DEF Snapshot

\* What the other steps do to what they leave alone.
LEMMA AnswerSnapshot ==
  ASSUME Snapshot, UNCHANGED <<submission, member, validated, roots>>,
         Grounded(ctx'), phase' = "done",
         Untainted(ctx') => Whole(Len(submission.members)) /\ Joined
  PROVE  Snapshot'
BY DEF Snapshot, Whole, Joined

LEMMA OtherSnapshot ==
  ASSUME Snapshot, CheckBundle \/ CheckOverlay \/ CheckUnion \/ CheckContractBindings PROVE Snapshot'
<1>0. UNCHANGED <<submission, member, validated, roots>>
  BY DEF CheckBundle, CheckOverlay, CheckUnion, CheckContractBindings
<1>1. CASE CheckBundle
  <2>1. PICK silent :
          LET judged == JudgeBundle(ctx, submission.bundle, silent)
          IN IF judged.failed THEN Answer(LeaveUnevaluated(judged)) ELSE phase' = "overlay" /\ ctx' = judged
    BY <1>1 DEF CheckBundle
  <2> DEFINE k == JudgeBundle(ctx, submission.bundle, silent)
  <2>2. Grounded(k) /\ Onward(k, ctx) BY JudgeBundleGrounded, JudgeBundleFacts DEF Snapshot, Grounded
  <2>3. \/ k.failed /\ phase' = "done" /\ ctx' = LeaveUnevaluated(k)
        \/ ~k.failed /\ phase' = "overlay" /\ ctx' = k
    BY <2>1 DEF Answer
  <2> HIDE DEF k
  <2>4. CASE phase' = "done" /\ ctx' = LeaveUnevaluated(k)
    <3>1. Grounded(ctx') /\ ~Untainted(ctx') BY <2>2, <2>4, GroundedStays, LeaveFacts DEF Grounded
    <3>2. QED BY <1>0, <2>4, <3>1, AnswerSnapshot
  <2>5. CASE ~k.failed /\ phase' = "overlay" /\ ctx' = k
    <3>1. member = 1 BY <1>1 DEF CheckBundle, Snapshot
    <3>2. Whole(0)'
      <4>1. Len(validated) = 0
        BY <1>0, <3>1 DEF Snapshot
      <4>2. QED BY <1>0, <4>1 DEF Whole
    <3>3. member' - 1 = 0 BY <1>0, <3>1
    <3>4. QED BY <1>0, <2>2, <2>5, <3>1, <3>2, <3>3 DEF Snapshot
  <2>6. QED BY <2>3, <2>4, <2>5
<1>2. CASE CheckOverlay
  <2>1. PICK open \in {"paths" \in submission.unreliable, FALSE} :
          LET judged == JudgeOverlay(ctx, submission.overlay, submission.bundle, open)
          IN IF judged.failed THEN Answer(judged) ELSE phase' = "members" /\ ctx' = judged
    BY <1>2 DEF CheckOverlay
  <2>a. open \in BOOLEAN
    <3>1. ("paths" \in submission.unreliable) \in BOOLEAN OBVIOUS
    <3>2. QED BY <2>1, <3>1
  <2> DEFINE k == JudgeOverlay(ctx, submission.overlay, submission.bundle, open)
  <2>2. Grounded(k) BY <2>a, JudgeOverlayGrounded DEF Snapshot
  <2>3. \/ k.failed /\ phase' = "done" /\ ctx' = k
        \/ ~k.failed /\ phase' = "members" /\ ctx' = k
    BY <2>1 DEF Answer
  <2> HIDE DEF k
  <2>4. CASE k.failed /\ phase' = "done" /\ ctx' = k
    BY <1>0, <2>2, <2>4, AnswerSnapshot DEF Untainted
  <2>5. CASE ~k.failed /\ phase' = "members" /\ ctx' = k
    <3>1. member = 1 BY <1>2 DEF CheckOverlay, Snapshot
    <3>2. Whole(0)'
      <4>1. Len(validated) = 0
        BY <1>0, <3>1 DEF Snapshot
      <4>2. QED BY <1>0, <4>1 DEF Whole
    <3>3. member' - 1 = 0 BY <1>0, <3>1
    <3>4. QED BY <1>0, <2>2, <2>5, <3>1, <3>2, <3>3 DEF Snapshot
  <2>6. QED BY <2>3, <2>4, <2>5
<1>3. CASE CheckUnion
  <2> DEFINE found == Violated(UnionRules(OverlaysOf(validated), roots \cup submission.trustedRoots))
             k == Report(ctx, found)
             lost == Report(k, {"PROOF.SNAPSHOT"})
             own == [overlay |-> submission.overlay, bundle |-> submission.bundle]
  <2>1. /\ phase = "members" /\ member > Len(submission.members)
        /\ IF ctx.failed \/ ctx.unevaluated THEN Answer(ctx)
           ELSE IF k.failed THEN Answer(k)
           ELSE IF own \notin Range(validated) THEN Answer(lost)
           ELSE phase' = "bindings" /\ ctx' = k
    BY <1>3 DEF CheckUnion, OverlaysOf
  <2>2. Grounded(ctx) /\ Grounded(k) BY GroundedStays DEF Snapshot
  <2>3. Onward(k, ctx) /\ (~k.failed => found = {}) BY <2>2, ReportFacts DEF Grounded
  <2>x. k.unevaluated = ctx.unevaluated
    <3>1. PICK U : ctx \in ContextType(U, {}) BY <2>2 DEF Grounded, Well
    <3>2. QED BY <3>1 DEF Report, ContextType
  <2>4. found = {} => Joined BY DEF Joined
  <2> HIDE DEF found, own
  <2>5. CASE (ctx.failed \/ ctx.unevaluated) /\ phase' = "done" /\ ctx' = ctx
    BY <1>0, <2>2, <2>5, AnswerSnapshot DEF Untainted
  <2> HIDE DEF k
  <2>6. CASE k.failed /\ phase' = "done" /\ ctx' = k
    BY <1>0, <2>2, <2>6, AnswerSnapshot DEF Untainted
  <2>7. CASE phase' = "done" /\ ctx' = lost
    <3>1. Grounded(lost) /\ lost.failed BY <2>2, GroundedStays, ReportFacts DEF Grounded
    <3>2. QED BY <1>0, <2>7, <3>1, AnswerSnapshot DEF Untainted
  <2>8. CASE ~ctx.failed /\ ~ctx.unevaluated /\ ~k.failed /\ phase' = "bindings" /\ ctx' = k
    <3>1. Sane(ctx) /\ Sane(k) BY <2>x, <2>8 DEF Sane
    <3>2. Len(submission.members) \in Nat /\ member = Len(submission.members) + 1
      BY <2>1, SubmissionsAssumption DEF Snapshot
    <3>3. member - 1 = Len(submission.members) BY <3>2
    <3>4. Whole(Len(submission.members)) BY <2>1, <3>1, <3>3 DEF Snapshot
    <3>5. (Whole(Len(submission.members)) /\ Joined)'
      BY <1>0, <2>3, <2>4, <2>8, <3>4 DEF Whole, Joined
    <3>6. Sane(ctx)' BY <2>8, <3>1 DEF Sane
    <3>7. QED BY <1>0, <2>2, <2>8, <3>5, <3>6 DEF Snapshot
  <2>9. QED BY <2>1, <2>5, <2>6, <2>7, <2>8 DEF Answer
<1>4. CASE CheckContractBindings
  <2> DEFINE k == submission.contract   o == submission.overlay   b == submission.bundle
             judged == Report(ctx, Violated(BindingRules(k, o, b)))
             Within(x) == ProveScope(judged, "CONTRACT.UPSTREAM", k.withinDomains, x)
             All(x, y) == ProveScope(Within(x), "CONTRACT.UPSTREAM", k.withinCeiling, y)
  <2>1. /\ phase = "bindings"
        /\ \/ Answer(Report(ctx, {"CONTRACT.UPSTREAM"}))
           \/ \E open : Answer(All("domains" \in open, "ceiling" \in open))
    BY <1>4 DEF CheckContractBindings
  <2>2. Grounded(Report(ctx, {"CONTRACT.UPSTREAM"})) /\ Grounded(judged) BY GroundedStays DEF Snapshot
  <2> HIDE DEF judged
  <2>3. \A x \in BOOLEAN : Grounded(Within(x)) BY <2>2, ProveScopeGrounded
  <2> HIDE DEF Within
  <2>4. \A x, y \in BOOLEAN : Grounded(All(x, y)) BY <2>3, ProveScopeGrounded
  <2> HIDE DEF All
  <2>5. \A open : ("domains" \in open) \in BOOLEAN /\ ("ceiling" \in open) \in BOOLEAN OBVIOUS
  <2>6. phase' = "done" /\ Grounded(ctx') BY <2>1, <2>2, <2>4, <2>5 DEF Answer
  <2>7. QED BY <1>0, <2>1, <2>6, AnswerSnapshot DEF Snapshot
<1>5. QED BY <1>1, <1>2, <1>3, <1>4

LEMMA NextSnapshot == Snapshot /\ [Next]_vars => Snapshot'
<1>1. SUFFICES ASSUME Snapshot, [Next]_vars PROVE Snapshot' OBVIOUS
<1>2. CASE UNCHANGED vars BY <1>1, <1>2 DEF vars, Snapshot, Whole, Sane, Joined
<1>3. CASE ValidateMember
  <2>1. submission' = submission BY <1>3 DEF ValidateMember
  <2>2. QED BY <1>1, <1>3, <2>1, MemberSnapshot
<1>4. CASE CheckBundle \/ CheckOverlay \/ CheckUnion \/ CheckContractBindings BY <1>1, <1>4, OtherSnapshot
<1>5. QED BY <1>1, <1>2, <1>3, <1>4 DEF Next

LEMMA SnapshotHolds == Spec => []Snapshot
BY InitSnapshot, NextSnapshot, PTL DEF Spec

LEMMA SnapshotTyped == Snapshot => TypeOK
<1>1. SUFFICES ASSUME Snapshot PROVE TypeOK OBVIOUS
<1>2. PICK U : ctx \in ContextType(U, {}) BY <1>1 DEF Snapshot, Grounded, Well
<1>3. ctx.failed \in BOOLEAN /\ ctx.unevaluated \in BOOLEAN BY <1>2 DEF ContextType
<1>4. Range(validated) \subseteq Range(submission.members) BY <1>1 DEF Snapshot, Range
<1>5. QED BY <1>1, <1>3, <1>4 DEF Snapshot, Grounded, TypeOK

\* The variables have their types, for any submissions: members are accepted
\* in their order and no more often than they come, and a root is kept only
\* with the overlay that brings it (_validate_same_host_snapshot).
THEOREM TypeCorrect == Spec => []TypeOK
BY SnapshotHolds, SnapshotTyped, PTL

-----------------------------------------------------------------------------
\* The union of a host's overlays.

LEMMA NoneViolated ==
  ASSUME NEW R, \A x \in R : x[2] PROVE Violated(R) = {}
BY DEF Violated

Kinds == {"stateRoot", "lockRoot"}

\* The six rules of the union, as one says them of bindings and roots.
LEMMA UnionSays ==
  ASSUME NEW overlays, NEW coordination, \A c \in coordination : c[1] \in Kinds
  PROVE  Violated(UnionRules(overlays, coordination)) = {} <=>
           LET bs == Bindings(overlays)
           IN /\ \A i \in DOMAIN bs : bs[i].worktree \notin {bs[j].worktree : j \in 1 .. i - 1}
              /\ \A i \in DOMAIN bs : bs[i].root \notin {bs[j].root : j \in 1 .. i - 1}
              /\ \A c \in coordination : \A i \in DOMAIN bs : ~Related(c[2], bs[i].root)
<1> DEFINE bs == Bindings(overlays)
           apart(kind, relation) == \A c \in coordination : \A i \in DOMAIN bs :
             c[1] = kind => RootRelation(c[2], bs[i].root) # relation
           w == \A i \in DOMAIN bs : bs[i].worktree \notin {bs[j].worktree : j \in 1 .. i - 1}
           r == \A i \in DOMAIN bs : bs[i].root \notin {bs[j].root : j \in 1 .. i - 1}
           a1 == apart("stateRoot", "equal")
           a2 == apart("stateRoot", "descendant")
           a3 == apart("lockRoot", "equal")
           a4 == apart("lockRoot", "descendant")
           R == {<<"HX.A1", w>>, <<"HX.A2", r>>, <<"HX.B1", a1>>, <<"HX.B2", a2>>, <<"HX.B3", a3>>, <<"HX.B4", a4>>}
           far == \A c \in coordination : \A i \in DOMAIN bs : ~Related(c[2], bs[i].root)
<1>1. UnionRules(overlays, coordination) = R BY DEF UnionRules
<1>2. far <=> a1 /\ a2 /\ a3 /\ a4 BY DEF Related, Kinds
<1> HIDE DEF bs, apart, w, r, a1, a2, a3, a4, far
<1>3. ASSUME Violated(R) = {} PROVE w /\ r /\ a1 /\ a2 /\ a3 /\ a4
  <2>1. \A x \in R : x[2] BY <1>3, AllHold
  <2>2. QED BY <2>1
<1>4. ASSUME w, r, a1, a2, a3, a4 PROVE Violated(R) = {}
  <2>1. ASSUME NEW x \in R PROVE x[2]
    <3>1. CASE x = <<"HX.A1", w>> BY <1>4, <3>1, OneRule
    <3>2. CASE x = <<"HX.A2", r>> BY <1>4, <3>2, OneRule
    <3>3. CASE x = <<"HX.B1", a1>> BY <1>4, <3>3, OneRule
    <3>4. CASE x = <<"HX.B2", a2>> BY <1>4, <3>4, OneRule
    <3>5. CASE x = <<"HX.B3", a3>> BY <1>4, <3>5, OneRule
    <3>6. CASE x = <<"HX.B4", a4>> BY <1>4, <3>6, OneRule
    <3>7. QED BY <2>1, <3>1, <3>2, <3>3, <3>4, <3>5, <3>6
  <2>2. QED BY <2>1, NoneViolated
<1>5. Violated(R) = {} <=> w /\ r /\ far BY <1>2, <1>3, <1>4
<1>6. QED BY <1>1, <1>5 DEF w, r, far, bs

\* What the schema says of the paths of a submission.
LEMMA Paths ==
  ASSUME NEW s \in Submissions
  PROVE  /\ \A c \in s.trustedRoots : c[1] \in Kinds /\ Absolute(c[2])
         /\ \A m \in Range(s.members) :
              /\ m.overlay.bindings \in Seq(Range(m.overlay.bindings))
              /\ Absolute(m.overlay.stateRoot) /\ Absolute(m.overlay.lockRoot)
              /\ \A x \in Range(m.overlay.bindings) : Absolute(x.root)
BY RootsAssumption DEF Kinds, Absolute, Cuts

\* All the bindings of a host: each is one of a member's, and those of each
\* member stand beside one another.
LEMMA BindingsFacts ==
  ASSUME NEW s \in Submissions
  PROVE  LET bs == Bindings(OverlaysOf(s.members))
         IN /\ Len(bs) \in Nat /\ DOMAIN bs = 1 .. Len(bs)
            /\ \A j \in DOMAIN bs : \E m \in Range(s.members) : bs[j] \in Range(m.overlay.bindings)
            /\ \A m \in Range(s.members) : \E off \in Nat : \A k \in DOMAIN m.overlay.bindings :
                 off + k \in DOMAIN bs /\ bs[off + k] = m.overlay.bindings[k]
<1> DEFINE ms == s.members
           n == Len(ms)
           T == UNION {Range(m.overlay.bindings) : m \in Range(ms)}
           seqs == [i \in 1 .. n |-> ms[i].overlay.bindings]
           bs == FlattenSeq(seqs)
<1>1. n \in Nat /\ DOMAIN ms = 1 .. n BY SubmissionsAssumption
<1>2. Bindings(OverlaysOf(ms)) = bs
  <2>1. seqs = [i \in DOMAIN OverlaysOf(ms) |-> OverlaysOf(ms)[i].bindings] BY <1>1 DEF OverlaysOf
  <2>2. QED BY <2>1 DEF Bindings
<1>3. \A i \in 1 .. n : ms[i] \in Range(ms) BY <1>1 DEF Range
<1>4. ASSUME NEW i \in 1 .. n PROVE ms[i].overlay.bindings \in Seq(T)
  <2>1. ms[i].overlay.bindings \in Seq(Range(ms[i].overlay.bindings)) BY <1>3, Paths
  <2>2. Range(ms[i].overlay.bindings) \subseteq T BY <1>3
  <2> HIDE DEF T
  <2>3. QED BY <2>1, <2>2
<1>5. seqs \in Seq(Seq(T)) /\ Len(seqs) = n
  <2> HIDE DEF T
  <2>1. QED BY <1>1, <1>4
<1>6. \A i \in 1 .. n : seqs[i] = ms[i].overlay.bindings OBVIOUS
<1> HIDE DEF T, seqs, n
<1>7. /\ bs \in Seq(T) /\ From(bs, seqs, n) /\ \A i \in 1 .. n : Holds(bs, seqs, i)
  BY <1>5, FlattenFacts
<1>8. Len(bs) \in Nat /\ DOMAIN bs = 1 .. Len(bs) BY <1>7
<1> HIDE DEF bs
<1>9. ASSUME NEW j \in DOMAIN bs PROVE \E m \in Range(ms) : bs[j] \in Range(m.overlay.bindings)
  <2>1. PICK i \in 1 .. n : \E k \in DOMAIN seqs[i] : bs[j] = seqs[i][k] BY <1>7 DEF From
  <2>2. bs[j] \in Range(ms[i].overlay.bindings) BY <1>6, <2>1 DEF Range
  <2>3. QED BY <1>3, <2>2
<1>10. ASSUME NEW m \in Range(ms)
       PROVE  \E off \in Nat : \A k \in DOMAIN m.overlay.bindings :
                off + k \in DOMAIN bs /\ bs[off + k] = m.overlay.bindings[k]
  <2>1. PICK i \in 1 .. n : m = ms[i] BY <1>1 DEF Range
  <2>2. seqs[i] = m.overlay.bindings BY <1>6, <2>1
  <2>3. PICK off \in Nat : /\ off + Len(seqs[i]) <= Len(bs)
                           /\ \A k \in DOMAIN seqs[i] : bs[off + k] = seqs[i][k]
    BY <1>7 DEF Holds
  <2>4. seqs[i] \in Seq(T) BY <1>4, <1>6
  <2>5. \A k \in DOMAIN seqs[i] : off + k \in 1 .. Len(bs) BY <1>8, <2>3, <2>4
  <2>6. QED BY <1>8, <2>2, <2>3, <2>5
<1>11. QED BY <1>2, <1>8, <1>9, <1>10

\* The roots that the members bring and those that are trusted.
RootsOfHost(s) == s.trustedRoots \cup UNION {RootsOf(m.overlay) : m \in Range(s.members)}
UnionHolds(s) == Violated(UnionRules(OverlaysOf(s.members), RootsOfHost(s))) = {}

\* The union check refuses a host exactly where a worktree or a root is bound
\* twice or a coordination root is a bound worktree or lies inside one: it finds
\* every such host, and it never refuses one because a worktree lies beneath a
\* coordination root or because the text of one path begins like another's
\* (_check_same_host_union with _exact_absolute_root_relation).
THEOREM UnionIsInjective ==
  ASSUME NEW s \in Submissions
  PROVE  UnionHolds(s) <=> Injective(OverlaysOf(s.members), s.trustedRoots)
<1> DEFINE overlays == OverlaysOf(s.members)
           all == RootsOfHost(s)
           bs == Bindings(overlays)
           kept == {c[2] : c \in s.trustedRoots} \cup UNION {{o.stateRoot, o.lockRoot} : o \in Range(overlays)}
           brought == UNION {RootsOf(m.overlay) : m \in Range(s.members)}
<1>0. all = brought \cup s.trustedRoots /\ \A c : c \in brought <=> \E m \in Range(s.members) : c \in RootsOf(m.overlay)
  BY DEF RootsOfHost
<1> HIDE DEF brought, all
<1>1. Len(bs) \in Nat /\ DOMAIN bs = 1 .. Len(bs) BY BindingsFacts
<1>2. \A j \in DOMAIN bs : Absolute(bs[j].root)
  <2>1. \A j \in DOMAIN bs : \E m \in Range(s.members) : bs[j] \in Range(m.overlay.bindings) BY BindingsFacts
  <2>2. QED BY <2>1, Paths
<1>3. Range(overlays) = {m.overlay : m \in Range(s.members)} BY DEF OverlaysOf, Range
<1>4. ASSUME NEW c \in all PROVE c[1] \in Kinds /\ Absolute(c[2])
  <2>1. CASE c \in s.trustedRoots BY <2>1, Paths
  <2>2. ASSUME NEW m \in Range(s.members), c \in RootsOf(m.overlay) PROVE c[1] \in Kinds /\ Absolute(c[2])
    <3>1. Absolute(m.overlay.stateRoot) /\ Absolute(m.overlay.lockRoot) BY Paths
    <3>2. CASE c = <<"stateRoot", m.overlay.stateRoot>> BY <3>1, <3>2 DEF Kinds
    <3>3. CASE c = <<"lockRoot", m.overlay.lockRoot>> BY <3>1, <3>3 DEF Kinds
    <3>4. QED BY <2>2, <3>2, <3>3 DEF RootsOf
  <2>3. QED BY <1>0, <2>1, <2>2
<1>5. kept = {c[2] : c \in all}
  <2>1. \A m \in Range(s.members) : {c[2] : c \in RootsOf(m.overlay)} = {m.overlay.stateRoot, m.overlay.lockRoot}
    BY DEF RootsOf
  <2>2. kept = {c[2] : c \in s.trustedRoots}
                 \cup UNION {{m.overlay.stateRoot, m.overlay.lockRoot} : m \in Range(s.members)}
    BY <1>3
  <2>3. {c[2] : c \in all} = {c[2] : c \in brought} \cup {c[2] : c \in s.trustedRoots} BY <1>0
  <2>4. {c[2] : c \in brought} = UNION {{c[2] : c \in RootsOf(m.overlay)} : m \in Range(s.members)} BY <1>0
  <2> HIDE DEF kept
  <2>5. UNION {{c[2] : c \in RootsOf(m.overlay)} : m \in Range(s.members)}
          = UNION {{m.overlay.stateRoot, m.overlay.lockRoot} : m \in Range(s.members)}
    BY <2>1
  <2>6. QED BY <2>2, <2>3, <2>4, <2>5
<1>6. UnionHolds(s) <=> /\ \A i \in DOMAIN bs : bs[i].worktree \notin {bs[j].worktree : j \in 1 .. i - 1}
                        /\ \A i \in DOMAIN bs : bs[i].root \notin {bs[j].root : j \in 1 .. i - 1}
                        /\ \A c \in all : \A i \in DOMAIN bs : ~Related(c[2], bs[i].root)
  BY <1>4, UnionSays DEF UnionHolds, all
<1>7. Injective(overlays, s.trustedRoots) <=>
        /\ \A i, j \in DOMAIN bs : i # j => bs[i].worktree # bs[j].worktree /\ bs[i].root # bs[j].root
        /\ \A c \in kept, i \in DOMAIN bs : ~Inside(c, bs[i].root)
  BY DEF Injective
<1> HIDE DEF bs, kept, all
<1>8. (\A i \in DOMAIN bs : bs[i].worktree \notin {bs[j].worktree : j \in 1 .. i - 1}) <=>
        \A i, j \in DOMAIN bs : i # j => bs[i].worktree # bs[j].worktree
  BY <1>1
<1>9. (\A i \in DOMAIN bs : bs[i].root \notin {bs[j].root : j \in 1 .. i - 1}) <=>
        \A i, j \in DOMAIN bs : i # j => bs[i].root # bs[j].root
  BY <1>1
<1>10. ASSUME NEW c \in all, NEW i \in DOMAIN bs PROVE Related(c[2], bs[i].root) <=> Inside(c[2], bs[i].root)
  <2>1. Absolute(c[2]) /\ Absolute(bs[i].root) BY <1>2, <1>4
  <2>2. QED BY <2>1, InsideIsRelated, RelatedIsInside DEF Absolute
<1>11. QED BY <1>5, <1>6, <1>7, <1>8, <1>9, <1>10

\* What was accepted whole is what was submitted.
LEMMA WholeIsAll ==
  ASSUME submission \in Submissions, Whole(Len(submission.members)),
         validated \in Seq(Range(submission.members)),
         roots = UNION {RootsOf(m.overlay) : m \in Range(validated)}
  PROVE  /\ Range(validated) = Range(submission.members)
         /\ OverlaysOf(validated) = OverlaysOf(submission.members)
         /\ roots \cup submission.trustedRoots = RootsOfHost(submission)
         /\ \A m \in Range(submission.members) : m.overlay.host = submission.overlay.host
<1> DEFINE n == Len(submission.members)
<1>1. n \in Nat /\ DOMAIN submission.members = 1 .. n BY SubmissionsAssumption
<1>2. DOMAIN validated = 1 .. n /\ \A i \in 1 .. n : /\ validated[i] = submission.members[i]
                                                    /\ submission.members[i].overlay.host = submission.overlay.host
  BY DEF Whole
<1> HIDE DEF n
<1>3. Range(validated) = Range(submission.members) BY <1>1, <1>2 DEF Range
<1>4. OverlaysOf(validated) = OverlaysOf(submission.members) BY <1>1, <1>2 DEF OverlaysOf
<1>5. \A m \in Range(submission.members) : m.overlay.host = submission.overlay.host BY <1>1, <1>2 DEF Range
<1>6. roots \cup submission.trustedRoots = RootsOfHost(submission)
  <2> DEFINE Brought(S) == UNION {RootsOf(m.overlay) : m \in S}
  <2>1. roots = Brought(Range(validated)) OBVIOUS
  <2>2. RootsOfHost(submission) = Brought(Range(submission.members)) \cup submission.trustedRoots
    BY DEF RootsOfHost
  <2> HIDE DEF Brought
  <2>3. QED BY <1>3, <2>1, <2>2
<1>7. QED BY <1>3, <1>4, <1>5, <1>6

LEMMA SnapshotInjective == Snapshot => HostIsInjective
<1>1. SUFFICES ASSUME Snapshot, Accepted
               PROVE  /\ Injective(OverlaysOf(submission.members), submission.trustedRoots)
                      /\ \A m \in Range(submission.members) : m.overlay.host = submission.overlay.host
  BY DEF HostIsInjective
<1>2. Whole(Len(submission.members)) /\ Joined BY <1>1, VerdictFacts DEF Snapshot, Accepted, Done
<1>3. UnionHolds(submission) BY <1>1, <1>2, WholeIsAll DEF Snapshot, Joined, UnionHolds
<1>4. QED BY <1>1, <1>2, <1>3, WholeIsAll, UnionIsInjective DEF Snapshot

\* The worktree of an accepted contract is bound once on its host, and nothing
\* that coordinates the host is a bound worktree or lies inside one, for any
\* number of projects, bindings and roots. Nothing is said of a worktree beneath
\* a coordination root, which is allowed (_check_same_host_union; HX.A1-HX.B4).
THEOREM HostInjective == Spec => []HostIsInjective
BY SnapshotHolds, SnapshotInjective, PTL

-----------------------------------------------------------------------------
\* What is right: nothing is found of it.

\* No predicate failed, and one that stayed open has its obligation.
Clear(c) == ~c.failed /\ (c.unevaluated => c.required # {})

LEMMA ClearStays ==
  ASSUME NEW c, Well(c), Clear(c)
  PROVE  /\ Clear(Report(c, {}))
         /\ \A q : \A direct \in BOOLEAN : Clear(Unavailable(c, q, direct))
         /\ \A n : Well(n) /\ Clear(n) => Clear(Merge(c, n))
<1>1. PICK U : c \in ContextType(U, {}) BY DEF Well
<1>2. Clear(Report(c, {})) BY <1>1 DEF Report, ContextType, Clear
<1>3. ASSUME NEW q, NEW direct \in BOOLEAN PROVE Clear(Unavailable(c, q, direct))
  BY <1>1 DEF Unavailable, ContextType, Clear
<1>4. ASSUME NEW n, Well(n), Clear(n) PROVE Clear(Merge(c, n))
  <2>1. PICK V : n \in ContextType(V, {}) BY <1>4 DEF Well
  <2> DEFINE k == Merge(c, n)
  <2>2. /\ k.failed = (c.failed \/ Verdict(n) = "INVALID")
        /\ k.unevaluated = (c.unevaluated \/ Verdict(n) # "PASS")
        /\ k.required = c.required \cup n.required
    BY <1>1 DEF Merge, ContextType
  <2>3. Verdict(n) # "INVALID" /\ (Verdict(n) # "PASS" => n.required # {})
    BY <1>4 DEF Verdict, Clear
  <2>4. QED BY <2>2, <2>3 DEF Clear
<1>5. QED BY <1>2, <1>3, <1>4

LEMMA ProveScopeClear ==
  ASSUME NEW c, Well(c), Clear(c), NEW q, NEW open \in BOOLEAN PROVE Clear(ProveScope(c, q, TRUE, open))
<1>1. CASE open BY <1>1, ClearStays DEF ProveScope
<1>2. CASE ~open BY <1>2, ClearStays DEF ProveScope
<1>3. QED BY <1>1, <1>2

\* A closed bundle, member by member of what the rules speak of.
LEMMA ClosedSays ==
  ASSUME NEW b, Closed(b)
  PROVE  /\ \A d \in DOMAIN b.domains :
              /\ b.domains[d].project = b.project.id /\ b.domains[d].overlap \subseteq DOMAIN b.domains
              /\ \A e \in b.domains[d].overlap : e # d /\ d \in b.domains[e].overlap
              /\ b.domains[d].permissions.permitted \cap b.domains[d].permissions.prohibited = {}
         /\ \A r \in DOMAIN b.roles :
              /\ b.roles[r].project = b.project.id
              /\ b.roles[r].owned \cup b.roles[r].excluded \subseteq DOMAIN b.domains
              /\ b.roles[r].owned \cap b.roles[r].excluded = {}
              /\ b.roles[r].permissions.permitted \cap b.roles[r].permissions.prohibited = {}
         /\ \A i \in DOMAIN b.policy.rules : b.policy.rules[i].project = b.project.id
         /\ b.policy.project = b.project.id
         /\ b.project.permissions.permitted \cap b.project.permissions.prohibited = {}
<1> DEFINE pid == b.project.id
           named == Range(b.domains) \cup Range(b.roles) \cup Range(b.policy.rules) \cup {b.policy}
           all == {b.project} \cup Range(b.domains) \cup Range(b.roles)
           known == UNION {{x} \cup b.domains[x].overlap : x \in DOMAIN b.domains}
<1>1. {d.project : d \in named} = {pid} BY DEF Closed
<1>2. \A x \in named : x.project = pid BY <1>1
<1>3. \A x \in all : x.permissions.permitted \cap x.permissions.prohibited = {} BY DEF Closed
<1>4. \A d, e \in known : /\ d \in DOMAIN b.domains /\ d \notin b.domains[d].overlap
                          /\ d \in b.domains[e].overlap <=> e \in b.domains[d].overlap
  BY DEF Closed
<1>5. \A d \in DOMAIN b.domains : b.domains[d] \in named /\ b.domains[d] \in all BY DEF Range
<1>6. \A r \in DOMAIN b.roles : b.roles[r] \in named /\ b.roles[r] \in all /\ b.roles[r] \in Range(b.roles) BY DEF Range
<1>7. \A i \in DOMAIN b.policy.rules : b.policy.rules[i] \in named BY DEF Range
<1>8. b.policy \in named /\ b.project \in all OBVIOUS
<1>9. \A d \in DOMAIN b.domains : d \in known /\ b.domains[d].overlap \subseteq known OBVIOUS
<1>10. \A r \in Range(b.roles) : r.owned \cup r.excluded \subseteq DOMAIN b.domains /\ r.owned \cap r.excluded = {}
  BY DEF Closed
<1> HIDE DEF named, all, known, pid
<1>11. \A d \in DOMAIN b.domains :
         /\ b.domains[d].overlap \subseteq DOMAIN b.domains
         /\ \A e \in b.domains[d].overlap : e # d /\ d \in b.domains[e].overlap
  BY <1>4, <1>9
<1>12. QED BY <1>2, <1>3, <1>5, <1>6, <1>7, <1>8, <1>10, <1>11 DEF pid

LEMMA ClosedReferences ==
  ASSUME NEW b, Closed(b) PROVE Violated(ReferenceRules(b)) = {} /\ Violated(OverlapRules(b)) = {}
<1> DEFINE r1 == /\ b.project.domains \subseteq DOMAIN b.domains
                 /\ b.project.roles \subseteq DOMAIN b.roles
           r2 == b.project.policy = b.policy.id /\ b.policy.project = b.project.id
           r3 == \A d \in DOMAIN b.domains :
                   b.domains[d].project = b.project.id /\ DomainsOf(b, b.domains[d].overlap)
           r4 == \A r \in DOMAIN b.roles :
                   /\ b.roles[r].project = b.project.id
                   /\ DomainsOf(b, b.roles[r].owned \cup b.roles[r].excluded)
           r5 == \A r \in DOMAIN b.roles : b.roles[r].owned \cap b.roles[r].excluded = {}
           r6 == \A p \in {b.project.permissions}
                   \cup {b.domains[d].permissions : d \in DOMAIN b.domains}
                   \cup {b.roles[r].permissions : r \in DOMAIN b.roles} : p.permitted \cap p.prohibited = {}
           r7 == \A d \in DOMAIN b.domains : \A e \in b.domains[d].overlap \cap DOMAIN b.domains :
                   e # d /\ d \in b.domains[e].overlap
<1>1. /\ ReferenceRules(b) = {<<"BUNDLE.REFERENCES", r1>>, <<"BUNDLE.PROJECT_POLICY", r2>>,
                              <<"BUNDLE.REFERENCES", r3>>, <<"BUNDLE.REFERENCES", r4>>,
                              <<"BUNDLE.ROLE_OWNERSHIP", r5>>, <<"BUNDLE.PERMISSIONS", r6>>}
      /\ OverlapRules(b) = {<<"BUNDLE.OVERLAP", r7>>}
  BY DEF ReferenceRules, OverlapRules
<1>2. r1 /\ r2 BY ClosedSays DEF Closed
<1>3. r3 /\ r4 BY ClosedSays DEF DomainsOf
<1>4. r5 /\ r7 BY ClosedSays
<1>5. r6 BY ClosedSays
<1> HIDE DEF r1, r2, r3, r4, r5, r6, r7
<1>6. ASSUME NEW x \in ReferenceRules(b) PROVE x[2]
  <2>1. CASE x = <<"BUNDLE.REFERENCES", r1>> BY <1>2, <2>1, OneRule
  <2>2. CASE x = <<"BUNDLE.PROJECT_POLICY", r2>> BY <1>2, <2>2, OneRule
  <2>3. CASE x = <<"BUNDLE.REFERENCES", r3>> BY <1>3, <2>3, OneRule
  <2>4. CASE x = <<"BUNDLE.REFERENCES", r4>> BY <1>3, <2>4, OneRule
  <2>5. CASE x = <<"BUNDLE.ROLE_OWNERSHIP", r5>> BY <1>4, <2>5, OneRule
  <2>6. CASE x = <<"BUNDLE.PERMISSIONS", r6>> BY <1>5, <2>6, OneRule
  <2>7. QED BY <1>1, <1>6, <2>1, <2>2, <2>3, <2>4, <2>5, <2>6
<1>7. ASSUME NEW x \in OverlapRules(b) PROVE x[2]
  <2>1. x = <<"BUNDLE.OVERLAP", r7>> BY <1>1, <1>7
  <2>2. QED BY <1>4, <2>1, OneRule
<1>8. QED BY <1>6, <1>7, NoneViolated

LEMMA ClosedRouting ==
  ASSUME NEW b, Closed(b), ListOf(b.policy.rules) PROVE Violated(RoutingRules(b)) = {}
<1> DEFINE rules == b.policy.rules
           r1 == \A i \in 2 .. Len(rules) :
                   \/ rules[i - 1].priority > rules[i].priority
                   \/ rules[i - 1].priority = rules[i].priority /\ rules[i - 1].id < rules[i].id
           r2 == \A i, j \in DOMAIN rules : i # j => rules[i].id # rules[j].id
           r3 == \A i \in DOMAIN rules :
                   /\ rules[i].project = b.project.id /\ DomainsOf(b, rules[i].domains)
                   /\ rules[i].target # "deny" =>
                        /\ rules[i].target \in DOMAIN b.roles
                        /\ b.roles[rules[i].target].project = b.project.id
                        /\ rules[i].domains \subseteq b.roles[rules[i].target].owned
<1>1. RoutingRules(b) = {<<"ROUTING.RULE_IDS", r1>>, <<"ROUTING.RULE_IDS", r2>>, <<"ROUTING.PROJECT", r3>>}
  BY DEF RoutingRules
<1>2. /\ Len(rules) \in Nat /\ DOMAIN rules = 1 .. Len(rules)
      /\ \A i \in DOMAIN rules : rules[i].priority \in Int /\ rules[i].id \in Int
  BY DEF ListOf
<1>3. \A i, j \in DOMAIN rules : i < j =>
        /\ rules[i].priority >= rules[j].priority /\ rules[i].id # rules[j].id
        /\ rules[i].priority = rules[j].priority => rules[i].id < rules[j].id
  BY DEF Closed
<1>4. \A i \in DOMAIN rules :
          /\ rules[i].domains \subseteq DOMAIN b.domains
          /\ rules[i].target \in {"deny"} \cup DOMAIN b.roles
          /\ rules[i].target \in DOMAIN b.roles =>
               rules[i].domains \subseteq b.roles[rules[i].target].owned
  BY DEF Closed
<1>5. r3 BY <1>4, ClosedSays DEF DomainsOf
<1> HIDE DEF rules
<1>6. r1
  <2>1. ASSUME NEW i \in 2 .. Len(rules)
        PROVE  \/ rules[i - 1].priority > rules[i].priority
               \/ rules[i - 1].priority = rules[i].priority /\ rules[i - 1].id < rules[i].id
    <3>1. i \in DOMAIN rules /\ i - 1 \in DOMAIN rules /\ i - 1 < i BY <1>2
    <3>2. QED BY <1>2, <1>3, <3>1
  <2>2. QED BY <2>1
<1>7. r2
  <2>1. \A i, j \in DOMAIN rules : i # j => i < j \/ j < i BY <1>2
  <2>2. QED BY <1>3, <2>1
<1> HIDE DEF r1, r2, r3
<1>8. ASSUME NEW x \in RoutingRules(b) PROVE x[2]
  <2>1. CASE x = <<"ROUTING.RULE_IDS", r1>> BY <1>6, <2>1, OneRule
  <2>2. CASE x = <<"ROUTING.RULE_IDS", r2>> BY <1>7, <2>2, OneRule
  <2>3. CASE x = <<"ROUTING.PROJECT", r3>> BY <1>5, <2>3, OneRule
  <2>4. QED BY <1>1, <1>8, <2>1, <2>2, <2>3
<1>9. QED BY <1>8, NoneViolated

LEMMA ClosedDuplicates ==
  ASSUME NEW b, Closed(b), NEW silent PROVE Duplicates(b.policy.rules, silent) = {}
<1> DEFINE rules == b.policy.rules
<1>1. \A i, j \in DOMAIN rules : i < j =>
        (rules[i].priority = rules[j].priority => Match(rules[i]) # Match(rules[j]))
  BY DEF Closed
<1>2. ASSUME NEW pair \in (DOMAIN rules) \X (DOMAIN rules), pair[1] < pair[2],
             \/ Projection(rules[pair[1]]) = Projection(rules[pair[2]])
             \/ /\ rules[pair[1]].priority = rules[pair[2]].priority
                /\ Match(rules[pair[1]]) = Match(rules[pair[2]])
      PROVE  FALSE
  <2>1. pair[1] \in DOMAIN rules /\ pair[2] \in DOMAIN rules OBVIOUS
  <2>2. Projection(rules[pair[1]]) = Projection(rules[pair[2]]) =>
          /\ rules[pair[1]].priority = rules[pair[2]].priority
          /\ Match(rules[pair[1]]) = Match(rules[pair[2]])
    BY DEF Projection
  <2>3. QED BY <1>1, <1>2, <2>1, <2>2
<1> HIDE DEF rules
<1>3. Duplicates(rules, silent) = {} BY <1>2 DEF Duplicates
<1>4. QED BY <1>3 DEF rules

LEMMA JudgeBundleClear ==
  ASSUME NEW c, Well(c), Clear(c), NEW b, Closed(b), ListOf(b.policy.rules), NEW silent
  PROVE  Clear(JudgeBundle(c, b, silent))
<1> DEFINE R == ReferenceRules(b) \cup OverlapRules(b) \cup RoutingRules(b)
           judged == Report(c, Violated(R) \cup Duplicates(b.policy.rules, silent))
<1>1. Violated(R) = {}
  <2>1. Violated(ReferenceRules(b)) = {} /\ Violated(OverlapRules(b)) = {} /\ Violated(RoutingRules(b)) = {}
    BY ClosedReferences, ClosedRouting
  <2>2. QED BY <2>1 DEF Violated
<1>2. judged = Report(c, {}) BY <1>1, ClosedDuplicates
<1>3. JudgeBundle(c, b, silent) = judged
        \/ JudgeBundle(c, b, silent) = Unavailable(judged, "PROOF.RULE_PROJECTION", TRUE)
  BY DEF JudgeBundle
<1> HIDE DEF judged
<1>4. Well(judged) /\ Clear(judged) BY <1>2, ReportNothing, ClearStays
<1>5. Clear(Unavailable(judged, "PROOF.RULE_PROJECTION", TRUE)) BY <1>4, ClearStays
<1>6. QED BY <1>3, <1>4, <1>5

LEMMA NarrowFindsNothing ==
  ASSUME NEW o, NEW b, Closed(b), Narrow(o, b) PROVE Violated(OverlayRules(o, b)) = {}
<1> DEFINE roles == {o.bindings[i].role : i \in DOMAIN o.bindings}
           portable(r) == (b.project.permissions.permitted \cap b.roles[r].permissions.permitted)
                            \ (b.project.permissions.prohibited \cup b.roles[r].permissions.prohibited)
           r1 == o.project = b.project.id
           r2 == o.remotes \subseteq b.project.remotes
           r3 == \A n \in DOMAIN o.expectations : o.expectations[n] \subseteq b.project.remotes
           r4 == roles \subseteq b.project.roles
           r5 == \A r \in roles : r \in DOMAIN b.roles /\ b.roles[r].project = b.project.id
           r6 == \A r \in roles \cap DOMAIN b.roles : o.ceiling \subseteq portable(r)
           r7 == \A i \in DOMAIN o.bindings : \A n \in o.bindings[i].remoteNames :
                   n \in DOMAIN o.expectations /\ o.expectations[n] # {}
<1>1. OverlayRules(o, b) =
        {<<"D10.project-mismatch", r1>>, <<"D10.repository-widening", r2>>, <<"D10.remote-widening", r3>>,
         <<"D10.role-not-in-project", r4>>, <<"D10.role-project-mismatch", r5>>,
         <<"D10.capability-widening", r6>>, <<"D10.remote-unresolved", r7>>}
  BY DEF OverlayRules
<1>2. \A i \in DOMAIN o.bindings : o.bindings[i] \in Range(o.bindings) BY DEF Range
<1>3. \A x \in Range(o.bindings) :
       /\ x.role \in b.project.roles /\ x.remoteNames \subseteq DOMAIN o.expectations
       /\ \A n \in x.remoteNames : o.expectations[n] # {}
       /\ \A p \in {b.project.permissions, b.roles[x.role].permissions} :
            o.ceiling \subseteq p.permitted /\ o.ceiling \cap p.prohibited = {}
  BY DEF Narrow
<1>4. r1 /\ r2 BY DEF Narrow
<1>5. r3 BY DEF Narrow, Range
<1>6. r4 BY <1>2, <1>3
<1>7. r5
  <2>1. b.project.roles \subseteq DOMAIN b.roles BY DEF Closed
  <2>2. QED BY <1>6, <2>1, ClosedSays
<1>8. r6
  <2>1. ASSUME NEW i \in DOMAIN o.bindings PROVE o.ceiling \subseteq portable(o.bindings[i].role)
    <3> DEFINE r == o.bindings[i].role
    <3>1. \A p \in {b.project.permissions, b.roles[r].permissions} :
            o.ceiling \subseteq p.permitted /\ o.ceiling \cap p.prohibited = {}
      BY <1>2, <1>3
    <3> HIDE DEF r
    <3>2. o.ceiling \subseteq portable(r) BY <3>1
    <3>3. QED BY <3>2 DEF r
  <2> HIDE DEF portable
  <2>2. QED BY <2>1
<1>9. r7 BY <1>2, <1>3
<1> HIDE DEF r1, r2, r3, r4, r5, r6, r7
<1>10. ASSUME NEW x \in OverlayRules(o, b) PROVE x[2]
  <2>1. CASE x = <<"D10.project-mismatch", r1>> BY <1>4, <2>1, OneRule
  <2>2. CASE x = <<"D10.repository-widening", r2>> BY <1>4, <2>2, OneRule
  <2>3. CASE x = <<"D10.remote-widening", r3>> BY <1>5, <2>3, OneRule
  <2>4. CASE x = <<"D10.role-not-in-project", r4>> BY <1>6, <2>4, OneRule
  <2>5. CASE x = <<"D10.role-project-mismatch", r5>> BY <1>7, <2>5, OneRule
  <2>6. CASE x = <<"D10.capability-widening", r6>> BY <1>8, <2>6, OneRule
  <2>7. CASE x = <<"D10.remote-unresolved", r7>> BY <1>9, <2>7, OneRule
  <2>8. QED BY <1>1, <1>10, <2>1, <2>2, <2>3, <2>4, <2>5, <2>6, <2>7
<1>11. QED BY <1>10, NoneViolated

LEMMA JudgeOverlayClear ==
  ASSUME NEW c, Well(c), Clear(c), NEW o, NEW b, Closed(b), Narrow(o, b), NEW open \in BOOLEAN
  PROVE  Clear(JudgeOverlay(c, o, b, open))
<1> DEFINE d == Report(c, Violated(OverlayRules(o, b)))
<1>1. d = Report(c, {}) BY NarrowFindsNothing
<1>2. Well(d) /\ Clear(d) BY <1>1, ReportNothing, ClearStays
<1>3. CASE open
  <2>1. JudgeOverlay(c, o, b, open) = Unavailable(d, "D10.path-proof-unavailable", TRUE)
    BY <1>3 DEF JudgeOverlay, ProveScope
  <2> HIDE DEF d
  <2>2. QED BY <1>2, <2>1, ClearStays
<1>4. CASE ~open
  <2>1. JudgeOverlay(c, o, b, open) = Report(d, {})
    BY <1>4 DEF JudgeOverlay, ProveScope, Narrow
  <2> HIDE DEF d
  <2>2. QED BY <1>2, <2>1, ClearStays
<1>5. QED BY <1>3, <1>4

LEMMA NestedClear ==
  ASSUME NEW m, Closed(m.bundle), Narrow(m.overlay, m.bundle), ListOf(m.bundle.policy.rules),
         NEW silent, NEW open \in BOOLEAN
  PROVE  Well(Nested(m, silent, open)) /\ Clear(Nested(m, silent, open))
<1>1. Well(NewContext) /\ Clear(NewContext) BY NewFacts DEF NewContext, Clear
<1>2. /\ Clear(JudgeBundle(NewContext, m.bundle, silent)) /\ Well(JudgeBundle(NewContext, m.bundle, silent))
  BY <1>1, JudgeBundleClear, JudgeBundleFacts DEF Onward
<1>3. Nested(m, silent, open) = JudgeOverlay(JudgeBundle(NewContext, m.bundle, silent), m.overlay, m.bundle, open)
  BY <1>2 DEF Nested, Clear
<1>4. QED BY <1>2, <1>3, JudgeOverlayClear, NestedGrounded DEF Grounded

-----------------------------------------------------------------------------
\* The contract of a right submission.

LEMMA RightMembers ==
  ASSUME submission \in Submissions, Right
  PROVE  /\ \A m \in Range(submission.members) :
              /\ Closed(m.bundle) /\ Narrow(m.overlay, m.bundle) /\ ListOf(m.bundle.policy.rules)
              /\ m.overlay.host = submission.overlay.host
         /\ [overlay |-> submission.overlay, bundle |-> submission.bundle] \in Range(submission.members)
         /\ Closed(submission.bundle) /\ Narrow(submission.overlay, submission.bundle)
         /\ ListOf(submission.bundle.policy.rules)
<1> DEFINE own == [overlay |-> submission.overlay, bundle |-> submission.bundle]
<1>1. \A m \in Range(submission.members) :
        Closed(m.bundle) /\ Narrow(m.overlay, m.bundle) /\ m.overlay.host = submission.overlay.host
  BY DEF Right
<1>2. \A m \in Range(submission.members) : ListOf(m.bundle.policy.rules)
  BY SubmissionsAssumption DEF ListOf
<1>3. own \in Range(submission.members) BY DEF Right
<1>4. own.overlay = submission.overlay /\ own.bundle = submission.bundle OBVIOUS
<1> HIDE DEF own
<1>5. QED BY <1>1, <1>2, <1>3, <1>4 DEF own

\* Its worktree is bound once, with its role and at its reference.
LEMMA RightMatching ==
  ASSUME submission \in Submissions, Right
  PROVE  \E i \in DOMAIN submission.overlay.bindings :
           /\ Matching(submission.contract, submission.overlay) = {i}
           /\ submission.overlay.bindings[i].ref = submission.contract.ref
<1> DEFINE k == submission.contract   o == submission.overlay
           bs == Bindings(OverlaysOf(submission.members))
           own == [overlay |-> submission.overlay, bundle |-> submission.bundle]
<1>1. \A i, j \in DOMAIN bs : i # j => bs[i].worktree # bs[j].worktree BY DEF Right, Injective
<1>2. PICK x \in Range(o.bindings) : x.worktree = k.worktree /\ x.role = k.role /\ x.ref = k.ref
  BY DEF Right, Authorized
<1>3. PICK i \in DOMAIN o.bindings : o.bindings[i] = x BY DEF Range
<1>4. own \in Range(submission.members) /\ own.overlay = o BY RightMembers
<1>5. /\ Len(bs) \in Nat /\ DOMAIN bs = 1 .. Len(bs)
      /\ \A m \in Range(submission.members) : \E off \in Nat : \A n \in DOMAIN m.overlay.bindings :
           off + n \in DOMAIN bs /\ bs[off + n] = m.overlay.bindings[n]
  BY BindingsFacts
<1> HIDE DEF bs
<1>6. PICK off \in Nat : \A n \in DOMAIN o.bindings : off + n \in DOMAIN bs /\ bs[off + n] = o.bindings[n]
  BY <1>4, <1>5
<1>7. DOMAIN o.bindings \subseteq Nat
  <2>1. o.bindings \in Seq(Range(o.bindings)) BY <1>4, Paths
  <2>2. QED BY <2>1
<1>8. i \in Matching(k, o) BY <1>2, <1>3 DEF Matching
<1>9. ASSUME NEW j \in Matching(k, o) PROVE j = i
  <2>1. j \in DOMAIN o.bindings /\ o.bindings[j].worktree = k.worktree BY <1>9 DEF Matching
  <2>2. bs[off + j].worktree = bs[off + i].worktree /\ off + j \in DOMAIN bs /\ off + i \in DOMAIN bs
    BY <1>2, <1>3, <1>6, <2>1
  <2>3. off + j = off + i BY <1>1, <2>2
  <2>4. QED BY <1>7, <2>1, <2>3
<1>10. Matching(k, o) = {i} BY <1>8, <1>9
<1>11. QED BY <1>2, <1>3, <1>10

LEMMA RightBound ==
  ASSUME submission \in Submissions, Right
  PROVE  BoundUpstream(submission.contract, submission.overlay, submission.bundle)
<1> DEFINE k == submission.contract   o == submission.overlay   b == submission.bundle
<1>1. PICK i : Matching(k, o) = {i} BY RightMatching
<1>2. Cardinality(Matching(k, o)) = 1 BY <1>1, FS_Singleton
<1>3. Closed(b) /\ Narrow(o, b) /\ Authorized(k, o, b) BY RightMembers DEF Right
<1>4. k.project = b.project.id /\ k.role \in DOMAIN b.roles /\ k.domains \subseteq b.project.domains
  BY <1>3 DEF Authorized
<1>5. k.project = o.project BY <1>3, <1>4 DEF Narrow
<1>6. b.project.domains \subseteq DOMAIN b.domains BY <1>3 DEF Closed
<1>7. QED BY <1>2, <1>4, <1>5, <1>6 DEF BoundUpstream

LEMMA RightBindings ==
  ASSUME submission \in Submissions, Right
  PROVE  Violated(BindingRules(submission.contract, submission.overlay, submission.bundle)) = {}
<1> DEFINE k == submission.contract   o == submission.overlay   b == submission.bundle
           role == b.roles[k.role]
           layers == {b.project.permissions, role.permissions} \cup {b.domains[d].permissions : d \in k.domains}
           r1 == /\ k.domains \subseteq role.owned /\ role.project = k.project
                 /\ \A d \in k.domains : b.domains[d].project = k.project
           r2 == \A p \in layers : /\ k.mode \in p.modes
                                   /\ k.capabilities \subseteq p.permitted
                                   /\ k.capabilities \cap p.prohibited = {}
           r3 == k.capabilities \subseteq o.ceiling
           r4 == k.remotes \subseteq o.remotes
           r5 == \A i \in Matching(k, o) : k.ref = o.bindings[i].ref
           r6 == k.ref # <<"detached">> /\ BranchAllowed(role, k.ref)
           r7 == role.clean => k.clean
<1>1. BindingRules(k, o, b) =
        {<<"CONTRACT.UPSTREAM", r1>>, <<"CONTRACT.UPSTREAM", r2>>, <<"CONTRACT.UPSTREAM", r3>>,
         <<"CONTRACT.UPSTREAM", r4>>, <<"CONTRACT.UPSTREAM", r5>>, <<"BRANCH.STATIC", r6>>,
         <<"CONTRACT.UPSTREAM", r7>>}
  BY DEF BindingRules
<1>2. Closed(b) /\ Authorized(k, o, b) BY RightMembers DEF Right
<1>3. b.project.domains \subseteq DOMAIN b.domains BY <1>2 DEF Closed
<1>4. r1
  <2>1. /\ k.domains \subseteq role.owned /\ k.domains \subseteq b.project.domains
        /\ k.role \in DOMAIN b.roles /\ k.project = b.project.id
    BY <1>2 DEF Authorized
  <2>2. QED BY <1>2, <1>3, <2>1, ClosedSays
<1>5. r2 BY <1>2 DEF Authorized, Layers
<1>6. r3 /\ r4 /\ r7 BY <1>2 DEF Authorized
<1>7. r5 BY RightMatching
<1>8. r6 BY <1>2 DEF Authorized, BranchOpen, BranchAllowed
<1> HIDE DEF r1, r2, r3, r4, r5, r6, r7
<1>9. ASSUME NEW x \in BindingRules(k, o, b) PROVE x[2]
  <2>1. CASE x = <<"CONTRACT.UPSTREAM", r1>> BY <1>4, <2>1, OneRule
  <2>2. CASE x = <<"CONTRACT.UPSTREAM", r2>> BY <1>5, <2>2, OneRule
  <2>3. CASE x = <<"CONTRACT.UPSTREAM", r3>> BY <1>6, <2>3, OneRule
  <2>4. CASE x = <<"CONTRACT.UPSTREAM", r4>> BY <1>6, <2>4, OneRule
  <2>5. CASE x = <<"CONTRACT.UPSTREAM", r5>> BY <1>7, <2>5, OneRule
  <2>6. CASE x = <<"BRANCH.STATIC", r6>> BY <1>8, <2>6, OneRule
  <2>7. CASE x = <<"CONTRACT.UPSTREAM", r7>> BY <1>6, <2>7, OneRule
  <2>8. QED BY <1>1, <1>9, <2>1, <2>2, <2>3, <2>4, <2>5, <2>6, <2>7
<1>10. QED BY <1>9, NoneViolated

-----------------------------------------------------------------------------
\* The invariant: nothing has been found of what is right.
Favoured == Right => Clear(ctx)

LEMMA InitFavoured == Init => Favoured
BY DEF Init, NewContext, Clear, Favoured

LEMMA FavouredStays ==
  ASSUME submission' = submission, Right => Clear(ctx') PROVE Favoured'
<1>1. Right' <=> Right BY DEF Right
<1>2. Clear(ctx)' <=> Clear(ctx') BY DEF Clear
<1>3. QED BY <1>1, <1>2 DEF Favoured

LEMMA StagesFavoured ==
  ASSUME Snapshot, Favoured, CheckBundle \/ CheckOverlay PROVE Favoured'
<1>1. SUFFICES ASSUME Right PROVE Clear(ctx')
  BY FavouredStays DEF CheckBundle, CheckOverlay
<1>2. Well(ctx) /\ Clear(ctx) /\ submission \in Submissions BY <1>1 DEF Snapshot, Grounded, Favoured
<1>3. CASE CheckBundle
  <2>1. PICK silent :
          LET judged == JudgeBundle(ctx, submission.bundle, silent)
          IN IF judged.failed THEN Answer(LeaveUnevaluated(judged)) ELSE phase' = "overlay" /\ ctx' = judged
    BY <1>3 DEF CheckBundle
  <2>2. Clear(JudgeBundle(ctx, submission.bundle, silent)) BY <1>1, <1>2, RightMembers, JudgeBundleClear
  <2>3. QED BY <2>1, <2>2 DEF Clear
<1>4. CASE CheckOverlay
  <2>1. PICK open \in {"paths" \in submission.unreliable, FALSE} :
          LET judged == JudgeOverlay(ctx, submission.overlay, submission.bundle, open)
          IN IF judged.failed THEN Answer(judged) ELSE phase' = "members" /\ ctx' = judged
    BY <1>4 DEF CheckOverlay
  <2>2. open \in BOOLEAN
    <3>1. ("paths" \in submission.unreliable) \in BOOLEAN OBVIOUS
    <3>2. QED BY <2>1, <3>1
  <2>3. Clear(JudgeOverlay(ctx, submission.overlay, submission.bundle, open))
    BY <1>1, <1>2, <2>2, RightMembers, JudgeOverlayClear
  <2>4. QED BY <2>1, <2>3 DEF Clear, Answer
<1>5. QED BY <1>3, <1>4

LEMMA MemberFavoured ==
  ASSUME Snapshot, Favoured, ValidateMember PROVE Favoured'
<1>1. SUFFICES ASSUME Right PROVE Clear(ctx')
  BY FavouredStays DEF ValidateMember
<1>2. Well(ctx) /\ Clear(ctx) /\ submission \in Submissions BY <1>1 DEF Snapshot, Grounded, Favoured
<1> DEFINE m == submission.members[member]
<1>3. m \in Range(submission.members)
  <2>1. /\ member <= Len(submission.members) /\ member \in 1 .. Len(submission.members) + 1
        /\ Len(submission.members) \in Nat /\ DOMAIN submission.members = 1 .. Len(submission.members)
    BY SubmissionsAssumption DEF ValidateMember, Snapshot
  <2>2. member \in DOMAIN submission.members BY <2>1
  <2>3. QED BY <2>2 DEF Range
<1>4. PICK silent \in Silent("comparison", Comparisons(m.bundle)), open \in BOOLEAN :
        ctx' = Report(Merge(ctx, Nested(m, silent, open)), Alien(m))
  BY MemberStep
<1> DEFINE k == Merge(ctx, Nested(m, silent, open))
<1> HIDE DEF m
<1>5. Alien(m) = {} BY <1>1, <1>2, <1>3, RightMembers DEF Alien
<1>6. Well(Nested(m, silent, open)) /\ Clear(Nested(m, silent, open))
  BY <1>1, <1>2, <1>3, RightMembers, NestedClear
<1>7. Well(k) /\ Clear(k) BY <1>2, <1>6, ClearStays, MergeFacts DEF Onward
<1>8. QED BY <1>4, <1>5, <1>7, ClearStays

LEMMA UnionFavoured ==
  ASSUME Snapshot, Favoured, CheckUnion PROVE Favoured'
<1>1. SUFFICES ASSUME Right PROVE Clear(ctx')
  BY FavouredStays DEF CheckUnion
<1>2. Well(ctx) /\ Clear(ctx) /\ submission \in Submissions BY <1>1 DEF Snapshot, Grounded, Favoured
<1> DEFINE found == Violated(UnionRules(OverlaysOf(validated), roots \cup submission.trustedRoots))
           k == Report(ctx, found)
           own == [overlay |-> submission.overlay, bundle |-> submission.bundle]
<1>3. /\ phase = "members" /\ member > Len(submission.members)
      /\ IF ctx.failed \/ ctx.unevaluated THEN Answer(ctx)
         ELSE IF k.failed THEN Answer(k)
         ELSE IF own \notin Range(validated) THEN Answer(Report(k, {"PROOF.SNAPSHOT"}))
         ELSE phase' = "bindings" /\ ctx' = k
  BY DEF CheckUnion, OverlaysOf
<1>4. CASE ctx.failed \/ ctx.unevaluated
  <2>1. ctx' = ctx BY <1>3, <1>4 DEF Answer
  <2>2. QED BY <1>2, <2>1
<1>5. CASE ~(ctx.failed \/ ctx.unevaluated)
  <2>1. Whole(Len(submission.members))
    <3>1. Len(submission.members) \in Nat /\ member \in 1 .. Len(submission.members) + 1
      BY <1>2, SubmissionsAssumption DEF Snapshot
    <3>2. member - 1 = Len(submission.members) BY <1>3, <3>1
    <3>3. QED BY <1>3, <1>5, <3>2 DEF Snapshot, Sane
  <2>2. found = {}
    <3>1. UnionHolds(submission) BY <1>1, <1>2, UnionIsInjective DEF Right
    <3>2. QED BY <1>2, <2>1, <3>1, WholeIsAll DEF Snapshot, UnionHolds
  <2>3. own \in Range(validated) BY <1>1, <1>2, <2>1, WholeIsAll, RightMembers DEF Snapshot
  <2>4. k = Report(ctx, {}) BY <2>2
  <2> HIDE DEF k, own
  <2>5. Clear(k) BY <1>2, <2>4, ClearStays
  <2>6. ctx' = k BY <1>3, <1>5, <2>3, <2>5 DEF Clear
  <2>7. QED BY <2>5, <2>6
<1>6. QED BY <1>4, <1>5

LEMMA BindingsFavoured ==
  ASSUME Snapshot, Favoured, CheckContractBindings PROVE Favoured'
<1>1. SUFFICES ASSUME Right PROVE Clear(ctx')
  BY FavouredStays DEF CheckContractBindings
<1>2. Well(ctx) /\ Clear(ctx) /\ submission \in Submissions BY <1>1 DEF Snapshot, Grounded, Favoured
<1> DEFINE k == submission.contract   o == submission.overlay   b == submission.bundle
           judged == Report(ctx, Violated(BindingRules(k, o, b)))
           Within(x) == ProveScope(judged, "CONTRACT.UPSTREAM", TRUE, x)
           All(x, y) == ProveScope(Within(x), "CONTRACT.UPSTREAM", TRUE, y)
<1>3. BoundUpstream(k, o, b) /\ judged = Report(ctx, {}) BY <1>1, <1>2, RightBound, RightBindings
<1>4. Authorized(k, o, b) /\ k.withinDomains /\ k.withinCeiling BY <1>1 DEF Right, Authorized
<1>5. \E open : ctx' = All("domains" \in open, "ceiling" \in open)
  <2>1. PICK open : Answer(ProveScope(ProveScope(judged, "CONTRACT.UPSTREAM", k.withinDomains, "domains" \in open),
                                      "CONTRACT.UPSTREAM", k.withinCeiling, "ceiling" \in open))
    BY <1>3 DEF CheckContractBindings
  <2>2. \A c, q, included, x : included => ProveScope(c, q, included, x) = ProveScope(c, q, TRUE, x)
    BY DEF ProveScope
  <2> HIDE DEF judged
  <2>3. QED BY <1>4, <2>1, <2>2 DEF Answer
<1>6. Well(judged) /\ Clear(judged) BY <1>2, <1>3, ReportNothing, ClearStays
<1> HIDE DEF judged
<1>7. \A x \in BOOLEAN : Well(Within(x)) /\ Clear(Within(x))
  BY <1>6, ProveScopeFacts, ProveScopeClear DEF Onward
<1> HIDE DEF Within
<1>8. \A x, y \in BOOLEAN : Clear(All(x, y)) BY <1>7, ProveScopeClear
<1>9. \A open : ("domains" \in open) \in BOOLEAN /\ ("ceiling" \in open) \in BOOLEAN OBVIOUS
<1> HIDE DEF All
<1>10. QED BY <1>5, <1>8, <1>9

LEMMA NextFavoured == Snapshot /\ Favoured /\ [Next]_vars => Favoured'
<1>1. SUFFICES ASSUME Snapshot, Favoured, [Next]_vars PROVE Favoured' OBVIOUS
<1>2. CASE UNCHANGED vars
  <2>1. submission' = submission /\ ctx' = ctx BY <1>2 DEF vars
  <2>2. QED BY <1>1, <2>1, FavouredStays DEF Favoured
<1>3. CASE Next
  BY <1>1, <1>3, StagesFavoured, MemberFavoured, UnionFavoured, BindingsFavoured DEF Next
<1>4. QED BY <1>1, <1>2, <1>3

LEMMA FavouredAccepted == Favoured => RightGovernanceIsAccepted
<1>1. SUFFICES ASSUME Favoured, Right PROVE /\ Verdict(ctx) # "INVALID"
                                            /\ ctx.required = {} => Verdict(ctx) = "PASS"
  BY DEF RightGovernanceIsAccepted
<1>2. Clear(ctx) BY <1>1 DEF Favoured
<1>3. QED BY <1>2 DEF Clear, Verdict

\* What is right is accepted unless somebody stays silent, and is never refuted
\* for that, however many projects share the host: no rule of a stage asks for
\* more than the meaning it is there for (_bundle, _overlay,
\* _validate_same_host_snapshot, _check_contract_bindings).
THEOREM RightIsAccepted == Spec => []RightGovernanceIsAccepted
<1>1. Init => Snapshot /\ Favoured BY InitSnapshot, InitFavoured
<1>2. Snapshot /\ Favoured /\ [Next]_vars => (Snapshot /\ Favoured)' BY NextSnapshot, NextFavoured
<1>3. QED BY <1>1, <1>2, FavouredAccepted, PTL DEF Spec
=============================================================================
