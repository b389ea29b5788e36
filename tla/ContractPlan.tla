---------------------------- MODULE ContractPlan ----------------------------
(***************************************************************************)
(* The part of a task-contract call that is about its plan: the supplied   *)
(* materialisation of the baseline, the consistency of the nine baseline   *)
(* conditions, the declared transitions, the state they compose, and the   *)
(* capabilities and postconditions that state calls for                    *)
(* (_static_baseline.py and _check_contract_plan of _static_contract.py).  *)
(*                                                                         *)
(* An inventory is a function from paths to entries, or a set of paths;    *)
(* that its array is ordered and names no path twice (BASE.PATH_IDENTITIES *)
(* and BASE.OBSERVATIONS) is left out.  "head" stands for every dimension  *)
(* that no transition can change.  The value of a target is a set with at  *)
(* most one member.                                                        *)
(***************************************************************************)
EXTENDS StaticContext, Integers, FiniteSets, Functions, SequencesExt

CONSTANTS
  Plans,        \* the contracts explored, each with its materialisation
  Unreliable    \* who may fail to answer: baseline, paths, comparison, validator

VARIABLES plan, phase, at, materialized, fromValid, final, ctx

vars == <<plan, phase, at, materialized, fromValid, final, ctx>>

Inventories == {"index", "tracked", "untracked", "ignored", "submodules"}
Dimensions  == {"head"} \cup Inventories
PathSets    == {"untracked", "ignored"}
Targets     == Inventories \ {"submodules"}
LeafKinds   == {"100644", "100755", "120000"}
Gitlink     == "160000"

Violated(rules) == {r[1] : r \in {r \in rules : ~r[2]}}

-----------------------------------------------------------------------------
\* Conditions, and the projection of a view on them.

Word(state) == [state |-> state]
Exact(entries) == [state |-> "exact", entries |-> entries]
Bare(dimension) == Word(IF dimension \in {"index", "tracked"} THEN "clean" ELSE "none")
Entries(condition) == IF condition.state = "exact" THEN condition.entries ELSE << >>
Members(condition) == IF condition.state = "exact" THEN condition.entries ELSE {}

\* Mutant of Project: one clean entry makes the whole dimension clean.
ProjectSomeClean(view) ==
  [d \in Dimensions |->
     CASE d = "head" -> view.head
       [] d = "index" -> IF view.index = view.headEntries THEN Word("clean") ELSE Exact(view.index)
       [] d = "tracked" ->
            IF view.tracked = << >> \/ \E p \in DOMAIN view.tracked : view.tracked[p].status = "clean"
            THEN Word("clean") ELSE Exact(view.tracked)
       [] d = "submodules" -> IF view.submodules = << >> THEN Word("none") ELSE Exact(view.submodules)
       [] OTHER -> IF view[d] = {} THEN Word("none") ELSE Exact(view[d])]

Project(view) ==
  [d \in Dimensions |->
     CASE d = "head" -> view.head
       [] d = "index" -> IF view.index = view.headEntries THEN Word("clean") ELSE Exact(view.index)
       [] d = "tracked" ->
            IF \A p \in DOMAIN view.tracked : view.tracked[p].status = "clean"
            THEN Word("clean") ELSE Exact(view.tracked)
       [] d = "submodules" -> IF view.submodules = << >> THEN Word("none") ELSE Exact(view.submodules)
       [] OTHER -> IF view[d] = {} THEN Word("none") ELSE Exact(view[d])]

\* The materialised inventories or, where there are none, those the conditions
\* spell out.
Shown(conditions, supplied) ==
  IF supplied # {} THEN CHOOSE v \in supplied : TRUE
  ELSE [index      |-> Entries(conditions.index),
        tracked    |-> Entries(conditions.tracked),
        submodules |-> Entries(conditions.submodules),
        untracked  |-> Members(conditions.untracked),
        ignored    |-> Members(conditions.ignored)]

\* _check_baseline_consistency
Consistency(conditions, supplied) ==
  LET shown == Shown(conditions, supplied)
      whole(d) == supplied # {} \/ conditions[d].state = "exact"
      index == shown.index   tracked == shown.tracked   submodules == shown.submodules
      leaves == shown.untracked \cup shown.ignored
      gitlinks == {p \in DOMAIN index : index[p].mode = Gitlink}
      regular == DOMAIN index \ gitlinks
  IN {<<"BASE.TRACKED_EXACT", conditions.tracked.state = "exact" =>
         \E p \in DOMAIN conditions.tracked.entries : conditions.tracked.entries[p].status # "clean">>,
      <<"BASE.TRACKED_INDEX", whole("index") /\ whole("tracked") =>
         \A p \in DOMAIN tracked : /\ p \in regular
                                   /\ tracked[p].mode = index[p].mode
                                   /\ tracked[p].object = index[p].object>>,
      <<"BASE.COVERAGE", whole("index") =>
         /\ whole("tracked") => regular = DOMAIN tracked
         /\ DOMAIN tracked \cap DOMAIN submodules = {}>>,
      <<"BASE.SUBMODULE_INDEX", whole("index") =>
         /\ gitlinks = DOMAIN submodules
         /\ \A p \in gitlinks \cap DOMAIN submodules : submodules[p] = index[p].object
         /\ conditions.submodules.state = "none" <=> gitlinks = {}>>,
      <<"BASE.DISJOINT",
         /\ shown.untracked \cap shown.ignored = {}
         /\ leaves \cap (DOMAIN index \cup DOMAIN tracked \cup DOMAIN submodules) = {}
         /\ DOMAIN tracked \cap DOMAIN submodules = {}>>,
      <<"BASE.CANONICAL",
         IF supplied # {} THEN conditions = Project(shown)
         ELSE conditions.head.state = "unborn" /\ conditions.index.state = "exact" => index # << >> >>,
      <<"PROOF.DIRECTORY_CLASS", \A view \in supplied : \A p \in leaves \cap DOMAIN view.leafKinds :
         view.leafKinds[p] \in LeafKinds>>}

\* What it does to a context: a leaf of unknown kind leaves an obligation.
CheckBaselineConsistency(c, conditions, supplied) ==
  LET reported == Report(c, Violated(Consistency(conditions, supplied)))
      unknown == UNION {(v.untracked \cup v.ignored) \ DOMAIN v.leafKinds : v \in supplied}
  IN IF unknown = {} THEN reported ELSE Unavailable(reported, "PROOF.DIRECTORY_CLASS", TRUE)

-----------------------------------------------------------------------------
\* What the schemas and the materialisation say of a plan: its view is a record
\* of functions and sets, HEAD is a commit or unborn, a condition is a bare word
\* or spells its inventory out, a transition is about one target, whose new
\* value is at most one, and postconditions are about dimensions.
ASSUME PlansAssumption ==
  \A q \in Plans :
    /\ q.view = [f \in Dimensions \cup {"headEntries", "identities", "leafKinds"} |-> q.view[f]]
    /\ q.view.head.state # "exact"
    /\ \A f \in {"index", "tracked", "submodules", "identities"} :
         q.view[f] = [p \in DOMAIN q.view[f] |-> q.view[f][p]]
    /\ q.baseline = [d \in Dimensions |-> q.baseline[d]]
    /\ \A d \in Inventories :
         q.baseline[d] = Bare(d) \/ q.baseline[d] = Exact(q.baseline[d].entries)
    /\ DOMAIN q.posts \subseteq Dimensions
    /\ \A d \in DOMAIN q.posts \ {"head"} :
         q.posts[d] = Bare(d) \/ q.posts[d] = Exact(q.posts[d].entries)
    /\ q.transitions \in Seq(Range(q.transitions))
    /\ \A t \in Range(q.transitions) :
         /\ t.dimension \in Targets
         /\ t.dimension \in PathSets => t.to \subseteq {"present"}
         /\ \A v, w \in t.to : v = w

-----------------------------------------------------------------------------
\* Transitions.

Drop(f, p) == Restrict(f, DOMAIN f \ {p})
Put(f, p, value) == [x \in DOMAIN f \cup {p} |-> IF x = p THEN value ELSE f[x]]

\* _baseline_target_value
TargetValue(view, dimension, p) ==
  IF dimension \in PathSets THEN {"present" : q \in view[dimension] \cap {p}}
  ELSE {view[dimension][q] : q \in DOMAIN view[dimension] \cap {p}}

\* Mutant of ApplyOne: a target that becomes absent keeps its entry.
ApplyPresent(view, t) ==
  LET fresh == IF t.dimension = "tracked" THEN [view EXCEPT !.identities = Drop(@, t.path)] ELSE view
  IN IF t.to = {} /\ t.dimension \notin PathSets THEN view
     ELSE [fresh EXCEPT ![t.dimension] =
            IF t.dimension \in PathSets THEN (@ \ {t.path}) \cup {p \in {t.path} : t.to # {}}
            ELSE Put(@, t.path, CHOOSE v \in t.to : TRUE)]

\* One turn of the loop of _apply_simultaneous_transitions.  An entry that is
\* replaced is a new object, of which the view knows no checkout identity.
ApplyOne(view, t) ==
  LET fresh == IF t.dimension = "tracked" THEN [view EXCEPT !.identities = Drop(@, t.path)] ELSE view
  IN [fresh EXCEPT ![t.dimension] =
       IF t.dimension \in PathSets THEN (@ \ {t.path}) \cup {p \in {t.path} : t.to # {}}
       ELSE IF t.to = {} THEN Drop(@, t.path) ELSE Put(@, t.path, CHOOSE v \in t.to : TRUE)]

Apply(view, transitions) == FoldLeft(ApplyOne, view, transitions)

\* T(transition): by type name, then by path.
Rank == [ignored |-> 1, index |-> 2, tracked |-> 3, untracked |-> 4]
Precedes(t, u) == \/ Rank[t.dimension] < Rank[u.dimension]
                  \/ t.dimension = u.dimension /\ t.path < u.path

\* _ordinary_projection: the leaves of a view, with their identity if known.
OrdinaryProjection(view) ==
  LET identity(p) == IF view.tracked[p].status = "clean"
                     THEN {view.identities[q] : q \in DOMAIN view.identities \cap {p}}
                     ELSE {view.tracked[p].work}
      listed == {p \in DOMAIN view.tracked : view.tracked[p].status # "deleted"}
      leaves == view.untracked \cup view.ignored
  IN [p \in listed \cup leaves |-> IF p \in leaves THEN {} ELSE identity(p)]

\* Mutant of OrdinaryOperationSet: two leaves of unknown identity are taken to
\* be the same leaf.
OperationSetOfKnown(before, after) ==
     {"create" : p \in DOMAIN after \ DOMAIN before}
  \cup {"delete" : p \in DOMAIN before \ DOMAIN after}
  \cup {"modify" : p \in {p \in DOMAIN before \cap DOMAIN after : before[p] # after[p]}}

OrdinaryOperationSet(before, after) ==
     {"create" : p \in DOMAIN after \ DOMAIN before}
  \cup {"delete" : p \in DOMAIN before \ DOMAIN after}
  \cup {"modify" : p \in {p \in DOMAIN before \cap DOMAIN after :
                            before[p] = {} \/ after[p] = {} \/ before[p] # after[p]}}

Changed == {t.dimension : t \in Range(plan.transitions)}

\* _check_required_plan_capabilities
CapabilityRules(operations) ==
  LET staging == "index" \in Changed
      required == operations \cup {"git-stage" : x \in {x \in {0} : staging}}
  IN {<<"TA03", staging => "git-stage" \in plan.authorized.capabilities>>,
      <<"CONTRACT.REQUIRED_CAPS", /\ required \subseteq plan.authorized.capabilities
                                  /\ required \cap plan.prohibited.capabilities = {}>>}

\* Mutant of PostconditionRules: a postcondition is compared with the baseline.
PostconditionRulesOfBaseline(conditions) ==
  {<<"CONTRACT.POST_FINAL", /\ Changed \subseteq DOMAIN plan.posts
                            /\ \A d \in DOMAIN plan.posts \ Changed : plan.posts[d] = plan.baseline[d]>>}

\* Mutant of PostconditionRules: without a final state everything is expected
\* to stay as it was.
PostconditionRulesEager(conditions) ==
  {<<"CONTRACT.POST_FINAL", \A c \in {plan.baseline : x \in {x \in {0} : conditions = {}}} \cup conditions :
       \A d \in DOMAIN plan.posts : plan.posts[d] = c[d]>>}

\* _check_contract_postconditions; without a final state, a dimension that
\* changes is not compared.
PostconditionRules(conditions) ==
  {<<"CONTRACT.POST_FINAL", Changed \subseteq DOMAIN plan.posts>>,
   <<"CONTRACT.POST_FINAL", \A d \in DOMAIN plan.posts :
       IF conditions # {} THEN \A c \in conditions : plan.posts[d] = c[d]
       ELSE d \notin Changed => plan.posts[d] = plan.baseline[d]>>}

-----------------------------------------------------------------------------
Init ==
  /\ plan \in Plans
  /\ phase = "materialize" /\ at = 1 /\ fromValid = TRUE
  /\ materialized = {} /\ final = {} /\ ctx = NewContext

\* _consume_materialized_baseline: no answer, or an answer about something
\* else, leaves the baseline without a view.
ConsumeMaterializedBaseline ==
  /\ phase = "materialize" /\ phase' = "baseline"
  /\ \/ materialized' = {plan.view} /\ ctx' = ctx
     \/ /\ "baseline" \in Unreliable
        /\ \E direct \in BOOLEAN :
             ctx' = LeaveUnevaluated(Unavailable(ctx, "PROOF.BASELINE", direct))
        /\ UNCHANGED materialized
  /\ UNCHANGED <<plan, at, fromValid, final>>

CheckBaseline ==
  /\ phase = "baseline" /\ phase' = "plan"
  /\ ctx' = CheckBaselineConsistency(ctx, plan.baseline, materialized)
  /\ UNCHANGED <<plan, at, materialized, fromValid, final>>

\* The head of _check_contract_plan.
CheckPlan ==
  /\ phase = "plan" /\ phase' = "transition"
  /\ LET ts == plan.transitions
     IN ctx' = Report(ctx, Violated({
          <<"CONTRACT.SCOPE_DISJOINT", \A field \in {"paths", "capabilities"} :
              plan.authorized[field] \cap plan.prohibited[field] = {}>>,
          <<"CONTRACT.TARGETS", /\ \A i \in 2 .. Len(ts) : Precedes(ts[i - 1], ts[i])
                                /\ \A i \in DOMAIN ts : ts[i].from # ts[i].to>>,
          <<"CONTRACT.POST_UNIQUE", plan.scopeContained>>}))
  /\ UNCHANGED <<plan, at, materialized, fromValid, final>>

\* One turn of its loop: the path against both scopes, whose languages may not
\* be decidable, then "from" against the baseline.
CheckTransition ==
  /\ phase = "transition" /\ at <= Len(plan.transitions)
  /\ LET t == plan.transitions[at]
     IN \E open \in SUBSET (IF "paths" \in Unreliable THEN {"TA01", "TA02"} ELSE {}) :
          LET checked == Report(ctx, Violated({<<"TA01", t.path \in plan.authorized.paths>>,
                                               <<"TA02", t.path \notin plan.prohibited.paths>>}) \ open)
              scoped == IF open = {} THEN checked ELSE Unavailable(checked, "D10.path-proof-unavailable", TRUE)
          IN \/ materialized = {} /\ ctx' = scoped /\ fromValid' = FALSE
             \/ \E view \in materialized :
                  IF TargetValue(view, t.dimension, t.path) # t.from
                  THEN ctx' = Report(scoped, {"CONTRACT.APPLY"}) /\ fromValid' = FALSE
                  ELSE \/ /\ ctx' = Report(scoped, IF t.jcs THEN {} ELSE {"PROOF.TRANSITION_JCS"})
                          /\ fromValid' = (t.jcs /\ fromValid)
                       \/ /\ "comparison" \in Unreliable
                          /\ ctx' = LeaveUnevaluated(Unavailable(scoped, "PROOF.TRANSITION_JCS", FALSE))
                          /\ fromValid' = FALSE
  /\ at' = at + 1
  /\ UNCHANGED <<plan, phase, materialized, final>>

\* Without a baseline to apply them to, only what is declared is compared.
LeaveUncomposed ==
  /\ phase = "transition" /\ at > Len(plan.transitions) /\ phase' = "done"
  /\ materialized = {} \/ ~fromValid
  /\ ctx' = Report(ctx, Violated(PostconditionRules({})))
  /\ UNCHANGED <<plan, at, materialized, fromValid, final>>

\* Mutant of ComposeFinal: the composed state is not examined.
ComposeUnexamined ==
  /\ phase = "transition" /\ at > Len(plan.transitions) /\ phase' = "done"
  /\ fromValid
  /\ \E view \in materialized :
       LET composed == Apply(view, plan.transitions)
           operations == IF plan.allowWrite
                         THEN OrdinaryOperationSet(OrdinaryProjection(view), OrdinaryProjection(composed)) ELSE {}
       IN /\ ctx' = Report(ctx, Violated(CapabilityRules(operations) \cup PostconditionRules({Project(composed)})))
          /\ final' = {composed}
  /\ UNCHANGED <<plan, at, materialized, fromValid>>

\* The composed state is examined as a baseline of its own; only one without a
\* finding has its capabilities and postconditions compared, and is returned.
\* Where the structural validator raises, an obligation and a defect are left.
ComposeFinal ==
  /\ phase = "transition" /\ at > Len(plan.transitions) /\ phase' = "done"
  /\ fromValid
  /\ \E view \in materialized :
       LET composed == Apply(view, plan.transitions)
           examined(c) == CheckBaselineConsistency(c, Project(composed), {composed})
           operations == IF plan.allowWrite
                         THEN OrdinaryOperationSet(OrdinaryProjection(view), OrdinaryProjection(composed)) ELSE {}
       IN \/ /\ examined(NewContext).diagnostics = {}
             /\ ctx' = Report(ctx, Violated(CapabilityRules(operations)
                                              \cup PostconditionRules({Project(composed)})))
             /\ final' = {composed}
          \/ /\ examined(NewContext).diagnostics # {}
             /\ ctx' = examined(ctx)
             /\ UNCHANGED final
          \/ /\ "validator" \in Unreliable
             /\ ctx' = Report(Unavailable(ctx, "VALIDATOR.STRUCTURED_ERRORS", TRUE), {"CONTRACT.FINAL"})
             /\ UNCHANGED final
  /\ UNCHANGED <<plan, at, materialized, fromValid>>

Next == \/ ConsumeMaterializedBaseline \/ CheckBaseline \/ CheckPlan
        \/ CheckTransition \/ LeaveUncomposed \/ ComposeFinal

Spec == Init /\ [][Next]_vars
=============================================================================
