----------------------------- MODULE PlanProps -----------------------------
(***************************************************************************)
(* What the acceptance and the refusal of a plan mean.                     *)
(***************************************************************************)
EXTENDS ContractPlan

CONSTANTS
  Paths,      \* every path that a plan or a view names, by its place in byte order
  Contents    \* the identities an ordinary file may have

Gone == "gone"   \* the identity of a file that does not exist

\* Paths and Contents are those of the plans, and files may differ.
ASSUME NamesAssumption ==
  /\ Paths \subseteq Int
  /\ Gone \notin Contents /\ \E x, y \in Contents : x # y
  /\ \A q \in Plans :
       LET aims == {t \in Range(q.transitions) : t.dimension = "tracked"}
       IN /\ {t.path : t \in Range(q.transitions)} \cup q.view.untracked \cup q.view.ignored \subseteq Paths
          /\ \A f \in {"index", "tracked", "submodules"} : DOMAIN q.view[f] \subseteq Paths
          /\ \A e \in Range(q.view.tracked) \cup UNION {t.to : t \in aims} :
               e.status \in {"clean", "deleted"} \/ e.work \in Contents
          /\ Range(q.view.identities) \subseteq Contents

Done == phase = "done"
Accepted == Done /\ Verdict(ctx) = "PASS"

-----------------------------------------------------------------------------
\* A state of a repository's files, told path by path.

Distinct(ts) ==
  \A i, j \in DOMAIN ts : i # j => <<ts[i].dimension, ts[i].path>> # <<ts[j].dimension, ts[j].path>>

\* The value every target has after the transitions, whatever their order.
Intended(view, dimension, p) ==
  LET aimed == {t \in Range(plan.transitions) : t.dimension = dimension /\ t.path = p}
  IN IF aimed = {} THEN TargetValue(view, dimension, p) ELSE UNION {t.to : t \in aimed}

\* Each path is one thing at most: a regular file with an entry in both the
\* index and the tracked set, a submodule, an untracked leaf or an ignored one.
OneThing(view, p) ==
  LET regular == p \in DOMAIN view.index /\ view.index[p].mode # Gitlink
      gitlink == p \in DOMAIN view.index /\ view.index[p].mode = Gitlink
  IN /\ regular <=> p \in DOMAIN view.tracked
     /\ gitlink <=> p \in DOMAIN view.submodules
     /\ regular => /\ view.tracked[p].mode = view.index[p].mode
                   /\ view.tracked[p].object = view.index[p].object
     /\ gitlink => view.submodules[p] = view.index[p].object
     /\ Cardinality({d \in {"tracked", "submodules"} : p \in DOMAIN view[d]}
                      \cup {d \in PathSets : p \in view[d]}) <= 1

\* A condition that says "exact" must have something to say.
Canonical(condition, dimension, view) ==
  CASE dimension = "head" -> condition = view.head
    [] dimension = "index" -> (condition.state = "clean") <=> (view.index = view.headEntries)
    [] dimension = "tracked" ->
         (condition.state = "exact") <=> \E p \in DOMAIN view.tracked : view.tracked[p].status # "clean"
    [] dimension = "submodules" -> (condition.state = "none") <=> (DOMAIN view.submodules = {})
    [] OTHER -> (condition.state = "none") <=> (view[dimension] = {})
Tells(condition, dimension, view) ==
  /\ Canonical(condition, dimension, view)
  /\ condition.state = "exact" => condition.entries = view[dimension]

\* What a view leaves possible for the ordinary file at a path.

Possible(view, p) ==
  IF p \in DOMAIN view.tracked
  THEN CASE view.tracked[p].status = "deleted" -> {Gone}
         [] view.tracked[p].status = "clean" ->
              IF p \in DOMAIN view.identities THEN {view.identities[p]} ELSE Contents
         [] OTHER -> {view.tracked[p].work}
  ELSE IF p \in view.untracked \cup view.ignored THEN Contents ELSE {Gone}

\* Every operation that some effect consistent with both states would take.
Effects(before, after) ==
  LET took(b, a) == IF b = a THEN {}
                    ELSE IF b = Gone THEN {"create"} ELSE IF a = Gone THEN {"delete"} ELSE {"modify"}
  IN UNION {UNION {took(b, a) : b \in Possible(before, p), a \in Possible(after, p)} : p \in Paths}

Staging == {"git-stage" : t \in {t \in Range(plan.transitions) : t.dimension = "index"}}

\* The plan as the contract's documentation has it, without an order of steps.
Composed(view) ==
  LET entries(d) ==
        LET here == {p \in Paths : Intended(view, d, p) # {}}
        IN [p \in here |-> CHOOSE v \in Intended(view, d, p) : TRUE]
      set(d) == {p \in Paths : Intended(view, d, p) # {}}
      opaque == {t.path : t \in {t \in Range(plan.transitions) : t.dimension = "tracked"}}
  IN [view EXCEPT !.index = entries("index"), !.tracked = entries("tracked"),
                  !.untracked = set("untracked"), !.ignored = set("ignored"),
                  !.identities = [p \in DOMAIN @ \ opaque |-> @[p]]]

WellFormed(view) ==
  /\ \A p \in Paths : OneThing(view, p)
  /\ \A p \in view.untracked \cup view.ignored :
       p \in DOMAIN view.leafKinds /\ view.leafKinds[p] \in LeafKinds

Right ==
  LET ts == plan.transitions
      end == Composed(plan.view)
  IN /\ \A i \in 2 .. Len(ts) : Precedes(ts[i - 1], ts[i])
     /\ \A t \in Range(ts) : /\ t.from = TargetValue(plan.view, t.dimension, t.path) /\ t.to # t.from
                             /\ t.jcs
                             /\ t.path \in plan.authorized.paths \ plan.prohibited.paths
     /\ WellFormed(plan.view) /\ WellFormed(end)
     /\ plan.view.head.state = "unborn" => plan.view.headEntries = << >>
     /\ \A d \in Dimensions : Tells(plan.baseline[d], d, plan.view)
     /\ Changed \subseteq DOMAIN plan.posts
     /\ \A d \in DOMAIN plan.posts : Tells(plan.posts[d], d, end)
     /\ plan.allowWrite => Effects(plan.view, end) \subseteq plan.authorized.capabilities
     /\ Staging \subseteq plan.authorized.capabilities
     /\ plan.authorized.paths \cap plan.prohibited.paths = {}
     /\ plan.authorized.capabilities \cap plan.prohibited.capabilities = {}
     /\ plan.scopeContained

-----------------------------------------------------------------------------
\* Transitions on different targets are simultaneous: the state they compose
\* does not depend on their order (_apply_simultaneous_transitions).
FinalIsSimultaneous ==
  \A view \in final : Distinct(plan.transitions) =>
    \A d \in Targets, p \in Paths : TargetValue(view, d, p) = Intended(plan.view, d, p)

\* An accepted plan starts and ends in a state where every path is one thing,
\* and the index says the same of it as the tracked set or the submodules
\* (_check_baseline_consistency on the baseline and on the final composite).
AcceptedPlanIsWellFormed ==
  Accepted => /\ final # {}
              /\ \A view \in final \cup {plan.view} : WellFormed(view)

\* Every condition of an accepted contract has the one canonical form of the
\* state it is about (_project_final_conditions, BASE.CANONICAL).
ConditionsAreCanonical ==
  Accepted => \A d \in Dimensions : Tells(plan.baseline[d], d, plan.view)

\* The accepted scope covers everything the plan may do: every path it makes
\* different, and every operation on a file, of which the two states do not tell
\* everything (_ordinary_operation_set, TA01-TA03, CONTRACT.REQUIRED_CAPS).
AuthorityCoversThePlan ==
  Accepted /\ plan.allowWrite => \A view \in final :
    /\ Effects(plan.view, view) \cup Staging
         \subseteq plan.authorized.capabilities \ plan.prohibited.capabilities
    /\ {p \in Paths : \E d \in Targets : TargetValue(plan.view, d, p) # TargetValue(view, d, p)}
         \subseteq plan.authorized.paths \ plan.prohibited.paths

\* Whatever an accepted plan changes it also promises, and every promise is
\* kept by the state it composes (_check_contract_postconditions).
PromisesAreKept ==
  Accepted => \A view \in final :
    /\ \A d \in DOMAIN plan.posts : Tells(plan.posts[d], d, view)
    /\ \A d \in Dimensions \ DOMAIN plan.posts :
         d \in Inventories => view[d] = plan.view[d]

\* A plan that is right is never refuted, whoever stays silent.
RightPlanIsNotRefuted == Done /\ Right => Verdict(ctx) # "INVALID"

\* tests/schema/test_static_diagnostics.py:25-31: a validator that raises is no
\* finding.
MissingValidatorIsNoFinding ==
  "VALIDATOR.STRUCTURED_ERRORS" \in ctx.required /\ Right => Verdict(ctx) = "PROOF_REQUIRED"
=============================================================================
