----------------------------- MODULE PlanProofs -----------------------------
(***************************************************************************)
(* Proofs about ContractPlan, for any plans and any number of paths.       *)
(***************************************************************************)
EXTENDS PlanProps, CommonProofs, FiniteSetTheorems

\* A view as the rules leave it where they find nothing.
Unknown(view) == (view.untracked \cup view.ignored) \ DOMAIN view.leafKinds
Holds(conditions, view) == Violated(Consistency(conditions, {view})) = {} /\ Unknown(view) = {}

LEMMA AllHold ==
  ASSUME NEW R, Violated(R) = {} PROVE \A x \in R : x[2]
<1>1. \A x \in R : ~x[2] => x[1] \in Violated(R) BY DEF Violated
<1>2. QED BY <1>1

\* The rules over the one view there is.
LEMMA RulesSay ==
  ASSUME NEW conditions, NEW view, Violated(Consistency(conditions, {view})) = {}
  PROVE  /\ \A p \in DOMAIN view.tracked :
              /\ p \in DOMAIN view.index /\ view.index[p].mode # Gitlink
              /\ view.tracked[p].mode = view.index[p].mode
              /\ view.tracked[p].object = view.index[p].object
         /\ \A p \in DOMAIN view.index : view.index[p].mode # Gitlink => p \in DOMAIN view.tracked
         /\ \A p : p \in DOMAIN view.submodules <=> p \in DOMAIN view.index /\ view.index[p].mode = Gitlink
         /\ \A p \in DOMAIN view.submodules : view.submodules[p] = view.index[p].object
         /\ view.untracked \cap view.ignored = {}
         /\ (view.untracked \cup view.ignored) \cap
              (DOMAIN view.index \cup DOMAIN view.tracked \cup DOMAIN view.submodules) = {}
         /\ DOMAIN view.tracked \cap DOMAIN view.submodules = {}
         /\ conditions = Project(view)
         /\ \A p \in (view.untracked \cup view.ignored) \cap DOMAIN view.leafKinds : view.leafKinds[p] \in LeafKinds
<1> DEFINE supplied == {view}
<1>1. Shown(conditions, supplied) = view BY DEF Shown
<1>2. supplied # {} OBVIOUS
<1>3. \A x \in Consistency(conditions, supplied) : x[2] BY AllHold
<1>4. view \in supplied OBVIOUS
<1> HIDE DEF supplied
<1>5. \A p \in DOMAIN view.tracked :
         /\ p \in DOMAIN view.index /\ view.index[p].mode # Gitlink
         /\ view.tracked[p].mode = view.index[p].mode
         /\ view.tracked[p].object = view.index[p].object
  BY <1>1, <1>2, <1>3 DEF Consistency
<1>6. /\ \A p \in DOMAIN view.index : view.index[p].mode # Gitlink => p \in DOMAIN view.tracked
      /\ DOMAIN view.tracked \cap DOMAIN view.submodules = {}
  BY <1>1, <1>2, <1>3 DEF Consistency
<1>7. /\ \A p : p \in DOMAIN view.submodules <=> p \in DOMAIN view.index /\ view.index[p].mode = Gitlink
      /\ \A p \in DOMAIN view.submodules : view.submodules[p] = view.index[p].object
  BY <1>1, <1>2, <1>3 DEF Consistency
<1>8. /\ view.untracked \cap view.ignored = {}
      /\ (view.untracked \cup view.ignored) \cap
           (DOMAIN view.index \cup DOMAIN view.tracked \cup DOMAIN view.submodules) = {}
  BY <1>1, <1>2, <1>3 DEF Consistency
<1>9. conditions = Project(view) BY <1>1, <1>2, <1>3 DEF Consistency
<1>10. \A p \in (view.untracked \cup view.ignored) \cap DOMAIN view.leafKinds : view.leafKinds[p] \in LeafKinds
  BY <1>1, <1>2, <1>3, <1>4 DEF Consistency
<1>11. QED BY <1>5, <1>6, <1>7, <1>8, <1>9, <1>10

LEMMA AtMostOne ==
  ASSUME NEW S, \A a, b \in S : a = b PROVE Cardinality(S) <= 1
<1>1. CASE S = {} BY <1>1, FS_EmptySet
<1>2. CASE S # {}
  <2>1. PICK a \in S : TRUE BY <1>2
  <2>2. S = {a} BY <2>1
  <2>3. Cardinality({a}) = 1 BY FS_Singleton
  <2>4. QED BY <2>2, <2>3
<1>3. QED BY <1>1, <1>2

LEMMA HoldsWellFormed ==
  ASSUME NEW conditions, NEW view, Holds(conditions, view) PROVE WellFormed(view)
<1>1. Violated(Consistency(conditions, {view})) = {} /\ Unknown(view) = {} BY DEF Holds
<1>2. ASSUME NEW p PROVE OneThing(view, p)
  <2> DEFINE kinds == {d \in {"tracked", "submodules"} : p \in DOMAIN view[d]}
                        \cup {d \in PathSets : p \in view[d]}
  <2>1. ~(p \in DOMAIN view.tracked /\ p \in DOMAIN view.submodules) BY <1>1, RulesSay
  <2>2. ~(p \in view.untracked /\ p \in view.ignored) BY <1>1, RulesSay
  <2>3. ~(p \in view.untracked \cup view.ignored /\ p \in DOMAIN view.tracked \cup DOMAIN view.submodules)
    BY <1>1, RulesSay
  <2>4. \A a, b \in kinds : a = b BY <2>1, <2>2, <2>3 DEF PathSets
  <2> HIDE DEF kinds
  <2>5. Cardinality(kinds) <= 1 BY <2>4, AtMostOne
  <2>6. /\ p \in DOMAIN view.index /\ view.index[p].mode # Gitlink <=> p \in DOMAIN view.tracked
        /\ p \in DOMAIN view.index /\ view.index[p].mode = Gitlink <=> p \in DOMAIN view.submodules
        /\ p \in DOMAIN view.tracked => /\ view.tracked[p].mode = view.index[p].mode
                                        /\ view.tracked[p].object = view.index[p].object
        /\ p \in DOMAIN view.submodules => view.submodules[p] = view.index[p].object
    BY <1>1, RulesSay
  <2>7. QED BY <2>5, <2>6 DEF OneThing, kinds
<1>3. \A p \in view.untracked \cup view.ignored :
        p \in DOMAIN view.leafKinds /\ view.leafKinds[p] \in LeafKinds
  <2>1. \A p \in (view.untracked \cup view.ignored) \cap DOMAIN view.leafKinds : view.leafKinds[p] \in LeafKinds
    BY <1>1, RulesSay
  <2>2. \A p \in view.untracked \cup view.ignored : p \in DOMAIN view.leafKinds BY <1>1 DEF Unknown
  <2>3. QED BY <2>1, <2>2
<1>4. QED BY <1>2, <1>3 DEF WellFormed

LEMMA EmptyFunction ==
  ASSUME NEW f, f = [x \in DOMAIN f |-> f[x]] PROVE DOMAIN f = {} <=> f = << >>
<1>1. DOMAIN << >> = {} OBVIOUS
<1>2. ASSUME DOMAIN f = {} PROVE f = << >>
  <2>1. f = [x \in {} |-> f[x]] BY <1>2
  <2>2. << >> = [x \in {} |-> << >>[x]] BY <1>1
  <2>3. [x \in {} |-> f[x]] = [x \in {} |-> << >>[x]] OBVIOUS
  <2>4. QED BY <2>1, <2>2, <2>3
<1>3. QED BY <1>1, <1>2

LEMMA HoldsTells ==
  ASSUME NEW conditions, NEW view, Holds(conditions, view), view.head.state # "exact",
         view.submodules = [p \in DOMAIN view.submodules |-> view.submodules[p]],
         NEW d \in Dimensions
  PROVE  Tells(conditions[d], d, view)
<1>1. conditions = Project(view) BY RulesSay DEF Holds
<1>2. CASE d = "head"
  <2>1. conditions[d] = view.head BY <1>1, <1>2 DEF Project, Dimensions
  <2>2. QED BY <1>2, <2>1 DEF Tells, Canonical
<1>3. CASE d = "index"
  <2>1. conditions[d] = IF view.index = view.headEntries THEN Word("clean") ELSE Exact(view.index)
    BY <1>1, <1>3 DEF Project, Dimensions, Inventories
  <2>2. QED BY <1>3, <2>1 DEF Tells, Canonical, Word, Exact
<1>4. CASE d = "tracked"
  <2>1. conditions[d] = IF \A p \in DOMAIN view.tracked : view.tracked[p].status = "clean"
                        THEN Word("clean") ELSE Exact(view.tracked)
    BY <1>1, <1>4 DEF Project, Dimensions, Inventories
  <2>2. QED BY <1>4, <2>1 DEF Tells, Canonical, Word, Exact
<1>5. CASE d = "submodules"
  <2>1. conditions[d] = IF view.submodules = << >> THEN Word("none") ELSE Exact(view.submodules)
    BY <1>1, <1>5 DEF Project, Dimensions, Inventories
  <2>2. DOMAIN view.submodules = {} <=> view.submodules = << >> BY EmptyFunction
  <2>3. QED BY <1>5, <2>1, <2>2 DEF Tells, Canonical, Word, Exact
<1>6. CASE d \in PathSets
  <2>1. conditions[d] = IF view[d] = {} THEN Word("none") ELSE Exact(view[d])
    BY <1>1, <1>6 DEF Project, Dimensions, Inventories, PathSets
  <2>2. QED BY <1>6, <2>1 DEF Tells, Canonical, Word, Exact, PathSets
<1>7. QED BY <1>2, <1>3, <1>4, <1>5, <1>6 DEF Dimensions, Inventories, PathSets

-----------------------------------------------------------------------------
\* What an examination leaves in a context.

LEMMA ExamineFacts ==
  ASSUME NEW c, Well(c), NEW conditions, NEW supplied
  PROVE  Onward(CheckBaselineConsistency(c, conditions, supplied), c)
<1> DEFINE d == Report(c, Violated(Consistency(conditions, supplied)))
           k == CheckBaselineConsistency(c, conditions, supplied)
<1>1. k = d \/ k = Unavailable(d, "PROOF.DIRECTORY_CLASS", TRUE) BY DEF CheckBaselineConsistency
<1>2. Onward(d, c) BY ReportFacts
<1> HIDE DEF d, k
<1>3. CASE k = d BY <1>2, <1>3 DEF k
<1>4. CASE k = Unavailable(d, "PROOF.DIRECTORY_CLASS", TRUE)
  <2>1. Onward(k, d) BY <1>2, <1>4, UnavailableFacts DEF Onward
  <2>2. QED BY <1>2, <2>1 DEF Onward, k
<1>5. QED BY <1>1, <1>3, <1>4

\* The examination of one view: untainted, or without a diagnostic, only if the
\* rules hold of it.
LEMMA ExaminedHolds ==
  ASSUME NEW c, Well(c), NEW conditions, NEW view
  PROVE  LET k == CheckBaselineConsistency(c, conditions, {view})
         IN /\ Untainted(k) => Holds(conditions, view)
            /\ c = NewContext => (k.diagnostics = {} <=> Holds(conditions, view))
<1> DEFINE V == Violated(Consistency(conditions, {view}))
           d == Report(c, V)
           k == CheckBaselineConsistency(c, conditions, {view})
<1>1. UNION {(v.untracked \cup v.ignored) \ DOMAIN v.leafKinds : v \in {view}} = Unknown(view) BY DEF Unknown
<1>2. k = IF Unknown(view) = {} THEN d ELSE Unavailable(d, "PROOF.DIRECTORY_CLASS", TRUE)
  BY <1>1 DEF CheckBaselineConsistency
<1>3. Holds(conditions, view) <=> V = {} /\ Unknown(view) = {} BY DEF Holds
<1>4. Well(d) /\ (~d.failed => V = {}) BY ReportFacts DEF Onward
<1>5. c = NewContext => d.diagnostics = V BY DEF Report, NewContext
<1> HIDE DEF V, d
<1>6. CASE Unknown(view) = {}
  <2>1. k = d BY <1>2, <1>6
  <2>2. QED BY <1>3, <1>4, <1>5, <1>6, <2>1 DEF Untainted
<1>7. CASE Unknown(view) # {}
  <2>1. k = Unavailable(d, "PROOF.DIRECTORY_CLASS", TRUE) BY <1>2, <1>7
  <2>2. ~Untainted(k) BY <1>4, <2>1, UnavailableFacts
  <2>3. PICK U : d \in ContextType(U, {}) BY <1>4 DEF Well
  <2>4. k.diagnostics = d.diagnostics \cup {"PROOF.DIRECTORY_CLASS"}
    BY <2>1, <2>3 DEF Unavailable, ContextType
  <2>5. QED BY <1>3, <1>7, <2>2, <2>4
<1>8. QED BY <1>6, <1>7

-----------------------------------------------------------------------------
\* The inductive invariant: beyond a stage, its rules hold of its view.
Inv ==
  /\ plan \in Plans /\ Well(ctx)
  /\ materialized \subseteq {plan.view}
  /\ phase # "materialize" /\ Untainted(ctx) => materialized # {}
  /\ phase \in {"plan", "transition", "done"} /\ Untainted(ctx) => Holds(plan.baseline, plan.view)
  /\ Untainted(ctx) => fromValid
  /\ \A view \in final : Holds(Project(view), view)
  /\ phase = "done" /\ Untainted(ctx) => final # {}

LEMMA InitInv == Init => Inv
BY NewFacts DEF Init, Inv

\* A context that only grows, where nothing else that counts changes.
LEMMA GrowsInv ==
  ASSUME Inv, phase \in {"plan", "transition"}, phase' \in {"plan", "transition"}, Onward(ctx', ctx),
         UNCHANGED <<plan, materialized, final>>, Untainted(ctx') /\ fromValid => fromValid'
  PROVE  Inv'
BY DEF Inv, Onward

LEMMA MaterializeInv == Inv /\ ConsumeMaterializedBaseline => Inv'
<1>1. SUFFICES ASSUME Inv, ConsumeMaterializedBaseline PROVE Inv' OBVIOUS
<1>2. phase' = "baseline" /\ UNCHANGED <<plan, fromValid, final>> /\ fromValid' = fromValid
  BY <1>1 DEF ConsumeMaterializedBaseline
<1>3. CASE materialized' = {plan.view} /\ ctx' = ctx
  BY <1>1, <1>2, <1>3 DEF Inv
<1>4. CASE /\ \E direct \in BOOLEAN : ctx' = LeaveUnevaluated(Unavailable(ctx, "PROOF.BASELINE", direct))
           /\ UNCHANGED materialized
  <2>1. PICK direct \in BOOLEAN : ctx' = LeaveUnevaluated(Unavailable(ctx, "PROOF.BASELINE", direct)) BY <1>4
  <2>2. Well(Unavailable(ctx, "PROOF.BASELINE", direct)) BY <1>1, UnavailableFacts DEF Inv, Onward
  <2>3. Well(ctx') /\ ~Untainted(ctx') BY <2>1, <2>2, LeaveFacts DEF Onward
  <2>4. QED BY <1>1, <1>2, <1>4, <2>3 DEF Inv
<1>5. QED BY <1>1, <1>3, <1>4 DEF ConsumeMaterializedBaseline

LEMMA BaselineInv == Inv /\ CheckBaseline => Inv'
<1>1. SUFFICES ASSUME Inv, CheckBaseline PROVE Inv' OBVIOUS
<1>2. /\ phase = "baseline" /\ phase' = "plan" /\ plan' = plan /\ materialized' = materialized
      /\ fromValid' = fromValid /\ final' = final
      /\ ctx' = CheckBaselineConsistency(ctx, plan.baseline, materialized)
  BY <1>1 DEF CheckBaseline
<1>3. Onward(ctx', ctx) BY <1>1, <1>2, ExamineFacts DEF Inv
<1>4. Untainted(ctx') => Holds(plan.baseline, plan.view)
  <2>1. SUFFICES ASSUME Untainted(ctx') PROVE Holds(plan.baseline, plan.view) OBVIOUS
  <2>2. materialized = {plan.view} BY <1>1, <1>2, <1>3, <2>1 DEF Inv, Onward
  <2>3. QED BY <1>1, <1>2, <2>1, <2>2, ExaminedHolds DEF Inv
<1>5. QED BY <1>1, <1>2, <1>3, <1>4 DEF Inv, Onward

LEMMA PlanInv == Inv /\ CheckPlan => Inv'
<1>1. SUFFICES ASSUME Inv, CheckPlan PROVE Inv' OBVIOUS
<1>2. \E v : ctx' = Report(ctx, v) BY <1>1 DEF CheckPlan
<1>3. Onward(ctx', ctx) BY <1>1, <1>2, ReportFacts DEF Inv
<1>4. QED BY <1>1, <1>3, GrowsInv DEF CheckPlan

LEMMA TransitionInv == Inv /\ CheckTransition => Inv'
<1>1. SUFFICES ASSUME Inv, CheckTransition PROVE Inv' OBVIOUS
<1>2. PICK t, v, open, scoped, view :
        /\ scoped = IF open THEN Report(ctx, v)
                    ELSE Unavailable(Report(ctx, v), "D10.path-proof-unavailable", TRUE)
        /\ \/ ctx' = scoped /\ fromValid' = FALSE /\ materialized = {}
           \/ ctx' = Report(scoped, {"CONTRACT.APPLY"}) /\ fromValid' = FALSE
           \/ /\ ctx' = Report(scoped, IF t.jcs THEN {} ELSE {"PROOF.TRANSITION_JCS"})
              /\ fromValid' = (t.jcs /\ fromValid)
           \/ /\ ctx' = LeaveUnevaluated(Unavailable(scoped, "PROOF.TRANSITION_JCS", FALSE))
              /\ fromValid' = FALSE
  <2>1. PICK open \in SUBSET {"TA01", "TA02"} :
          LET t == plan.transitions[at]
              checked == Report(ctx, Violated({<<"TA01", t.path \in plan.authorized.paths>>,
                                               <<"TA02", t.path \notin plan.prohibited.paths>>}) \ open)
              scoped == IF open = {} THEN checked ELSE Unavailable(checked, "D10.path-proof-unavailable", TRUE)
          IN \/ materialized = {} /\ ctx' = scoped /\ fromValid' = FALSE
             \/ \E view \in materialized :
                  IF TargetValue(view, t.dimension, t.path) # t.from
                  THEN ctx' = Report(scoped, {"CONTRACT.APPLY"}) /\ fromValid' = FALSE
                  ELSE \/ /\ ctx' = Report(scoped, IF t.jcs THEN {} ELSE {"PROOF.TRANSITION_JCS"})
                          /\ fromValid' = (t.jcs /\ fromValid)
                       \/ /\ "comparison" \in Unreliable
                          /\ ctx' = LeaveUnevaluated(Unavailable(scoped, "PROOF.TRANSITION_JCS", FALSE))
                          /\ fromValid' = FALSE
    BY <1>1 DEF CheckTransition
  <2>2. QED BY <2>1
<1>3. phase = "transition" /\ phase' = "transition" /\ UNCHANGED <<plan, materialized, final>>
  BY <1>1 DEF CheckTransition
<1>4. Onward(scoped, ctx)
  <2> DEFINE checked == Report(ctx, v)
  <2>1. Onward(checked, ctx) BY <1>1, ReportFacts DEF Inv
  <2>2. scoped = checked \/ scoped = Unavailable(checked, "D10.path-proof-unavailable", TRUE) BY <1>2
  <2> HIDE DEF checked
  <2>3. CASE scoped = checked BY <2>1, <2>3
  <2>4. CASE scoped = Unavailable(checked, "D10.path-proof-unavailable", TRUE)
    <3>1. Onward(scoped, checked) BY <2>1, <2>4, UnavailableFacts DEF Onward
    <3>2. QED BY <2>1, <3>1 DEF Onward
  <2>5. QED BY <2>2, <2>3, <2>4
<1>5. Well(scoped) BY <1>4 DEF Onward
<1>6. CASE ctx' = scoped /\ fromValid' = FALSE /\ materialized = {}
  <2>1. ~Untainted(ctx) BY <1>1, <1>3, <1>6 DEF Inv
  <2>2. QED BY <1>1, <1>3, <1>4, <1>6, <2>1, GrowsInv DEF Onward
<1>7. CASE ctx' = Report(scoped, {"CONTRACT.APPLY"}) /\ fromValid' = FALSE
  <2>1. Onward(ctx', scoped) /\ ~Untainted(ctx') BY <1>5, <1>7, ReportFacts DEF Untainted
  <2>2. QED BY <1>1, <1>3, <1>4, <2>1, GrowsInv DEF Onward
<1>8. CASE /\ ctx' = Report(scoped, IF t.jcs THEN {} ELSE {"PROOF.TRANSITION_JCS"})
           /\ fromValid' = (t.jcs /\ fromValid)
  <2>1. Onward(ctx', scoped) /\ (~ctx'.failed => t.jcs) BY <1>5, <1>8, ReportFacts
  <2>2. Untainted(ctx') /\ fromValid => fromValid' BY <1>8, <2>1 DEF Untainted
  <2>3. QED BY <1>1, <1>3, <1>4, <2>1, <2>2, GrowsInv DEF Onward
<1>9. CASE /\ ctx' = LeaveUnevaluated(Unavailable(scoped, "PROOF.TRANSITION_JCS", FALSE))
           /\ fromValid' = FALSE
  <2> DEFINE k == Unavailable(scoped, "PROOF.TRANSITION_JCS", FALSE)
  <2>1. Onward(k, scoped) BY <1>5, UnavailableFacts
  <2> HIDE DEF k
  <2>2. Well(k) BY <2>1 DEF Onward
  <2>3. Onward(LeaveUnevaluated(k), k) /\ ~Untainted(LeaveUnevaluated(k)) BY <2>2, LeaveFacts
  <2>4. ctx' = LeaveUnevaluated(k) BY <1>9 DEF k
  <2>5. QED BY <1>1, <1>3, <1>4, <2>1, <2>3, <2>4, GrowsInv DEF Onward
<1>10. QED BY <1>2, <1>6, <1>7, <1>8, <1>9

LEMMA UncomposedInv == Inv /\ LeaveUncomposed => Inv'
<1>1. SUFFICES ASSUME Inv, LeaveUncomposed PROVE Inv' OBVIOUS
<1>2. /\ phase = "transition" /\ phase' = "done" /\ (materialized = {} \/ ~fromValid)
      /\ UNCHANGED <<plan, materialized, fromValid, final>>
      /\ \E v : ctx' = Report(ctx, v)
  BY <1>1 DEF LeaveUncomposed
<1>3. Onward(ctx', ctx) BY <1>1, <1>2, ReportFacts DEF Inv
<1>4. ~Untainted(ctx) BY <1>1, <1>2 DEF Inv
<1>5. QED BY <1>1, <1>2, <1>3, <1>4 DEF Inv, Onward

LEMMA ComposeInv == Inv /\ ComposeFinal => Inv'
<1>1. SUFFICES ASSUME Inv, ComposeFinal PROVE Inv' OBVIOUS
<1>2. PICK composed, v :
        \/ /\ CheckBaselineConsistency(NewContext, Project(composed), {composed}).diagnostics = {}
           /\ ctx' = Report(ctx, v) /\ final' = {composed}
        \/ /\ CheckBaselineConsistency(NewContext, Project(composed), {composed}).diagnostics # {}
           /\ ctx' = CheckBaselineConsistency(ctx, Project(composed), {composed}) /\ final' = final
        \/ /\ ctx' = Report(Unavailable(ctx, "VALIDATOR.STRUCTURED_ERRORS", TRUE), {"CONTRACT.FINAL"})
           /\ final' = final
  BY <1>1 DEF ComposeFinal
<1>3. /\ phase = "transition" /\ phase' = "done" /\ fromValid
      /\ UNCHANGED <<plan, materialized, fromValid>>
  BY <1>1 DEF ComposeFinal
<1>4. Well(ctx) BY <1>1 DEF Inv
<1>5. CASE /\ CheckBaselineConsistency(NewContext, Project(composed), {composed}).diagnostics = {}
           /\ ctx' = Report(ctx, v) /\ final' = {composed}
  <2>1. Holds(Project(composed), composed) BY <1>5, ExaminedHolds, NewFacts
  <2>2. Onward(ctx', ctx) BY <1>4, <1>5, ReportFacts
  <2>3. QED BY <1>1, <1>3, <1>5, <2>1, <2>2 DEF Inv, Onward
<1>6. CASE /\ CheckBaselineConsistency(NewContext, Project(composed), {composed}).diagnostics # {}
           /\ ctx' = CheckBaselineConsistency(ctx, Project(composed), {composed}) /\ final' = final
  <2>1. ~Holds(Project(composed), composed) BY <1>6, ExaminedHolds, NewFacts
  <2>2. Well(ctx') /\ ~Untainted(ctx') BY <1>4, <1>6, <2>1, ExaminedHolds, ExamineFacts DEF Onward
  <2>3. QED BY <1>1, <1>3, <1>6, <2>2 DEF Inv
<1>7. CASE /\ ctx' = Report(Unavailable(ctx, "VALIDATOR.STRUCTURED_ERRORS", TRUE), {"CONTRACT.FINAL"})
           /\ final' = final
  <2>1. Well(Unavailable(ctx, "VALIDATOR.STRUCTURED_ERRORS", TRUE)) BY <1>4, UnavailableFacts DEF Onward
  <2>2. Well(ctx') /\ ctx'.failed BY <1>7, <2>1, ReportFacts DEF Onward
  <2>3. QED BY <1>1, <1>3, <1>7, <2>2 DEF Inv, Untainted
<1>8. QED BY <1>2, <1>5, <1>6, <1>7

LEMMA NextInv == Inv /\ [Next]_vars => Inv'
<1>1. CASE UNCHANGED vars BY <1>1 DEF vars, Inv
<1>2. CASE Next
  BY <1>2, MaterializeInv, BaselineInv, PlanInv, TransitionInv, UncomposedInv, ComposeInv DEF Next
<1>3. QED BY <1>1, <1>2

LEMMA Inductive == Spec => []Inv
BY InitInv, NextInv, PTL DEF Spec

LEMMA AcceptedFacts ==
  ASSUME Inv, Accepted PROVE Holds(plan.baseline, plan.view) /\ final # {} /\ \A view \in final : Holds(Project(view), view)
BY VerdictFacts DEF Inv, Accepted, Done

-----------------------------------------------------------------------------
\* An accepted plan starts and ends in a state where every path is one thing,
\* for any plans, paths and silence (_check_baseline_consistency on the
\* baseline and on the final composite).
THEOREM AcceptedIsWellFormed == Spec => []AcceptedPlanIsWellFormed
<1>1. Inv => AcceptedPlanIsWellFormed
  BY AcceptedFacts, HoldsWellFormed DEF AcceptedPlanIsWellFormed
<1>2. QED BY <1>1, Inductive, PTL

\* Every condition of an accepted contract has the one canonical form of the
\* state it is about (_project_final_conditions, BASE.CANONICAL).
THEOREM AcceptedIsCanonical == Spec => []ConditionsAreCanonical
<1>1. ASSUME Inv PROVE ConditionsAreCanonical
  <2>1. SUFFICES ASSUME Accepted, NEW d \in Dimensions PROVE Tells(plan.baseline[d], d, plan.view)
    BY DEF ConditionsAreCanonical
  <2>2. /\ plan.view.head.state # "exact"
        /\ plan.view.submodules = [p \in DOMAIN plan.view.submodules |-> plan.view.submodules[p]]
    BY <1>1, PlansAssumption DEF Inv
  <2>3. Holds(plan.baseline, plan.view) BY <1>1, <2>1, AcceptedFacts
  <2>4. QED BY <2>2, <2>3, HoldsTells
<1>2. QED BY <1>1, Inductive, PTL

-----------------------------------------------------------------------------
\* The loop of _apply_simultaneous_transitions: Apply is a fold, whose values on
\* the first n transitions are the states after every turn.

Turn(view, ts, fold, s) == IF s = {} THEN view ELSE ApplyOne(fold[s \ {Max(s)}], ts[Max(s)])
IsFold(view, ts, fold, n) == fold = [s \in SUBSET (1 .. n) |-> Turn(view, ts, fold, s)]

LEMMA MaxFacts ==
  ASSUME NEW n \in Nat, NEW s, s \subseteq 1 .. n, s # {}
  PROVE  /\ Max(s) \in s /\ \A y \in s : Max(s) >= y
         /\ \A x \in s : (\A y \in s : x >= y) => x = Max(s)
<1> DEFINE R == {n - x : x \in s}
<1>0. \A x \in s : x \in 1 .. n /\ n - x \in Nat /\ x \in Nat OBVIOUS
<1>1. R \subseteq Nat /\ R # {} BY <1>0
<1>2. PICK r \in R : \A y \in R : r <= y BY <1>1, LeastOf
<1>3. PICK m \in s : r = n - m BY <1>2
<1>4. \A y \in s : m >= y
  <2>1. SUFFICES ASSUME NEW y \in s PROVE m >= y OBVIOUS
  <2>2. n - y \in R OBVIOUS
  <2>3. r <= n - y BY <1>2, <2>2
  <2>4. QED BY <1>0, <1>3, <2>3
<1>5. Max(s) \in s /\ \A y \in s : Max(s) >= y BY <1>4 DEF Max
<1>6. ASSUME NEW x \in s, \A y \in s : x >= y PROVE x = Max(s)
  <2>1. Max(s) \in s /\ \A y \in s : Max(s) >= y BY <1>5
  <2> DEFINE top == Max(s)
  <2> HIDE DEF top
  <2>2. top \in s /\ \A y \in s : top >= y BY <2>1 DEF top
  <2>3. x >= top /\ top >= x /\ x \in Nat /\ top \in Nat BY <1>0, <1>6, <2>2
  <2>4. x = top BY <2>3
  <2>5. QED BY <2>4 DEF top
<1>7. QED BY <1>5, <1>6

LEMMA FoldExists ==
  ASSUME NEW view, NEW ts, NEW n \in Nat PROVE \E fold : IsFold(view, ts, fold, n)
<1> DEFINE Bad == {k \in Nat : ~\E fold : IsFold(view, ts, fold, k)}
<1>1. SUFFICES ASSUME Bad # {} PROVE FALSE OBVIOUS
<1>2. PICK k \in Bad : \A j \in Bad : k <= j BY <1>1, LeastOf
<1>3. CASE k = 0
  <2> DEFINE g == [s \in SUBSET (1 .. 0) |-> view]
  <2>1. \A s \in SUBSET (1 .. 0) : s = {} OBVIOUS
  <2>2. g = [s \in SUBSET (1 .. 0) |-> Turn(view, ts, g, s)] BY <2>1 DEF Turn
  <2> HIDE DEF g
  <2>3. IsFold(view, ts, g, 0) BY <2>2 DEF IsFold
  <2>4. QED BY <1>2, <1>3, <2>3
<1>4. CASE k # 0
  <2>1. k - 1 \in Nat /\ k - 1 \notin Bad BY <1>2, <1>4
  <2>2. PICK g : IsFold(view, ts, g, k - 1) BY <2>1
  <2> DEFINE h == [s \in SUBSET (1 .. k) |->
                     IF k \in s THEN ApplyOne(g[s \ {k}], ts[k]) ELSE g[s]]
  <2>3. ASSUME NEW s \in SUBSET (1 .. k) PROVE h[s] = Turn(view, ts, h, s)
    <3>1. CASE k \in s
      <4>0. k \in Nat /\ s \subseteq 1 .. k /\ s # {} /\ \A y \in s : k >= y BY <3>1
      <4>1. k = Max(s) BY <3>1, <4>0, MaxFacts
      <4>2. h[s \ {k}] = g[s \ {k}] OBVIOUS
      <4>3. h[s] = ApplyOne(g[s \ {k}], ts[k]) BY <3>1
      <4> HIDE DEF h
      <4>4. QED BY <3>1, <4>1, <4>2, <4>3 DEF Turn
    <3>2. CASE k \notin s
      <4>1. s \in SUBSET (1 .. (k - 1)) BY <1>2, <1>4, <3>2
      <4>2. g[s] = Turn(view, ts, g, s) BY <2>2, <4>1 DEF IsFold
      <4>3. s # {} => Max(s) \in s BY <2>1, <4>1, MaxFacts
      <4>4. h[s \ {Max(s)}] = g[s \ {Max(s)}] BY <3>2
      <4>5. h[s] = g[s] BY <3>2
      <4> HIDE DEF h
      <4>6. QED BY <4>2, <4>4, <4>5 DEF Turn
    <3>3. QED BY <3>1, <3>2
  <2>4. h = [s \in SUBSET (1 .. k) |-> h[s]] OBVIOUS
  <2> HIDE DEF h
  <2>5. h = [s \in SUBSET (1 .. k) |-> Turn(view, ts, h, s)] BY <2>3, <2>4
  <2>6. QED BY <1>2, <2>5 DEF IsFold
<1>5. QED BY <1>3, <1>4

LEMMA ApplyIsFold ==
  ASSUME NEW view, NEW ts, NEW T, ts \in Seq(T)
  PROVE  \E fold : IsFold(view, ts, fold, Len(ts)) /\ Apply(view, ts) = fold[1 .. Len(ts)]
<1> DEFINE D == DOMAIN ts
           F == CHOOSE fold : fold = [s \in SUBSET D |-> Turn(view, ts, fold, s)]
<1>1. Apply(view, ts) = F[D]
  BY DEF Apply, FoldLeft, MapThenFoldSet, Turn
<1>2. D = 1 .. Len(ts) /\ Len(ts) \in Nat OBVIOUS
<1>3. \E fold : fold = [s \in SUBSET D |-> Turn(view, ts, fold, s)]
  <2>1. PICK fold : IsFold(view, ts, fold, Len(ts)) BY <1>2, FoldExists
  <2>2. fold = [s \in SUBSET D |-> Turn(view, ts, fold, s)] BY <1>2, <2>1 DEF IsFold
  <2>3. QED BY <2>2
<1>4. F = [s \in SUBSET D |-> Turn(view, ts, F, s)] BY <1>3
<1> HIDE DEF F
<1>5. IsFold(view, ts, F, Len(ts)) BY <1>2, <1>4 DEF IsFold
<1>6. QED BY <1>1, <1>2, <1>5

\* The states between the turns, one of which follows from the other.
LEMMA ApplyTurns ==
  ASSUME NEW view, NEW ts, NEW T, ts \in Seq(T)
  PROVE  \E state : /\ state[0] = view
                    /\ \A i \in 1 .. Len(ts) : state[i] = ApplyOne(state[i - 1], ts[i])
                    /\ Apply(view, ts) = state[Len(ts)]
<1> DEFINE n == Len(ts)
<1>1. n \in Nat OBVIOUS
<1>2. PICK fold : IsFold(view, ts, fold, n) /\ Apply(view, ts) = fold[1 .. n] BY ApplyIsFold
<1> DEFINE state == [i \in 0 .. n |-> fold[1 .. i]]
<1>3. \A s \in SUBSET (1 .. n) : fold[s] = Turn(view, ts, fold, s)
  <2>1. fold = [s \in SUBSET (1 .. n) |-> Turn(view, ts, fold, s)] BY <1>2 DEF IsFold
  <2> DEFINE body(s) == Turn(view, ts, fold, s)
  <2>2. fold = [s \in SUBSET (1 .. n) |-> body(s)] BY <2>1
  <2> HIDE DEF body
  <2>3. \A s \in SUBSET (1 .. n) : fold[s] = body(s) BY <2>2
  <2>4. QED BY <2>3 DEF body
<1> HIDE DEF n
<1>4. state[0] = view
  <2>1. 1 .. 0 = {} OBVIOUS
  <2>2. {} \in SUBSET (1 .. n) OBVIOUS
  <2>3. fold[{}] = view BY <1>3, <2>2 DEF Turn
  <2>4. QED BY <1>1, <2>1, <2>3
<1>5. ASSUME NEW i \in 1 .. n PROVE state[i] = ApplyOne(state[i - 1], ts[i])
  <2>1. 1 .. i \in SUBSET (1 .. n) /\ i \in 1 .. i /\ \A y \in 1 .. i : i >= y BY <1>1
  <2>2. i = Max(1 .. i) BY <1>1, <2>1, MaxFacts
  <2>3. (1 .. i) \ {i} = 1 .. (i - 1) BY <1>1
  <2>4. fold[1 .. i] = Turn(view, ts, fold, 1 .. i) BY <1>3, <2>1
  <2>5. fold[1 .. i] = ApplyOne(fold[1 .. (i - 1)], ts[i]) BY <2>1, <2>2, <2>3, <2>4 DEF Turn
  <2>6. i - 1 \in 0 .. n /\ i \in 0 .. n BY <1>1
  <2>7. QED BY <2>5, <2>6
<1>6. Apply(view, ts) = state[n] BY <1>1, <1>2
<1>7. QED BY <1>4, <1>5, <1>6 DEF n

LEMMA PutFacts ==
  ASSUME NEW f, NEW p, NEW v
  PROVE  /\ DOMAIN Put(f, p, v) = DOMAIN f \cup {p} /\ Put(f, p, v)[p] = v
         /\ \A x \in DOMAIN f : x # p => Put(f, p, v)[x] = f[x]
BY DEF Put

LEMMA DropFacts ==
  ASSUME NEW f, NEW p
  PROVE  /\ DOMAIN Drop(f, p) = DOMAIN f \ {p}
         /\ \A x \in DOMAIN f : x # p => Drop(f, p)[x] = f[x]
BY DEF Drop, Restrict

\* What a plan says of a transition.
Proper(t) ==
  /\ t.dimension \in Targets
  /\ t.dimension \in PathSets => t.to \subseteq {"present"}
  /\ \A v, w \in t.to : v = w

\* What a turn does to the inventory it is about.
Target(inventory, t) ==
  IF t.dimension \in PathSets THEN (inventory \ {t.path}) \cup {p \in {t.path} : t.to # {}}
  ELSE IF t.to = {} THEN Drop(inventory, t.path)
  ELSE Put(inventory, t.path, CHOOSE v \in t.to : TRUE)

LEMMA TurnFields ==
  ASSUME NEW view, NEW t, Proper(t), Dimensions \cup {"identities"} \subseteq DOMAIN view
  PROVE  LET k == ApplyOne(view, t)
         IN /\ DOMAIN k = DOMAIN view
            /\ k[t.dimension] = Target(view[t.dimension], t)
            /\ \A f \in DOMAIN view : f \notin {t.dimension, "identities"} => k[f] = view[f]
            /\ k.identities = IF t.dimension = "tracked" THEN Drop(view.identities, t.path)
                              ELSE view.identities
<1> DEFINE fresh == IF t.dimension = "tracked" THEN [view EXCEPT !.identities = Drop(@, t.path)] ELSE view
           k == ApplyOne(view, t)
<1>1. /\ t.dimension \in DOMAIN view /\ "identities" \in DOMAIN view
      /\ t.dimension # "identities"
  BY DEF Proper, Targets, Dimensions, Inventories
<1>2. /\ DOMAIN fresh = DOMAIN view
      /\ \A f \in DOMAIN view : f # "identities" => fresh[f] = view[f]
      /\ fresh.identities = IF t.dimension = "tracked" THEN Drop(view.identities, t.path)
                            ELSE view.identities
  BY <1>1
<1> HIDE DEF fresh
<1>3. k = [fresh EXCEPT ![t.dimension] = Target(fresh[t.dimension], t)]
  BY DEF ApplyOne, Target, fresh
<1> HIDE DEF k
<1>4. QED BY <1>1, <1>2, <1>3 DEF k

\* A turn gives its target its value and every other target the value it has.
LEMMA TurnValues ==
  ASSUME NEW view, NEW t, Proper(t), Dimensions \cup {"identities"} \subseteq DOMAIN view,
         NEW d \in Targets, NEW p
  PROVE  TargetValue(ApplyOne(view, t), d, p) =
           IF d = t.dimension /\ p = t.path THEN t.to ELSE TargetValue(view, d, p)
<1> DEFINE k == ApplyOne(view, t)
<1>1. /\ DOMAIN k = DOMAIN view
      /\ k[t.dimension] = Target(view[t.dimension], t)
      /\ \A f \in DOMAIN view : f \notin {t.dimension, "identities"} => k[f] = view[f]
  BY TurnFields
<1>2. d \in DOMAIN view /\ d # "identities" BY DEF Targets, Dimensions, Inventories
<1> HIDE DEF k
<1>3. CASE d # t.dimension
  <2>1. k[d] = view[d] BY <1>1, <1>2, <1>3
  <2>2. QED BY <1>3, <2>1 DEF TargetValue, k
<1>4. CASE d = t.dimension /\ d \in PathSets
  <2>1. k[d] = (view[d] \ {t.path}) \cup {q \in {t.path} : t.to # {}}
    BY <1>1, <1>4 DEF Target
  <2>2. t.to = {} \/ t.to = {"present"} BY <1>4 DEF Proper
  <2>3. TargetValue(k, d, p) = {"present" : q \in k[d] \cap {p}} BY <1>4 DEF TargetValue
  <2>4. TargetValue(view, d, p) = {"present" : q \in view[d] \cap {p}} BY <1>4 DEF TargetValue
  <2>5. CASE p = t.path BY <1>4, <2>1, <2>2, <2>3, <2>5 DEF k
  <2>6. CASE p # t.path BY <1>4, <2>1, <2>3, <2>4, <2>6 DEF k
  <2>7. QED BY <2>5, <2>6
<1>5. CASE d = t.dimension /\ d \notin PathSets
  <2> DEFINE f == view[d]
             g == k[d]
  <2>1. g = IF t.to = {} THEN Drop(f, t.path) ELSE Put(f, t.path, CHOOSE v \in t.to : TRUE)
    BY <1>1, <1>5 DEF Target
  <2>2. TargetValue(k, d, p) = {g[q] : q \in DOMAIN g \cap {p}} BY <1>5 DEF TargetValue
  <2>3. TargetValue(view, d, p) = {f[q] : q \in DOMAIN f \cap {p}} BY <1>5 DEF TargetValue
  <2> HIDE DEF f, g
  <2>4. CASE t.to = {}
    <3>1. /\ DOMAIN g = DOMAIN f \ {t.path}
          /\ \A x \in DOMAIN f : x # t.path => g[x] = f[x]
      BY <2>1, <2>4, DropFacts
    <3>2. QED BY <1>5, <2>2, <2>3, <2>4, <3>1 DEF k
  <2>5. CASE t.to # {}
    <3> DEFINE v == CHOOSE v \in t.to : TRUE
    <3>1. v \in t.to BY <2>5
    <3>2. t.to = {v} BY <3>1 DEF Proper
    <3>0. g = Put(f, t.path, v) BY <2>1, <2>5
    <3> HIDE DEF v
    <3>3. /\ DOMAIN g = DOMAIN f \cup {t.path} /\ g[t.path] = v
          /\ \A x \in DOMAIN f : x # t.path => g[x] = f[x]
      BY <3>0 DEF Put
    <3>4. QED BY <1>5, <2>2, <2>3, <3>2, <3>3 DEF k
  <2>6. QED BY <2>4, <2>5
<1>6. QED BY <1>3, <1>4, <1>5

\* A state between turns: what the transitions so far leave as it was.
Kept(ts, i, before, after) ==
  /\ DOMAIN after = DOMAIN before
  /\ \A f \in DOMAIN before :
       f \notin {ts[j].dimension : j \in 1 .. i} \cup {"identities"} => after[f] = before[f]
  /\ \A p \in DOMAIN after.identities :
       /\ p \in DOMAIN before.identities /\ after.identities[p] = before.identities[p]
       /\ \A j \in 1 .. i : ts[j].dimension = "tracked" => ts[j].path # p
  /\ \A p \in DOMAIN before.identities :
       p \in DOMAIN after.identities \/ \E j \in 1 .. i : ts[j].dimension = "tracked" /\ ts[j].path = p

\* The values of the targets between turns: that of the last transition that is
\* about the target or, if there is none, the one it had.
Aims(t, d, p) == t.dimension = d /\ t.path = p
Valued(ts, i, before, after) ==
  \A d \in Targets : \A p :
    \/ /\ TargetValue(after, d, p) = TargetValue(before, d, p)
       /\ \A j \in 1 .. i : ~Aims(ts[j], d, p)
    \/ \E j \in 1 .. i : Aims(ts[j], d, p) /\ TargetValue(after, d, p) = ts[j].to

LEMMA TurnsKeep ==
  ASSUME NEW view, NEW ts, NEW i \in Nat \ {0}, Proper(ts[i]),
         Dimensions \cup {"identities"} \subseteq DOMAIN view,
         NEW state, Kept(ts, i - 1, view, state), Valued(ts, i - 1, view, state)
  PROVE  LET k == ApplyOne(state, ts[i]) IN Kept(ts, i, view, k) /\ Valued(ts, i, view, k)
<1> DEFINE k == ApplyOne(state, ts[i])
           t == ts[i]
<1>1. /\ 1 .. i = (1 .. (i - 1)) \cup {i}
      /\ \A j \in 1 .. (i - 1) : j \in 1 .. i
      /\ i \in 1 .. i
  OBVIOUS
<1>2. DOMAIN state = DOMAIN view BY DEF Kept
<1>3. /\ DOMAIN k = DOMAIN state
      /\ \A f \in DOMAIN state : f \notin {t.dimension, "identities"} => k[f] = state[f]
      /\ k.identities = IF t.dimension = "tracked" THEN Drop(state.identities, t.path)
                        ELSE state.identities
  BY <1>2, TurnFields
<1>4. \A d \in Targets : \A p : TargetValue(k, d, p) =
        IF d = t.dimension /\ p = t.path THEN t.to ELSE TargetValue(state, d, p)
  BY <1>2, TurnValues
<1> HIDE DEF k
<1>5. Valued(ts, i, view, k)
  <2>1. SUFFICES ASSUME NEW d \in Targets, NEW p
                 PROVE \/ /\ TargetValue(k, d, p) = TargetValue(view, d, p)
                          /\ \A j \in 1 .. i : ~Aims(ts[j], d, p)
                       \/ \E j \in 1 .. i : Aims(ts[j], d, p) /\ TargetValue(k, d, p) = ts[j].to
    BY DEF Valued
  <2>2. CASE Aims(t, d, p) BY <1>1, <1>4, <2>2 DEF Aims
  <2>3. CASE ~Aims(t, d, p)
    <3>1. TargetValue(k, d, p) = TargetValue(state, d, p) BY <1>4, <2>3 DEF Aims
    <3>2. \/ /\ TargetValue(state, d, p) = TargetValue(view, d, p)
             /\ \A j \in 1 .. (i - 1) : ~Aims(ts[j], d, p)
          \/ \E j \in 1 .. (i - 1) : Aims(ts[j], d, p) /\ TargetValue(state, d, p) = ts[j].to
      BY DEF Valued
    <3>3. QED BY <1>1, <2>3, <3>1, <3>2
  <2>4. QED BY <2>2, <2>3
<1>6. Kept(ts, i, view, k)
  <2>1. DOMAIN k = DOMAIN view BY <1>2, <1>3
  <2>2. ASSUME NEW f \in DOMAIN view,
               f \notin {ts[j].dimension : j \in 1 .. i} \cup {"identities"}
        PROVE  k[f] = view[f]
    <3>1. f \notin {ts[j].dimension : j \in 1 .. (i - 1)} \cup {"identities"} /\ f # t.dimension
      BY <1>1, <2>2
    <3>2. QED BY <1>2, <1>3, <3>1 DEF Kept
  <2> DEFINE before == state.identities
             after  == k.identities
  <2>3. /\ \A p \in DOMAIN after : /\ p \in DOMAIN before /\ after[p] = before[p]
                                   /\ t.dimension = "tracked" => p # t.path
        /\ \A p \in DOMAIN before : p \in DOMAIN after \/ (t.dimension = "tracked" /\ p = t.path)
    <3>1. CASE t.dimension = "tracked"
      <4>1. after = Drop(before, t.path) BY <1>3, <3>1
      <4> HIDE DEF before, after
      <4>2. QED BY <3>1, <4>1 DEF Drop, Restrict
    <3>2. CASE t.dimension # "tracked" BY <1>3, <3>2
    <3>3. QED BY <3>1, <3>2
  <2> HIDE DEF before, after
  <2>4. /\ \A p \in DOMAIN before :
             /\ p \in DOMAIN view.identities /\ before[p] = view.identities[p]
             /\ \A j \in 1 .. (i - 1) : ts[j].dimension = "tracked" => ts[j].path # p
        /\ \A p \in DOMAIN view.identities :
             p \in DOMAIN before \/ \E j \in 1 .. (i - 1) : ts[j].dimension = "tracked" /\ ts[j].path = p
    BY DEF Kept, before
  <2>5. ASSUME NEW p \in DOMAIN after
        PROVE  /\ p \in DOMAIN view.identities /\ after[p] = view.identities[p]
               /\ \A j \in 1 .. i : ts[j].dimension = "tracked" => ts[j].path # p
    BY <1>1, <2>3, <2>4
  <2>6. ASSUME NEW p \in DOMAIN view.identities
        PROVE  p \in DOMAIN after \/ \E j \in 1 .. i : ts[j].dimension = "tracked" /\ ts[j].path = p
    BY <1>1, <2>3, <2>4
  <2>7. QED BY <2>1, <2>2, <2>5, <2>6 DEF Kept, after
<1>7. QED BY <1>5, <1>6 DEF k

\* What the transitions make of a view, for any number of them.
LEMMA ApplyFacts ==
  ASSUME NEW view, NEW ts, NEW T, ts \in Seq(T), \A t \in Range(ts) : Proper(t),
         Dimensions \cup {"identities"} \subseteq DOMAIN view
  PROVE  Kept(ts, Len(ts), view, Apply(view, ts)) /\ Valued(ts, Len(ts), view, Apply(view, ts))
<1> DEFINE n == Len(ts)
<1>1. n \in Nat /\ DOMAIN ts = 1 .. n OBVIOUS
<1>2. PICK state : /\ state[0] = view
                   /\ \A i \in 1 .. n : state[i] = ApplyOne(state[i - 1], ts[i])
                   /\ Apply(view, ts) = state[n]
  BY ApplyTurns
<1>3. \A i \in 1 .. n : Proper(ts[i]) BY <1>1 DEF Range
<1> HIDE DEF n
<1> DEFINE Good == {i \in 0 .. n : Kept(ts, i, view, state[i]) /\ Valued(ts, i, view, state[i])}
<1>4. 0 \in Good
  <2>1. 1 .. 0 = {} /\ 0 \in 0 .. n BY <1>1
  <2>2. Kept(ts, 0, view, view) BY <2>1 DEF Kept
  <2>3. Valued(ts, 0, view, view) BY <2>1 DEF Valued
  <2>4. QED BY <1>2, <2>1, <2>2, <2>3
<1>5. ASSUME NEW i \in 1 .. n, i - 1 \in Good PROVE i \in Good
  <2>1. i \in Nat \ {0} /\ i \in 0 .. n BY <1>1
  <2>2. Kept(ts, i - 1, view, state[i - 1]) /\ Valued(ts, i - 1, view, state[i - 1]) BY <1>5
  <2>3. Kept(ts, i, view, state[i]) /\ Valued(ts, i, view, state[i])
    BY <1>2, <1>3, <2>1, <2>2, TurnsKeep
  <2>4. QED BY <2>1, <2>3
<1>6. n \in 0 .. n BY <1>1
<1> HIDE DEF Good
<1>7. \A i \in 0 .. n : i \in Good BY <1>1, <1>4, <1>5, UpTo
<1>8. QED BY <1>2, <1>6, <1>7 DEF Good, n

-----------------------------------------------------------------------------
\* The second invariant: what has been judged of the plan and of its outcome.

InScope(t) == t.path \in plan.authorized.paths \ plan.prohibited.paths
Operations(view) ==
  IF plan.allowWrite THEN OrdinaryOperationSet(OrdinaryProjection(plan.view), OrdinaryProjection(view))
  ELSE {}
Judged(view) ==
  Violated(CapabilityRules(Operations(view)) \cup PostconditionRules({Project(view)})) = {}

Judgements ==
  /\ at \in Nat \ {0}
  /\ phase = "done" => at > Len(plan.transitions)
  /\ phase # "done" => final = {}
  /\ \A view \in final : view = Apply(plan.view, plan.transitions)
  /\ Untainted(ctx) => \A i \in 1 .. (at - 1) : InScope(plan.transitions[i])
  /\ phase = "done" /\ Untainted(ctx) => \A view \in final : Judged(view)

LEMMA InitJudgements == Init => Judgements
BY DEF Init, Judgements

\* What a turn of the loop over the transitions leaves in the context.
LEMMA TransitionJudges ==
  ASSUME Inv, CheckTransition
  PROVE  Onward(ctx', ctx) /\ (Untainted(ctx') => InScope(plan.transitions[at]))
<1> DEFINE t == plan.transitions[at]
           V == Violated({<<"TA01", t.path \in plan.authorized.paths>>,
                          <<"TA02", t.path \notin plan.prohibited.paths>>})
<1>1. PICK open \in SUBSET (IF "paths" \in Unreliable THEN {"TA01", "TA02"} ELSE {}) :
          LET checked == Report(ctx, V \ open)
              scoped == IF open = {} THEN checked ELSE Unavailable(checked, "D10.path-proof-unavailable", TRUE)
          IN \/ materialized = {} /\ ctx' = scoped /\ fromValid' = FALSE
             \/ \E view \in materialized :
                  IF TargetValue(view, t.dimension, t.path) # t.from
                  THEN ctx' = Report(scoped, {"CONTRACT.APPLY"}) /\ fromValid' = FALSE
                  ELSE \/ /\ ctx' = Report(scoped, IF t.jcs THEN {} ELSE {"PROOF.TRANSITION_JCS"})
                          /\ fromValid' = (t.jcs /\ fromValid)
                       \/ /\ "comparison" \in Unreliable
                          /\ ctx' = LeaveUnevaluated(Unavailable(scoped, "PROOF.TRANSITION_JCS", FALSE))
                          /\ fromValid' = FALSE
    BY DEF CheckTransition
<1>2. V = {} => InScope(t)
  <2>1. SUFFICES ASSUME V = {} PROVE InScope(t) OBVIOUS
  <2>2. \A x \in {<<"TA01", t.path \in plan.authorized.paths>>,
                  <<"TA02", t.path \notin plan.prohibited.paths>>} : x[2]
    BY <2>1, AllHold
  <2>3. QED BY <2>2 DEF InScope
<1> HIDE DEF t, V
<1> DEFINE checked == Report(ctx, V \ open)
           scoped  == IF open = {} THEN checked
                      ELSE Unavailable(checked, "D10.path-proof-unavailable", TRUE)
<1>3. /\ Onward(checked, ctx)
      /\ ~checked.failed => V \ open = {}
  BY ReportFacts DEF Inv
<1>4. \E w : \/ ctx' = scoped \/ ctx' = Report(scoped, w)
             \/ ctx' = LeaveUnevaluated(Unavailable(scoped, "PROOF.TRANSITION_JCS", FALSE))
  BY <1>1
<1> HIDE DEF checked
<1>5. Onward(scoped, ctx) /\ (Untainted(scoped) => V = {})
  <2>1. CASE open = {} BY <1>3, <2>1 DEF Untainted
  <2>2. CASE open # {}
    <3>1. scoped = Unavailable(checked, "D10.path-proof-unavailable", TRUE) BY <2>2
    <3>2. Onward(scoped, checked) /\ ~Untainted(scoped)
      BY <1>3, <3>1, UnavailableFacts DEF Onward
    <3>3. QED BY <1>3, <3>2 DEF Onward
  <2>3. QED BY <2>1, <2>2
<1> HIDE DEF scoped
<1>6. Well(scoped) BY <1>5 DEF Onward
<1>7. Onward(ctx', scoped)
  <2>1. PICK w : \/ ctx' = scoped \/ ctx' = Report(scoped, w)
                 \/ ctx' = LeaveUnevaluated(Unavailable(scoped, "PROOF.TRANSITION_JCS", FALSE))
    BY <1>4
  <2>2. CASE ctx' = scoped BY <1>6, <2>2 DEF Onward
  <2>3. CASE ctx' = Report(scoped, w) BY <1>6, <2>3, ReportFacts
  <2>4. CASE ctx' = LeaveUnevaluated(Unavailable(scoped, "PROOF.TRANSITION_JCS", FALSE))
    <3> DEFINE k == Unavailable(scoped, "PROOF.TRANSITION_JCS", FALSE)
    <3>1. Onward(k, scoped) BY <1>6, UnavailableFacts
    <3> HIDE DEF k
    <3>2. Onward(LeaveUnevaluated(k), k) BY <3>1, LeaveFacts DEF Onward
    <3>3. ctx' = LeaveUnevaluated(k) BY <2>4 DEF k
    <3>4. QED BY <3>1, <3>2, <3>3 DEF Onward
  <2>5. QED BY <2>1, <2>2, <2>3, <2>4
<1>8. QED BY <1>2, <1>5, <1>7 DEF Onward, t

LEMMA ComposeJudges ==
  ASSUME Inv, Judgements, ComposeFinal PROVE Judgements'
<1>1. materialized \subseteq {plan.view} /\ Well(ctx) BY DEF Inv
<1>2. /\ phase = "transition" /\ phase' = "done" /\ at > Len(plan.transitions)
      /\ UNCHANGED <<plan, at, materialized, fromValid>>
  BY DEF ComposeFinal
<1>3. final = {} BY <1>2 DEF Judgements
<1>0. at \in Nat \ {0} /\ (Untainted(ctx) => \A i \in 1 .. (at - 1) : InScope(plan.transitions[i]))
  BY DEF Judgements
<1> DEFINE composed == Apply(plan.view, plan.transitions)
           examined(c) == CheckBaselineConsistency(c, Project(composed), {composed})
           rules == CapabilityRules(Operations(composed)) \cup PostconditionRules({Project(composed)})
<1>4. \/ ctx' = Report(ctx, Violated(rules)) /\ final' = {composed}
      \/ ctx' = examined(ctx) /\ UNCHANGED final
      \/ /\ ctx' = Report(Unavailable(ctx, "VALIDATOR.STRUCTURED_ERRORS", TRUE), {"CONTRACT.FINAL"})
         /\ UNCHANGED final
  BY <1>1 DEF ComposeFinal, Operations
<1>5. Judged(composed) <=> Violated(rules) = {} BY DEF Judged
<1>6. \A view : Judged(view)' <=> Judged(view)
  BY <1>2 DEF Judged, Operations, CapabilityRules, PostconditionRules, Changed
<1> HIDE DEF composed, examined, rules
<1>7. CASE ctx' = Report(ctx, Violated(rules)) /\ final' = {composed}
  <2>1. Onward(ctx', ctx) /\ (~ctx'.failed => Violated(rules) = {}) BY <1>1, <1>7, ReportFacts
  <2>2. Untainted(ctx') => Judged(composed) BY <1>5, <2>1 DEF Untainted
  <2>3. QED BY <1>0, <1>2, <1>6, <1>7, <2>1, <2>2 DEF Judgements, Onward, InScope, composed
<1>8. CASE ctx' = examined(ctx) /\ UNCHANGED final
  <2>1. Onward(ctx', ctx) BY <1>1, <1>8, ExamineFacts DEF examined
  <2>2. QED BY <1>0, <1>2, <1>3, <1>8, <2>1 DEF Judgements, Onward, InScope
<1>9. CASE /\ ctx' = Report(Unavailable(ctx, "VALIDATOR.STRUCTURED_ERRORS", TRUE), {"CONTRACT.FINAL"})
           /\ UNCHANGED final
  <2>1. Onward(Unavailable(ctx, "VALIDATOR.STRUCTURED_ERRORS", TRUE), ctx) BY <1>1, UnavailableFacts
  <2>2. Onward(ctx', Unavailable(ctx, "VALIDATOR.STRUCTURED_ERRORS", TRUE))
    BY <1>9, <2>1, ReportFacts DEF Onward
  <2>3. Onward(ctx', ctx) BY <2>1, <2>2 DEF Onward
  <2>4. QED BY <1>0, <1>2, <1>3, <1>9, <2>3 DEF Judgements, Onward, InScope
<1>10. QED BY <1>4, <1>7, <1>8, <1>9

\* The other steps: the context grows, and nothing is composed yet.
LEMMA GrowsJudgements ==
  ASSUME Judgements, Onward(ctx', ctx), phase # "done", UNCHANGED <<plan, at, final>>,
         phase' = "done" => at > Len(plan.transitions)
  PROVE  Judgements'
BY DEF Judgements, Onward, InScope

LEMMA NextJudgements == Inv /\ Judgements /\ [Next]_vars => Judgements'
<1>1. SUFFICES ASSUME Inv, Judgements, [Next]_vars PROVE Judgements' OBVIOUS
<1>2. Well(ctx) BY <1>1 DEF Inv
<1>3. CASE UNCHANGED vars
  <2>1. UNCHANGED <<plan, phase, at, final, ctx>> BY <1>3 DEF vars
  <2>2. \A view : Judged(view)' <=> Judged(view)
    BY <2>1 DEF Judged, Operations, CapabilityRules, PostconditionRules, Changed
  <2>3. QED BY <1>1, <2>1, <2>2 DEF Judgements, InScope
<1>4. CASE ConsumeMaterializedBaseline
  <2>1. Onward(ctx', ctx)
    <3>1. CASE ctx' = ctx BY <1>2, <3>1 DEF Onward
    <3>2. CASE \E direct \in BOOLEAN : ctx' = LeaveUnevaluated(Unavailable(ctx, "PROOF.BASELINE", direct))
      <4>1. PICK direct \in BOOLEAN : ctx' = LeaveUnevaluated(Unavailable(ctx, "PROOF.BASELINE", direct))
        BY <3>2
      <4> DEFINE k == Unavailable(ctx, "PROOF.BASELINE", direct)
      <4>2. Onward(k, ctx) BY <1>2, UnavailableFacts
      <4>3. ctx' = LeaveUnevaluated(k) BY <4>1
      <4> HIDE DEF k
      <4>4. Onward(ctx', k) BY <4>2, <4>3, LeaveFacts DEF Onward
      <4>5. QED BY <4>2, <4>4 DEF Onward
    <3>3. QED BY <1>4, <3>1, <3>2 DEF ConsumeMaterializedBaseline
  <2>2. QED BY <1>1, <1>4, <2>1, GrowsJudgements DEF ConsumeMaterializedBaseline
<1>5. CASE CheckBaseline
  <2>1. Onward(ctx', ctx) BY <1>2, <1>5, ExamineFacts DEF CheckBaseline
  <2>2. QED BY <1>1, <1>5, <2>1, GrowsJudgements DEF CheckBaseline
<1>6. CASE CheckPlan
  <2>1. \E v : ctx' = Report(ctx, v) BY <1>6 DEF CheckPlan
  <2>2. Onward(ctx', ctx) BY <1>2, <2>1, ReportFacts
  <2>3. QED BY <1>1, <1>6, <2>2, GrowsJudgements DEF CheckPlan
<1>7. CASE CheckTransition
  <2>1. /\ phase = "transition" /\ phase' = phase /\ at' = at + 1
        /\ UNCHANGED <<plan, materialized, final>>
    BY <1>7 DEF CheckTransition
  <2>2. Onward(ctx', ctx) /\ (Untainted(ctx') => InScope(plan.transitions[at]))
    BY <1>1, <1>7, TransitionJudges
  <2>3. at \in Nat \ {0} /\ (Untainted(ctx) => \A i \in 1 .. (at - 1) : InScope(plan.transitions[i]))
    BY <1>1 DEF Judgements
  <2>4. ASSUME Untainted(ctx'), NEW i \in 1 .. (at' - 1) PROVE InScope(plan.transitions[i])
    <3>1. i = at \/ i \in 1 .. (at - 1) BY <2>1, <2>3, <2>4
    <3>2. Untainted(ctx) BY <2>2, <2>4 DEF Onward
    <3>3. QED BY <2>2, <2>3, <2>4, <3>1, <3>2
  <2>5. \A i : InScope(plan.transitions[i])' <=> InScope(plan.transitions[i]) BY <2>1 DEF InScope
  <2>6. QED BY <1>1, <2>1, <2>3, <2>4, <2>5 DEF Judgements, InScope
<1>8. CASE LeaveUncomposed
  <2>1. \E v : ctx' = Report(ctx, v) BY <1>8 DEF LeaveUncomposed
  <2>2. Onward(ctx', ctx) BY <1>2, <2>1, ReportFacts
  <2>3. QED BY <1>1, <1>8, <2>2, GrowsJudgements DEF LeaveUncomposed
<1>9. CASE ComposeFinal BY <1>1, <1>9, ComposeJudges
<1>10. QED BY <1>1, <1>3, <1>4, <1>5, <1>6, <1>7, <1>8, <1>9 DEF Next

LEMMA JudgementsHold == Spec => []Judgements
<1>1. QED BY InitJudgements, NextJudgements, Inductive, PTL DEF Spec

\* What the invariants and the assumptions say of the plan and of what it composes.
LEMMA PlanFacts ==
  ASSUME plan \in Plans
  PROVE  /\ plan.transitions \in Seq(Range(plan.transitions))
         /\ Len(plan.transitions) \in Nat /\ DOMAIN plan.transitions = 1 .. Len(plan.transitions)
         /\ \A t \in Range(plan.transitions) : Proper(t)
         /\ DOMAIN plan.view = Dimensions \cup {"headEntries", "identities", "leafKinds"}
<1>1. plan.transitions \in Seq(Range(plan.transitions)) BY PlansAssumption
<1>2. Len(plan.transitions) \in Nat /\ DOMAIN plan.transitions = 1 .. Len(plan.transitions)
  BY <1>1
<1>3. \A t \in Range(plan.transitions) : Proper(t) BY PlansAssumption DEF Proper
<1>4. QED BY <1>1, <1>2, <1>3, PlansAssumption

LEMMA ApplyPlan ==
  ASSUME plan \in Plans
  PROVE  LET n == Len(plan.transitions)
             view == Apply(plan.view, plan.transitions)
         IN Kept(plan.transitions, n, plan.view, view) /\ Valued(plan.transitions, n, plan.view, view)
<1>1. Dimensions \cup {"identities"} \subseteq DOMAIN plan.view BY PlanFacts
<1>2. QED BY <1>1, PlanFacts, ApplyFacts

LEMMA ComposedFacts ==
  ASSUME Inv, Judgements, NEW view \in final
  PROVE  LET n == Len(plan.transitions)
         IN Kept(plan.transitions, n, plan.view, view) /\ Valued(plan.transitions, n, plan.view, view)
<1>1. plan \in Plans /\ view = Apply(plan.view, plan.transitions) BY DEF Inv, Judgements
<1>2. QED BY <1>1, ApplyPlan

\* The value of a target is that of the one transition about it, if there is one.
LEMMA ValuesAreIntended ==
  ASSUME plan \in Plans, Distinct(plan.transitions), NEW d \in Targets, NEW p
  PROVE  TargetValue(Apply(plan.view, plan.transitions), d, p) = Intended(plan.view, d, p)
<1> DEFINE ts == plan.transitions
           n == Len(ts)
           value == TargetValue(Apply(plan.view, ts), d, p)
           aimed == {t \in Range(ts) : t.dimension = d /\ t.path = p}
<1>1. /\ DOMAIN ts = 1 .. n /\ \A i \in 1 .. n : ts[i] \in Range(ts)
      /\ \A t \in Range(ts) : \E i \in 1 .. n : t = ts[i]
  BY PlanFacts DEF Range
<1>2. \/ /\ value = TargetValue(plan.view, d, p)
         /\ \A j \in 1 .. n : ~Aims(ts[j], d, p)
      \/ \E j \in 1 .. n : Aims(ts[j], d, p) /\ value = ts[j].to
  BY ApplyPlan DEF Valued
<1>3. Intended(plan.view, d, p) = IF aimed = {} THEN TargetValue(plan.view, d, p)
                                  ELSE UNION {t.to : t \in aimed}
  BY DEF Intended
<1>4. \A i, j \in 1 .. n : i # j => <<ts[i].dimension, ts[i].path>> # <<ts[j].dimension, ts[j].path>>
  BY <1>1 DEF Distinct
<1> HIDE DEF ts, n, value
<1>5. CASE /\ value = TargetValue(plan.view, d, p)
           /\ \A j \in 1 .. n : ~Aims(ts[j], d, p)
  <2>1. aimed = {} BY <1>1, <1>5 DEF Aims
  <2>2. QED BY <1>3, <1>5, <2>1 DEF value, ts
<1>6. ASSUME NEW j \in 1 .. n, Aims(ts[j], d, p), value = ts[j].to
      PROVE  value = Intended(plan.view, d, p)
  <2>1. ts[j] \in aimed BY <1>1, <1>6 DEF Aims
  <2>2. \A t \in aimed : t = ts[j]
    <3>1. SUFFICES ASSUME NEW t \in aimed PROVE t = ts[j] OBVIOUS
    <3>2. PICK i \in 1 .. n : t = ts[i] BY <1>1
    <3>3. ts[i].dimension = ts[j].dimension /\ ts[i].path = ts[j].path BY <1>6, <3>2 DEF Aims
    <3>4. i = j BY <1>4, <3>3
    <3>5. QED BY <3>2, <3>4
  <2>3. aimed = {ts[j]} BY <2>1, <2>2
  <2>4. UNION {t.to : t \in {ts[j]}} = ts[j].to OBVIOUS
  <2>5. QED BY <1>3, <1>6, <2>3, <2>4
<1>7. QED BY <1>2, <1>5, <1>6 DEF value, ts

\* Transitions on different targets are simultaneous: the state they compose
\* does not depend on their order, for any number of them
\* (_apply_simultaneous_transitions).
THEOREM CompositionIsSimultaneous == Spec => []FinalIsSimultaneous
<1>1. ASSUME Inv, Judgements PROVE FinalIsSimultaneous
  <2>1. plan \in Plans /\ \A view \in final : view = Apply(plan.view, plan.transitions)
    BY <1>1 DEF Inv, Judgements
  <2>2. QED BY <2>1, ValuesAreIntended DEF FinalIsSimultaneous
<1>2. QED BY <1>1, Inductive, JudgementsHold, PTL

\* What the acceptance of a plan says of what it composes.
LEMMA AcceptedJudgements ==
  ASSUME Inv, Judgements, Accepted, NEW view \in final
  PROVE  /\ \A x \in CapabilityRules(Operations(view)) : x[2]
         /\ \A x \in PostconditionRules({Project(view)}) : x[2]
         /\ \A t \in Range(plan.transitions) : InScope(t)
<1>1. Untainted(ctx) /\ phase = "done" BY VerdictFacts DEF Accepted, Done
<1>2. Judged(view) BY <1>1 DEF Judgements
<1>3. \A x \in CapabilityRules(Operations(view)) \cup PostconditionRules({Project(view)}) : x[2]
  BY <1>2, AllHold DEF Judged
<1>4. at > Len(plan.transitions) /\ at \in Nat BY <1>1 DEF Judgements
<1>5. \A i \in 1 .. (at - 1) : InScope(plan.transitions[i]) BY <1>1 DEF Judgements
<1>6. /\ Len(plan.transitions) \in Nat
      /\ \A t \in Range(plan.transitions) : \E i \in 1 .. Len(plan.transitions) : t = plan.transitions[i]
  BY PlanFacts DEF Inv, Range
<1>7. \A i \in 1 .. Len(plan.transitions) : i \in 1 .. (at - 1) BY <1>4, <1>6
<1>8. \A t \in Range(plan.transitions) : InScope(t) BY <1>5, <1>6, <1>7
<1>9. QED BY <1>3, <1>8

\* Whatever an accepted plan changes it also promises, and every promise is kept
\* by the state it composes (_check_contract_postconditions).
THEOREM AcceptedKeepsPromises == Spec => []PromisesAreKept
<1>1. ASSUME Inv, Judgements PROVE PromisesAreKept
  <2>1. SUFFICES ASSUME Accepted, NEW view \in final
                 PROVE  /\ \A d \in DOMAIN plan.posts : Tells(plan.posts[d], d, view)
                        /\ \A d \in Dimensions \ DOMAIN plan.posts :
                             d \in Inventories => view[d] = plan.view[d]
    BY DEF PromisesAreKept
  <2> DEFINE n == Len(plan.transitions)
  <2>2. /\ plan \in Plans /\ Holds(Project(view), view) BY <1>1 DEF Inv
  <2>3. /\ Changed \subseteq DOMAIN plan.posts
        /\ \A d \in DOMAIN plan.posts : plan.posts[d] = Project(view)[d]
    <3> DEFINE conditions == {Project(view)}
               covered == Changed \subseteq DOMAIN plan.posts
               kept == \A d \in DOMAIN plan.posts :
                         IF conditions # {} THEN \A c \in conditions : plan.posts[d] = c[d]
                         ELSE d \notin Changed => plan.posts[d] = plan.baseline[d]
    <3>1. \A x \in PostconditionRules(conditions) : x[2] BY <1>1, <2>1, AcceptedJudgements
    <3>2. PostconditionRules(conditions) = {<<"CONTRACT.POST_FINAL", covered>>, <<"CONTRACT.POST_FINAL", kept>>}
      BY DEF PostconditionRules
    <3>3. covered /\ kept
      <4>1. <<"CONTRACT.POST_FINAL", covered>>[2] BY <3>1, <3>2
      <4>2. <<"CONTRACT.POST_FINAL", kept>>[2] BY <3>1, <3>2
      <4> HIDE DEF covered, kept
      <4>3. QED BY <4>1, <4>2
    <3>4. conditions # {} /\ Project(view) \in conditions OBVIOUS
    <3>5. QED BY <3>3, <3>4 DEF covered, kept
  <2>4. /\ \A f \in DOMAIN plan.view :
             f \notin {plan.transitions[j].dimension : j \in 1 .. n} \cup {"identities"} => view[f] = plan.view[f]
    BY <1>1, ComposedFacts DEF Kept
  <2>5. \A d \in Dimensions : d \notin Changed => view[d] = plan.view[d]
    <3>1. SUFFICES ASSUME NEW d \in Dimensions, d \notin Changed PROVE view[d] = plan.view[d] OBVIOUS
    <3>2. d # "identities" /\ d \in DOMAIN plan.view
      BY <2>2, PlanFacts DEF Dimensions, Inventories
    <3>3. \A j \in 1 .. n : plan.transitions[j] \in Range(plan.transitions)
      BY <2>2, PlanFacts DEF Range
    <3>4. \A j \in 1 .. n : plan.transitions[j].dimension # d BY <3>1, <3>3 DEF Changed
    <3>5. QED BY <2>4, <3>2, <3>4
  <2>6. \A t \in Range(plan.transitions) : t.dimension \in Targets
    BY <2>2, PlanFacts DEF Proper
  <2>7. view.head = plan.view.head /\ view.submodules = plan.view.submodules
    <3>1. "head" \notin Changed /\ "submodules" \notin Changed
      BY <2>6 DEF Changed, Targets, Inventories
    <3>2. "head" \in Dimensions /\ "submodules" \in Dimensions BY DEF Dimensions, Inventories
    <3>3. QED BY <2>5, <3>1, <3>2
  <2>8. /\ view.head.state # "exact"
        /\ view.submodules = [p \in DOMAIN view.submodules |-> view.submodules[p]]
    BY <2>2, <2>7, PlansAssumption
  <2>9. DOMAIN plan.posts \subseteq Dimensions BY <2>2, PlansAssumption
  <2>10. \A d \in DOMAIN plan.posts : Tells(plan.posts[d], d, view)
    BY <2>2, <2>3, <2>8, <2>9, HoldsTells
  <2>11. \A d \in Dimensions \ DOMAIN plan.posts : view[d] = plan.view[d] BY <2>3, <2>5
  <2>12. QED BY <2>10, <2>11
<1>2. QED BY <1>1, Inductive, JudgementsHold, PTL

\* The entries and the identities of a view are those of files.
Filed(view) ==
  /\ \A p \in DOMAIN view.tracked :
       view.tracked[p].status \in {"clean", "deleted"} \/ view.tracked[p].work \in Contents
  /\ \A p \in DOMAIN view.identities : view.identities[p] \in Contents

LEMMA ViewIsFiled == ASSUME plan \in Plans PROVE Filed(plan.view)
<1> DEFINE entries == Range(plan.view.tracked)
             \cup UNION {t.to : t \in {t \in Range(plan.transitions) : t.dimension = "tracked"}}
<1>1. /\ \A e \in entries : e.status \in {"clean", "deleted"} \/ e.work \in Contents
      /\ Range(plan.view.identities) \subseteq Contents
  BY NamesAssumption
<1>2. QED BY <1>1 DEF Filed, Range

LEMMA ApplyIsFiled == ASSUME plan \in Plans PROVE Filed(Apply(plan.view, plan.transitions))
<1> DEFINE view == Apply(plan.view, plan.transitions)
           ts == plan.transitions
           n == Len(ts)
           entries == Range(plan.view.tracked)
             \cup UNION {t.to : t \in {t \in Range(ts) : t.dimension = "tracked"}}
<1>2. \A e \in entries : e.status \in {"clean", "deleted"} \/ e.work \in Contents
  BY NamesAssumption
<1>3. \A j \in 1 .. n : ts[j] \in Range(ts) BY PlanFacts DEF Range
<1>4. Kept(ts, n, plan.view, view) /\ Valued(ts, n, plan.view, view) BY ApplyPlan
<1> HIDE DEF view
<1>5. ASSUME NEW p \in DOMAIN view.tracked PROVE view.tracked[p] \in entries
  <2>1. "tracked" \in Targets /\ "tracked" \notin PathSets BY DEF Targets, Inventories, PathSets
  <2>2. view.tracked[p] \in TargetValue(view, "tracked", p) BY <2>1 DEF TargetValue
  <2>3. \/ TargetValue(view, "tracked", p) = TargetValue(plan.view, "tracked", p)
        \/ \E j \in 1 .. n : Aims(ts[j], "tracked", p) /\ TargetValue(view, "tracked", p) = ts[j].to
    BY <1>4, <2>1 DEF Valued
  <2>4. CASE TargetValue(view, "tracked", p) = TargetValue(plan.view, "tracked", p)
    BY <2>1, <2>2, <2>4 DEF TargetValue, Range
  <2>5. CASE \E j \in 1 .. n : Aims(ts[j], "tracked", p) /\ TargetValue(view, "tracked", p) = ts[j].to
    BY <1>3, <2>2, <2>5 DEF Aims
  <2>6. QED BY <2>3, <2>4, <2>5
<1>6. \A p \in DOMAIN view.identities : view.identities[p] \in Contents
  BY <1>4, ViewIsFiled DEF Kept, Filed
<1> HIDE DEF entries
<1>7. QED BY <1>2, <1>5, <1>6 DEF Filed, view

LEMMA ComposedIsFiled == ASSUME Inv, Judgements, NEW view \in final PROVE Filed(view)
BY ApplyIsFiled DEF Inv, Judgements

\* The ordinary projection knows which paths hold a file, and what it knows of
\* a file is all that is possible.
LEMMA ProjectionFacts ==
  ASSUME NEW conditions, NEW view, Holds(conditions, view), Filed(view), NEW p
  PROVE  LET known == OrdinaryProjection(view)
         IN /\ p \notin DOMAIN known => Possible(view, p) = {Gone}
            /\ p \in DOMAIN known => /\ Possible(view, p) \subseteq Contents
                                     /\ known[p] # {} => Possible(view, p) = known[p]
                                     /\ \A s, r \in known[p] : s = r
<1> DEFINE known  == OrdinaryProjection(view)
           leaves == view.untracked \cup view.ignored
           entry  == view.tracked[p]
           own    == {view.identities[q] : q \in DOMAIN view.identities \cap {p}}
<1>1. /\ p \in DOMAIN known <=> (p \in DOMAIN view.tracked /\ entry.status # "deleted") \/ p \in leaves
      /\ p \in leaves => known[p] = {}
      /\ p \in DOMAIN known /\ p \notin leaves =>
           known[p] = IF entry.status = "clean" THEN own ELSE {entry.work}
  BY DEF OrdinaryProjection
<1>2. ~(p \in leaves /\ p \in DOMAIN view.tracked) BY RulesSay DEF Holds
<1>3. own \subseteq Contents /\ (p \in DOMAIN view.identities => own = {view.identities[p]})
      /\ \A s, r \in own : s = r
  BY DEF Filed
<1>4. p \notin DOMAIN view.identities => own = {} OBVIOUS
<1> HIDE DEF known, own
<1>5. CASE p \in DOMAIN view.tracked /\ entry.status = "deleted"
  <2>1. Possible(view, p) = {Gone} BY <1>5 DEF Possible
  <2>2. QED BY <1>1, <1>2, <1>5, <2>1 DEF known
<1>6. CASE p \in DOMAIN view.tracked /\ entry.status \notin {"clean", "deleted"}
  <2>1. Possible(view, p) = {entry.work} BY <1>6 DEF Possible
  <2>2. entry.work \in Contents BY <1>6 DEF Filed
  <2>3. known[p] = {entry.work} /\ p \in DOMAIN known BY <1>1, <1>2, <1>6
  <2>4. QED BY <2>1, <2>2, <2>3 DEF known
<1>7. CASE p \in DOMAIN view.tracked /\ entry.status = "clean"
  <2>1. Possible(view, p) = IF p \in DOMAIN view.identities THEN {view.identities[p]} ELSE Contents
    BY <1>7 DEF Possible
  <2>2. known[p] = own /\ p \in DOMAIN known BY <1>1, <1>2, <1>7
  <2>3. QED BY <1>3, <1>4, <2>1, <2>2 DEF known
<1>8. CASE p \notin DOMAIN view.tracked
  <2>1. Possible(view, p) = IF p \in leaves THEN Contents ELSE {Gone} BY <1>8 DEF Possible
  <2>2. QED BY <1>1, <1>8, <2>1 DEF known
<1>9. QED BY <1>5, <1>6, <1>7, <1>8

\* Every operation that some effect consistent with both states would take is
\* one of the operations the code derives.
LEMMA EffectsAreOperations ==
  ASSUME NEW c, NEW before, Holds(c, before), Filed(before),
         NEW d, NEW after, Holds(d, after), Filed(after)
  PROVE  Effects(before, after)
           \subseteq OrdinaryOperationSet(OrdinaryProjection(before), OrdinaryProjection(after))
<1> DEFINE x == OrdinaryProjection(before)
           y == OrdinaryProjection(after)
           took(b, a) == IF b = a THEN {}
                         ELSE IF b = Gone THEN {"create"} ELSE IF a = Gone THEN {"delete"} ELSE {"modify"}
<1>1. SUFFICES ASSUME NEW p \in Paths, NEW b \in Possible(before, p), NEW a \in Possible(after, p)
               PROVE  took(b, a) \subseteq OrdinaryOperationSet(x, y)
  BY DEF Effects
<1>2. /\ p \notin DOMAIN x => Possible(before, p) = {Gone}
      /\ p \in DOMAIN x => /\ Possible(before, p) \subseteq Contents
                           /\ x[p] # {} => Possible(before, p) = x[p]
                           /\ \A s, r \in x[p] : s = r
  BY ProjectionFacts
<1>3. /\ p \notin DOMAIN y => Possible(after, p) = {Gone}
      /\ p \in DOMAIN y => /\ Possible(after, p) \subseteq Contents
                           /\ y[p] # {} => Possible(after, p) = y[p]
  BY ProjectionFacts
<1>4. Gone \notin Contents BY NamesAssumption
<1>5. /\ p \in DOMAIN y \ DOMAIN x => "create" \in OrdinaryOperationSet(x, y)
      /\ p \in DOMAIN x \ DOMAIN y => "delete" \in OrdinaryOperationSet(x, y)
      /\ p \in DOMAIN x \cap DOMAIN y /\ (x[p] = {} \/ y[p] = {} \/ x[p] # y[p])
           => "modify" \in OrdinaryOperationSet(x, y)
  BY DEF OrdinaryOperationSet
<1> HIDE DEF x, y
<1>6. CASE b = a BY <1>6
<1>7. CASE b # a /\ b = Gone
  <2>1. p \notin DOMAIN x /\ p \in DOMAIN y BY <1>1, <1>2, <1>3, <1>4, <1>7
  <2>2. QED BY <1>5, <1>7, <2>1
<1>8. CASE b # a /\ b # Gone /\ a = Gone
  <2>1. p \in DOMAIN x /\ p \notin DOMAIN y BY <1>1, <1>2, <1>3, <1>4, <1>8
  <2>2. QED BY <1>5, <1>8, <2>1
<1>9. CASE b # a /\ b # Gone /\ a # Gone
  <2>1. p \in DOMAIN x /\ p \in DOMAIN y BY <1>1, <1>2, <1>3, <1>9
  <2>2. x[p] = {} \/ y[p] = {} \/ x[p] # y[p]
    <3>1. SUFFICES ASSUME x[p] # {}, y[p] # {}, x[p] = y[p] PROVE FALSE OBVIOUS
    <3>2. Possible(before, p) = Possible(after, p) BY <1>2, <1>3, <2>1, <3>1
    <3>3. b \in x[p] /\ a \in x[p] BY <1>1, <1>2, <2>1, <3>1, <3>2
    <3>4. QED BY <1>2, <1>9, <2>1, <3>3
  <2>3. QED BY <1>5, <1>9, <2>1, <2>2
<1>10. QED BY <1>6, <1>7, <1>8, <1>9

\* The accepted scope covers everything the plan may do, for any number of paths
\* and transitions: every path it makes different, and every operation on a file
\* (_ordinary_operation_set, TA01-TA03, CONTRACT.REQUIRED_CAPS).
THEOREM AuthorityCovers == Spec => []AuthorityCoversThePlan
<1>1. ASSUME Inv, Judgements PROVE AuthorityCoversThePlan
  <2>1. SUFFICES ASSUME Accepted, plan.allowWrite, NEW view \in final
                 PROVE  /\ Effects(plan.view, view) \cup Staging
                             \subseteq plan.authorized.capabilities \ plan.prohibited.capabilities
                        /\ {p \in Paths : \E d \in Targets : TargetValue(plan.view, d, p) # TargetValue(view, d, p)}
                             \subseteq plan.authorized.paths \ plan.prohibited.paths
    BY DEF AuthorityCoversThePlan
  <2> DEFINE n == Len(plan.transitions)
             operations == Operations(view)
             staging == "index" \in Changed
             required == operations \cup {"git-stage" : x \in {x \in {0} : staging}}
             covered == /\ required \subseteq plan.authorized.capabilities
                        /\ required \cap plan.prohibited.capabilities = {}
  <2>2. covered
    <3>1. <<"CONTRACT.REQUIRED_CAPS", covered>> \in CapabilityRules(operations) BY DEF CapabilityRules
    <3>2. \A x \in CapabilityRules(operations) : x[2] BY <1>1, <2>1, AcceptedJudgements
    <3> HIDE DEF covered
    <3>3. <<"CONTRACT.REQUIRED_CAPS", covered>>[2] BY <3>1, <3>2
    <3>4. QED BY <3>3
  <2>3. Staging \subseteq required BY DEF Staging, Changed
  <2>4. Effects(plan.view, view) \subseteq operations
    <3>1. /\ Holds(plan.baseline, plan.view) /\ Holds(Project(view), view)
          /\ plan \in Plans
      BY <1>1, <2>1, AcceptedFacts DEF Inv
    <3>2. Filed(plan.view) /\ Filed(view) BY <1>1, <3>1, ViewIsFiled, ComposedIsFiled
    <3>3. Effects(plan.view, view)
            \subseteq OrdinaryOperationSet(OrdinaryProjection(plan.view), OrdinaryProjection(view))
      BY <3>1, <3>2, EffectsAreOperations
    <3>4. operations = OrdinaryOperationSet(OrdinaryProjection(plan.view), OrdinaryProjection(view))
      BY <2>1 DEF Operations
    <3>5. QED BY <3>3, <3>4
  <2> HIDE DEF operations
  <2>5. ASSUME NEW p \in Paths, NEW d \in Targets,
               TargetValue(plan.view, d, p) # TargetValue(view, d, p)
        PROVE  p \in plan.authorized.paths \ plan.prohibited.paths
    <3>1. PICK j \in 1 .. n : Aims(plan.transitions[j], d, p)
      BY <1>1, <2>1, <2>5, ComposedFacts DEF Valued
    <3>2. plan.transitions[j] \in Range(plan.transitions) BY <1>1, PlanFacts DEF Inv, Range
    <3>3. InScope(plan.transitions[j]) BY <1>1, <2>1, <3>2, AcceptedJudgements
    <3>4. QED BY <3>1, <3>3 DEF Aims, InScope
  <2>6. QED BY <2>2, <2>3, <2>4, <2>5
<1>2. QED BY <1>1, Inductive, JudgementsHold, PTL

-----------------------------------------------------------------------------
\* A plan that is right, and what the rules find of it.

\* What is known of a view without its being examined.
Shaped(view) ==
  /\ view = [f \in Dimensions \cup {"headEntries", "identities", "leafKinds"} |-> view[f]]
  /\ \A f \in {"index", "tracked", "submodules", "identities"} :
       view[f] = [p \in DOMAIN view[f] |-> view[f][p]]
Placed(view) ==
  /\ view.untracked \cup view.ignored \subseteq Paths
  /\ \A f \in {"index", "tracked", "submodules"} : DOMAIN view[f] \subseteq Paths

LEMMA ViewIsShaped ==
  ASSUME plan \in Plans PROVE Shaped(plan.view) /\ plan.view.head.state # "exact" /\ Placed(plan.view)
<1>1. Shaped(plan.view) /\ plan.view.head.state # "exact" BY PlansAssumption DEF Shaped
<1>2. Placed(plan.view) BY NamesAssumption DEF Placed
<1>3. QED BY <1>1, <1>2

\* The one canonical condition of a dimension is that of the projection.
Formed(condition, d) ==
  d = "head" \/ condition = Bare(d) \/ condition = Exact(condition.entries)

LEMMA TellsProjected ==
  ASSUME NEW view, Shaped(view), NEW d \in Dimensions, NEW condition,
         Formed(condition, d), Tells(condition, d, view)
  PROVE  condition = Project(view)[d]
<1>1. CASE d = "head"
  <2>1. Project(view)[d] = view.head BY <1>1 DEF Project, Dimensions
  <2>2. QED BY <1>1, <2>1 DEF Tells, Canonical
<1>2. CASE d = "index"
  <2>1. Project(view)[d] = IF view.index = view.headEntries THEN Word("clean") ELSE Exact(view.index)
    BY <1>2 DEF Project, Dimensions, Inventories
  <2>2. (condition.state = "clean") <=> (view.index = view.headEntries)
    BY <1>2 DEF Tells, Canonical
  <2>3. condition.state = "exact" => condition.entries = view.index BY <1>2 DEF Tells
  <2>4. condition = Word("clean") \/ condition = Exact(condition.entries) BY <1>2 DEF Formed, Bare
  <2>5. QED BY <2>1, <2>2, <2>3, <2>4 DEF Word, Exact
<1>3. CASE d = "tracked"
  <2>1. Project(view)[d] = IF \A p \in DOMAIN view.tracked : view.tracked[p].status = "clean"
                           THEN Word("clean") ELSE Exact(view.tracked)
    BY <1>3 DEF Project, Dimensions, Inventories
  <2>2. (condition.state = "exact") <=> \E p \in DOMAIN view.tracked : view.tracked[p].status # "clean"
    BY <1>3 DEF Tells, Canonical
  <2>3. condition.state = "exact" => condition.entries = view.tracked BY <1>3 DEF Tells
  <2>4. condition = Word("clean") \/ condition = Exact(condition.entries) BY <1>3 DEF Formed, Bare
  <2>5. QED BY <2>1, <2>2, <2>3, <2>4 DEF Word, Exact
<1>4. CASE d = "submodules"
  <2>1. Project(view)[d] = IF view.submodules = << >> THEN Word("none") ELSE Exact(view.submodules)
    BY <1>4 DEF Project, Dimensions, Inventories
  <2>2. DOMAIN view.submodules = {} <=> view.submodules = << >> BY EmptyFunction DEF Shaped
  <2>3. (condition.state = "none") <=> (DOMAIN view.submodules = {}) BY <1>4 DEF Tells, Canonical
  <2>4. condition.state = "exact" => condition.entries = view.submodules BY <1>4 DEF Tells
  <2>5. condition = Word("none") \/ condition = Exact(condition.entries) BY <1>4 DEF Formed, Bare
  <2>6. QED BY <2>1, <2>2, <2>3, <2>4, <2>5 DEF Word, Exact
<1>5. CASE d \in PathSets
  <2>1. Project(view)[d] = IF view[d] = {} THEN Word("none") ELSE Exact(view[d])
    BY <1>5 DEF Project, Dimensions, Inventories, PathSets
  <2>2. (condition.state = "none") <=> (view[d] = {}) BY <1>5 DEF Tells, Canonical, PathSets
  <2>3. condition.state = "exact" => condition.entries = view[d] BY DEF Tells
  <2>4. condition = Word("none") \/ condition = Exact(condition.entries) BY <1>5 DEF Formed, Bare, PathSets
  <2>5. QED BY <2>1, <2>2, <2>3, <2>4 DEF Word, Exact
<1>6. QED BY <1>1, <1>2, <1>3, <1>4, <1>5 DEF Dimensions, Inventories, PathSets

\* Of a well-formed view no rule is violated, whether its inventories are
\* materialised or those the conditions spell out.
LEMMA NotTwo ==
  ASSUME NEW S, IsFiniteSet(S), Cardinality(S) <= 1, NEW a \in S, NEW b \in S PROVE a = b
<1>1. SUFFICES ASSUME a # b PROVE FALSE OBVIOUS
<1>2. IsFiniteSet({a}) /\ Cardinality({a}) = 1 BY FS_Singleton
<1>3. {a} \cup {b} \subseteq S OBVIOUS
<1>4. IsFiniteSet({a} \cup {b}) /\ Cardinality({a} \cup {b}) = 2
  <2> DEFINE A == {a}
  <2>1. b \notin A /\ IsFiniteSet(A) /\ Cardinality(A) = 1 BY <1>1, <1>2
  <2> HIDE DEF A
  <2>2. IsFiniteSet(A \cup {b}) /\ Cardinality(A \cup {b}) = Cardinality(A) + 1 BY <2>1, FS_AddElement
  <2>3. QED BY <2>1, <2>2 DEF A
<1>5. Cardinality({a} \cup {b}) <= Cardinality(S) BY <1>3, FS_Subset
<1>6. Cardinality(S) \in Nat BY FS_CardinalityType
<1>7. QED BY <1>4, <1>5, <1>6

LEMMA WellFormedSays ==
  ASSUME NEW view, Placed(view), WellFormed(view)
  PROVE  /\ \A p \in DOMAIN view.tracked :
              /\ p \in DOMAIN view.index /\ view.index[p].mode # Gitlink
              /\ view.tracked[p].mode = view.index[p].mode
              /\ view.tracked[p].object = view.index[p].object
         /\ \A p \in DOMAIN view.index : view.index[p].mode # Gitlink => p \in DOMAIN view.tracked
         /\ \A p : p \in DOMAIN view.submodules <=> p \in DOMAIN view.index /\ view.index[p].mode = Gitlink
         /\ \A p \in DOMAIN view.submodules : view.submodules[p] = view.index[p].object
         /\ view.untracked \cap view.ignored = {}
         /\ (view.untracked \cup view.ignored) \cap
              (DOMAIN view.index \cup DOMAIN view.tracked \cup DOMAIN view.submodules) = {}
         /\ DOMAIN view.tracked \cap DOMAIN view.submodules = {}
<1>1. ASSUME NEW p \in Paths
      PROVE  /\ p \in DOMAIN view.index /\ view.index[p].mode # Gitlink <=> p \in DOMAIN view.tracked
             /\ p \in DOMAIN view.index /\ view.index[p].mode = Gitlink <=> p \in DOMAIN view.submodules
             /\ p \in DOMAIN view.tracked => /\ view.tracked[p].mode = view.index[p].mode
                                             /\ view.tracked[p].object = view.index[p].object
             /\ p \in DOMAIN view.submodules => view.submodules[p] = view.index[p].object
             /\ ~(p \in view.untracked /\ p \in view.ignored)
             /\ ~(p \in view.untracked \cup view.ignored /\ p \in DOMAIN view.tracked \cup DOMAIN view.submodules)
             /\ ~(p \in DOMAIN view.tracked /\ p \in DOMAIN view.submodules)
  <2> DEFINE kinds == {d \in {"tracked", "submodules"} : p \in DOMAIN view[d]}
                        \cup {d \in PathSets : p \in view[d]}
  <2>1. OneThing(view, p) BY DEF WellFormed
  <2>2. IsFiniteSet(kinds)
    <3> DEFINE two == {"tracked"} \cup {"submodules"}
    <3>0. IsFiniteSet({"tracked"}) BY FS_Singleton
    <3>a. IsFiniteSet(two) BY <3>0, FS_AddElement
    <3> HIDE DEF two
    <3>b. IsFiniteSet(two \cup {"untracked"}) BY <3>a, FS_AddElement
    <3> DEFINE three == two \cup {"untracked"}
    <3> HIDE DEF three
    <3>c. IsFiniteSet(three) BY <3>b DEF three
    <3>1. IsFiniteSet(three \cup {"ignored"}) BY <3>c, FS_AddElement
    <3>2. kinds \subseteq three \cup {"ignored"} BY DEF PathSets, two, three
    <3> HIDE DEF kinds
    <3>3. QED BY <3>1, <3>2, FS_Subset
  <2>3. Cardinality(kinds) <= 1 BY <2>1 DEF OneThing
  <2>4. /\ p \in DOMAIN view.tracked <=> "tracked" \in kinds
        /\ p \in DOMAIN view.submodules <=> "submodules" \in kinds
        /\ p \in view.untracked <=> "untracked" \in kinds
        /\ p \in view.ignored <=> "ignored" \in kinds
    BY DEF PathSets
  <2> HIDE DEF kinds
  <2>5. \A a, b \in kinds : a = b BY <2>2, <2>3, NotTwo
  <2>6. QED BY <2>1, <2>4, <2>5 DEF OneThing
<1>2. QED BY <1>1 DEF Placed

\* What the conditions of a view spell out of its inventories.
LEMMA SpelledOut ==
  ASSUME NEW view, Shaped(view)
  PROVE  LET c == Project(view)
             shown == Shown(c, {})
         IN /\ shown.index = IF view.index = view.headEntries THEN << >> ELSE view.index
            /\ c.index.state = IF view.index = view.headEntries THEN "clean" ELSE "exact"
            /\ shown.tracked = IF \A p \in DOMAIN view.tracked : view.tracked[p].status = "clean"
                               THEN << >> ELSE view.tracked
            /\ c.tracked.state = IF \A p \in DOMAIN view.tracked : view.tracked[p].status = "clean"
                                 THEN "clean" ELSE "exact"
            /\ c.tracked.state = "exact" => c.tracked.entries = view.tracked
            /\ shown.submodules = view.submodules
            /\ c.submodules.state = "none" <=> DOMAIN view.submodules = {}
            /\ shown.untracked = view.untracked /\ shown.ignored = view.ignored
            /\ c.head = view.head
<1> DEFINE c == Project(view)
           shown == Shown(c, {})
<1>1. /\ c.head = view.head
      /\ c.index = IF view.index = view.headEntries THEN Word("clean") ELSE Exact(view.index)
      /\ c.tracked = IF \A p \in DOMAIN view.tracked : view.tracked[p].status = "clean"
                     THEN Word("clean") ELSE Exact(view.tracked)
      /\ c.submodules = IF view.submodules = << >> THEN Word("none") ELSE Exact(view.submodules)
      /\ c.untracked = IF view.untracked = {} THEN Word("none") ELSE Exact(view.untracked)
      /\ c.ignored = IF view.ignored = {} THEN Word("none") ELSE Exact(view.ignored)
  BY DEF Project, Dimensions, Inventories
<1> HIDE DEF c
<1>2. /\ shown.index = Entries(c.index) /\ shown.tracked = Entries(c.tracked)
      /\ shown.submodules = Entries(c.submodules)
      /\ shown.untracked = Members(c.untracked) /\ shown.ignored = Members(c.ignored)
  BY DEF Shown
<1> HIDE DEF shown
<1>3. DOMAIN view.submodules = {} <=> view.submodules = << >> BY EmptyFunction DEF Shaped
<1>4. \A w : /\ Word(w).state = w /\ Exact(w).state = "exact" /\ Exact(w).entries = w
             /\ w # "exact" => Entries(Word(w)) = << >> /\ Members(Word(w)) = {}
             /\ Entries(Exact(w)) = w /\ Members(Exact(w)) = w
  BY DEF Word, Exact, Entries, Members
<1>5. /\ shown.index = IF view.index = view.headEntries THEN << >> ELSE view.index
      /\ c.index.state = IF view.index = view.headEntries THEN "clean" ELSE "exact"
  BY <1>1, <1>2, <1>4
<1>6. /\ shown.tracked = IF \A p \in DOMAIN view.tracked : view.tracked[p].status = "clean"
                         THEN << >> ELSE view.tracked
      /\ c.tracked.state = IF \A p \in DOMAIN view.tracked : view.tracked[p].status = "clean"
                           THEN "clean" ELSE "exact"
      /\ c.tracked.state = "exact" => c.tracked.entries = view.tracked
  BY <1>1, <1>2, <1>4
<1>7. shown.submodules = view.submodules /\ (c.submodules.state = "none" <=> DOMAIN view.submodules = {})
  BY <1>1, <1>2, <1>3, <1>4
<1>8. shown.untracked = view.untracked /\ shown.ignored = view.ignored
  <2>1. /\ \A w : Members(Exact(w)) = w
        /\ \A w : w # "exact" => Members(Word(w)) = {} BY <1>4
  <2>2. shown.untracked = Members(c.untracked) /\ shown.ignored = Members(c.ignored) BY <1>2
  <2>3. shown.untracked = view.untracked BY <1>1, <2>1, <2>2
  <2>4. shown.ignored = view.ignored BY <1>1, <2>1, <2>2
  <2>5. QED BY <2>3, <2>4
<1>9. QED BY <1>1, <1>5, <1>6, <1>7, <1>8 DEF c, shown

\* The inventories shown of a well-formed view: the whole of an inventory, or
\* nothing where the condition does not spell it out.
LEMMA NothingViolated ==
  ASSUME NEW view, Shaped(view), Placed(view), WellFormed(view),
         view.head.state = "unborn" => view.headEntries = << >>,
         NEW supplied, supplied = {} \/ supplied = {view}
  PROVE  Violated(Consistency(Project(view), supplied)) = {}
<1> DEFINE conditions == Project(view)
           shown == Shown(conditions, supplied)
           whole(d) == supplied # {} \/ conditions[d].state = "exact"
           index == shown.index
           tracked == shown.tracked
           submodules == shown.submodules
           leaves == shown.untracked \cup shown.ignored
           gitlinks == {p \in DOMAIN index : index[p].mode = Gitlink}
           regular == DOMAIN index \ gitlinks
           r1 == conditions.tracked.state = "exact" =>
                   \E p \in DOMAIN conditions.tracked.entries : conditions.tracked.entries[p].status # "clean"
           r2 == whole("index") /\ whole("tracked") =>
                   \A p \in DOMAIN tracked : /\ p \in regular
                                             /\ tracked[p].mode = index[p].mode
                                             /\ tracked[p].object = index[p].object
           r3 == whole("index") => /\ whole("tracked") => regular = DOMAIN tracked
                                   /\ DOMAIN tracked \cap DOMAIN submodules = {}
           r4 == whole("index") =>
                   /\ gitlinks = DOMAIN submodules
                   /\ \A p \in gitlinks \cap DOMAIN submodules : submodules[p] = index[p].object
                   /\ conditions.submodules.state = "none" <=> gitlinks = {}
           r5 == /\ shown.untracked \cap shown.ignored = {}
                 /\ leaves \cap (DOMAIN index \cup DOMAIN tracked \cup DOMAIN submodules) = {}
                 /\ DOMAIN tracked \cap DOMAIN submodules = {}
           r6 == IF supplied # {} THEN conditions = Project(shown)
                 ELSE conditions.head.state = "unborn" /\ conditions.index.state = "exact" => index # << >>
           r7 == \A v \in supplied : \A p \in leaves \cap DOMAIN v.leafKinds : v.leafKinds[p] \in LeafKinds
<1>1. /\ conditions.index.state = IF view.index = view.headEntries THEN "clean" ELSE "exact"
      /\ conditions.tracked.state = IF \A p \in DOMAIN view.tracked : view.tracked[p].status = "clean"
                                    THEN "clean" ELSE "exact"
      /\ conditions.tracked.state = "exact" => conditions.tracked.entries = view.tracked
      /\ conditions.submodules.state = "none" <=> DOMAIN view.submodules = {}
      /\ conditions.head = view.head
  BY SpelledOut
<1>2. /\ index = view.index \/ (index = << >> /\ ~whole("index"))
      /\ tracked = view.tracked \/ (tracked = << >> /\ ~whole("tracked"))
      /\ submodules = view.submodules
      /\ shown.untracked = view.untracked /\ shown.ignored = view.ignored
      /\ supplied # {} => shown = view
  <2>1. CASE supplied = {view} BY <2>1 DEF Shown
  <2>2. CASE supplied = {} BY <2>2, SpelledOut
  <2>3. QED BY <2>1, <2>2
<1>3. DOMAIN << >> = {} OBVIOUS
<1>4. /\ \A p \in DOMAIN view.tracked :
           /\ p \in DOMAIN view.index /\ view.index[p].mode # Gitlink
           /\ view.tracked[p].mode = view.index[p].mode
           /\ view.tracked[p].object = view.index[p].object
      /\ \A p \in DOMAIN view.index : view.index[p].mode # Gitlink => p \in DOMAIN view.tracked
      /\ \A p : p \in DOMAIN view.submodules <=> p \in DOMAIN view.index /\ view.index[p].mode = Gitlink
      /\ \A p \in DOMAIN view.submodules : view.submodules[p] = view.index[p].object
  BY WellFormedSays
<1>5. /\ view.untracked \cap view.ignored = {}
      /\ (view.untracked \cup view.ignored) \cap
           (DOMAIN view.index \cup DOMAIN view.tracked \cup DOMAIN view.submodules) = {}
      /\ DOMAIN view.tracked \cap DOMAIN view.submodules = {}
  BY WellFormedSays
<1>6. \A p \in view.untracked \cup view.ignored : view.leafKinds[p] \in LeafKinds BY DEF WellFormed
<1>7. supplied # {} => supplied = {view} OBVIOUS
<1>8. Consistency(conditions, supplied) =
        {<<"BASE.TRACKED_EXACT", r1>>, <<"BASE.TRACKED_INDEX", r2>>, <<"BASE.COVERAGE", r3>>,
         <<"BASE.SUBMODULE_INDEX", r4>>, <<"BASE.DISJOINT", r5>>, <<"BASE.CANONICAL", r6>>,
         <<"PROOF.DIRECTORY_CLASS", r7>>}
  BY DEF Consistency
<1> HIDE DEF conditions, shown
<1>9. r1 BY <1>1
<1>10. r2 /\ r3 BY <1>2, <1>4, <1>5, <1>3
<1>11. r4 BY <1>1, <1>2, <1>4
<1>12. r5 BY <1>2, <1>3, <1>5
<1>13. r6
  <2>1. CASE supplied # {} BY <1>2, <2>1 DEF conditions
  <2>2. CASE supplied = {} BY <1>1, <1>2, <2>2
  <2>3. QED BY <2>1, <2>2
<1>14. r7 BY <1>2, <1>6, <1>7
<1> HIDE DEF r1, r2, r3, r4, r5, r6, r7
<1>15. ASSUME NEW x \in Consistency(conditions, supplied) PROVE x[2]
  <2>1. CASE x = <<"BASE.TRACKED_EXACT", r1>> BY <1>9, <2>1, OneRule
  <2>2. CASE x = <<"BASE.TRACKED_INDEX", r2>> BY <1>10, <2>2, OneRule
  <2>3. CASE x = <<"BASE.COVERAGE", r3>> BY <1>10, <2>3, OneRule
  <2>4. CASE x = <<"BASE.SUBMODULE_INDEX", r4>> BY <1>11, <2>4, OneRule
  <2>5. CASE x = <<"BASE.DISJOINT", r5>> BY <1>12, <2>5, OneRule
  <2>6. CASE x = <<"BASE.CANONICAL", r6>> BY <1>13, <2>6, OneRule
  <2>7. CASE x = <<"PROOF.DIRECTORY_CLASS", r7>> BY <1>14, <2>7, OneRule
  <2>8. QED BY <1>8, <2>1, <2>2, <2>3, <2>4, <2>5, <2>6, <2>7
<1>16. QED BY <1>15 DEF Violated, conditions

\* The turns of the loop leave functions functions.
LEMMA TurnShapes ==
  ASSUME NEW view, Shaped(view), NEW t, Proper(t) PROVE Shaped(ApplyOne(view, t))
<1> DEFINE k == ApplyOne(view, t)
           fields == Dimensions \cup {"headEntries", "identities", "leafKinds"}
           opaque == Drop(view.identities, t.path)
           fresh == IF t.dimension = "tracked" THEN [view EXCEPT !.identities = opaque] ELSE view
           new == Target(fresh[t.dimension], t)
<1>0. view = [f \in fields |-> view[f]] BY DEF Shaped
<1>1. fresh = [f \in fields |-> fresh[f]] /\ t.dimension \in fields
  BY <1>0 DEF Proper, Targets, Dimensions, Inventories
<1>2. k = [fresh EXCEPT ![t.dimension] = new] BY DEF ApplyOne, Target
<1>3. Dimensions \cup {"identities"} \subseteq DOMAIN view BY <1>0
<1>4. /\ k[t.dimension] = Target(view[t.dimension], t)
      /\ \A f \in fields : f \notin {t.dimension, "identities"} => k[f] = view[f]
      /\ k.identities = IF t.dimension = "tracked" THEN opaque ELSE view.identities
  BY <1>0, <1>3, TurnFields
<1>5. k = [f \in fields |-> k[f]]
  <2> HIDE DEF fresh, new, fields
  <2>1. QED BY <1>1, <1>2
<1>6. \A f : Drop(f, t.path) = [p \in DOMAIN Drop(f, t.path) |-> Drop(f, t.path)[p]]
  BY DEF Drop, Restrict
<1>7. \A f, v : Put(f, t.path, v) = [p \in DOMAIN Put(f, t.path, v) |-> Put(f, t.path, v)[p]]
  BY DEF Put
<1>8. ASSUME t.dimension \notin PathSets
      PROVE  k[t.dimension] = [p \in DOMAIN k[t.dimension] |-> k[t.dimension][p]]
  <2>1. k[t.dimension] = IF t.to = {} THEN Drop(view[t.dimension], t.path)
                         ELSE Put(view[t.dimension], t.path, CHOOSE v \in t.to : TRUE)
    BY <1>4, <1>8 DEF Target
  <2> DEFINE g == k[t.dimension]
             v0 == CHOOSE v \in t.to : TRUE
             f0 == view[t.dimension]
  <2>2. g = Drop(f0, t.path) \/ g = Put(f0, t.path, v0) BY <2>1
  <2> HIDE DEF g, v0, f0
  <2>3. g = [p \in DOMAIN g |-> g[p]] BY <1>6, <1>7, <2>2
  <2>4. QED BY <2>3 DEF g
<1>9. k.identities = [p \in DOMAIN k.identities |-> k.identities[p]]
  <2>1. view.identities = [p \in DOMAIN view.identities |-> view.identities[p]] BY DEF Shaped
  <2>2. opaque = [p \in DOMAIN opaque |-> opaque[p]] BY <1>6
  <2>3. QED BY <1>4, <2>1, <2>2
<1> HIDE DEF k
<1>10. ASSUME NEW f \in {"index", "tracked", "submodules", "identities"}
       PROVE  k[f] = [p \in DOMAIN k[f] |-> k[f][p]]
  <2>1. f \in fields BY DEF Dimensions, Inventories
  <2>2. view[f] = [p \in DOMAIN view[f] |-> view[f][p]] BY DEF Shaped
  <2>3. CASE f = t.dimension
    <3>1. t.dimension \notin PathSets BY <2>3 DEF PathSets
    <3>2. QED BY <1>8, <2>3, <3>1
  <2>4. CASE f = "identities" BY <1>9, <2>4
  <2>5. CASE f \notin {t.dimension, "identities"}
    <3>1. k[f] = view[f] BY <1>4, <2>1, <2>5
    <3>2. QED BY <2>2, <3>1
  <2>6. QED BY <2>3, <2>4, <2>5
<1>11. QED BY <1>5, <1>10 DEF Shaped, k

LEMMA ApplyShapes == ASSUME plan \in Plans PROVE Shaped(Apply(plan.view, plan.transitions))
<1> DEFINE ts == plan.transitions
           n == Len(ts)
<1>1. /\ n \in Nat /\ DOMAIN ts = 1 .. n /\ ts \in Seq(Range(ts))
      /\ \A i \in 1 .. n : Proper(ts[i])
  BY PlanFacts DEF Range
<1>2. PICK state : /\ state[0] = plan.view
                   /\ \A i \in 1 .. n : state[i] = ApplyOne(state[i - 1], ts[i])
                   /\ Apply(plan.view, ts) = state[n]
  BY <1>1, ApplyTurns
<1> DEFINE Good == {i \in 0 .. n : Shaped(state[i])}
<1> HIDE DEF ts, n
<1>3. 0 \in Good BY <1>1, <1>2, ViewIsShaped
<1>4. ASSUME NEW i \in 1 .. n, i - 1 \in Good PROVE i \in Good
  <2>1. Shaped(state[i - 1]) /\ i \in 0 .. n BY <1>1, <1>4
  <2>2. Shaped(ApplyOne(state[i - 1], ts[i])) BY <1>1, <2>1, TurnShapes
  <2>3. QED BY <1>2, <2>1, <2>2
<1> HIDE DEF Good
<1>5. \A i \in 0 .. n : i \in Good BY <1>1, <1>3, <1>4, UpTo
<1>6. n \in Good BY <1>1, <1>5
<1>7. QED BY <1>2, <1>6 DEF Good, ts

\* The entry a target value is about, if there is one.
LEMMA ValueOf ==
  ASSUME NEW view, NEW d \in {"index", "tracked"}, NEW p
  PROVE  /\ TargetValue(view, d, p) # {} <=> p \in DOMAIN view[d]
         /\ p \in DOMAIN view[d] => \A v \in TargetValue(view, d, p) : v = view[d][p]
BY DEF TargetValue, PathSets

LEMMA MemberOf ==
  ASSUME NEW view, NEW d \in PathSets, NEW p
  PROVE  TargetValue(view, d, p) # {} <=> p \in view[d]
BY DEF TargetValue

\* Every path of the composed state is a path of the plan.
LEMMA ApplyPlaces ==
  ASSUME plan \in Plans, NEW d \in Targets, NEW p,
         TargetValue(Apply(plan.view, plan.transitions), d, p) # {}
  PROVE  p \in Paths
<1> DEFINE ts == plan.transitions
           n == Len(ts)
<1>1. \A i \in 1 .. n : ts[i] \in Range(ts) BY PlanFacts DEF Range
<1>2. \A t \in Range(ts) : t.path \in Paths BY NamesAssumption
<1>3. \/ TargetValue(plan.view, d, p) # {}
      \/ \E j \in 1 .. n : Aims(ts[j], d, p)
  BY ApplyPlan DEF Valued
<1>4. CASE \E j \in 1 .. n : Aims(ts[j], d, p) BY <1>1, <1>2, <1>4 DEF Aims
<1>5. CASE TargetValue(plan.view, d, p) # {}
  <2>1. d \in {"index", "tracked"} \/ d \in PathSets BY DEF Targets, Inventories, PathSets
  <2>2. Placed(plan.view) BY ViewIsShaped
  <2>3. CASE d \in {"index", "tracked"}
    <3>1. p \in DOMAIN plan.view[d] BY <1>5, <2>3, ValueOf
    <3>2. QED BY <2>2, <2>3, <3>1 DEF Placed
  <2>4. CASE d \in PathSets
    <3>1. p \in plan.view[d] BY <1>5, <2>4, MemberOf
    <3>2. QED BY <2>2, <2>4, <3>1 DEF Placed, PathSets
  <2>5. QED BY <2>1, <2>3, <2>4
<1>6. QED BY <1>3, <1>4, <1>5

\* The loop composes the state the documentation has in mind, for any number of
\* transitions on different targets.
LEMMA ApplyIsComposed ==
  ASSUME plan \in Plans, Distinct(plan.transitions)
  PROVE  Apply(plan.view, plan.transitions) = Composed(plan.view)
<1> DEFINE view == plan.view
           ts == plan.transitions
           n == Len(ts)
           end == Apply(view, ts)
           fields == Dimensions \cup {"headEntries", "identities", "leafKinds"}
           here(d) == {p \in Paths : Intended(view, d, p) # {}}
           entries(d) == [p \in here(d) |-> CHOOSE v \in Intended(view, d, p) : TRUE]
           opaque == {t.path : t \in {t \in Range(ts) : t.dimension = "tracked"}}
           known == [p \in DOMAIN view.identities \ opaque |-> view.identities[p]]
<1>1. Composed(view) = [view EXCEPT !.index = entries("index"), !.tracked = entries("tracked"),
                                    !.untracked = here("untracked"), !.ignored = here("ignored"),
                                    !.identities = known]
  BY DEF Composed
<1>2. Shaped(view) /\ Shaped(end) BY ViewIsShaped, ApplyShapes
<1>3. \A d \in Targets : \A p : TargetValue(end, d, p) = Intended(view, d, p) BY ValuesAreIntended
<1>4. \A d \in Targets : \A p : Intended(view, d, p) # {} => p \in Paths BY <1>3, ApplyPlaces
<1>5. Kept(ts, n, view, end) BY ApplyPlan
<1>6. /\ \A i \in 1 .. n : ts[i] \in Range(ts) /\ ts[i].dimension \in Targets
      /\ \A t \in Range(ts) : \E i \in 1 .. n : t = ts[i]
  BY PlanFacts DEF Range, Proper
<1> HIDE DEF end
<1>7. ASSUME NEW d \in {"index", "tracked"} PROVE end[d] = entries(d)
  <2>1. d \in Targets BY DEF Targets, Inventories
  <2>2. \A p : p \in DOMAIN end[d] <=> p \in here(d) BY <1>3, <1>4, <2>1, ValueOf
  <2>3. \A p \in here(d) : end[d][p] = CHOOSE v \in Intended(view, d, p) : TRUE
    BY <1>3, <2>1, <2>2, ValueOf
  <2> DEFINE f == end[d]
             H == here(d)
             value(p) == CHOOSE v \in Intended(view, d, p) : TRUE
  <2>4. f = [p \in DOMAIN f |-> f[p]] BY <1>2 DEF Shaped
  <2>5. DOMAIN f = H /\ \A p \in H : f[p] = value(p) BY <2>2, <2>3
  <2> HIDE DEF f, H, value
  <2>6. f = [p \in H |-> value(p)] BY <2>4, <2>5
  <2>7. QED BY <2>6 DEF f, H, value
<1>8. ASSUME NEW d \in PathSets PROVE end[d] = here(d)
  <2>1. d \in Targets BY DEF Targets, Inventories, PathSets
  <2>2. \A p : p \in end[d] <=> p \in here(d) BY <1>3, <1>4, <2>1, MemberOf
  <2>3. QED BY <2>2
<1>9. end.identities = known
  <2> DEFINE f == end.identities
             g == view.identities
  <2>1. \A p : p \in opaque <=> \E j \in 1 .. n : ts[j].dimension = "tracked" /\ ts[j].path = p
    BY <1>6
  <2>2. /\ \A p \in DOMAIN f :
             /\ p \in DOMAIN g /\ f[p] = g[p]
             /\ \A j \in 1 .. n : ts[j].dimension = "tracked" => ts[j].path # p
        /\ \A p \in DOMAIN g :
             p \in DOMAIN f \/ \E j \in 1 .. n : ts[j].dimension = "tracked" /\ ts[j].path = p
    BY <1>5 DEF Kept
  <2>3. f = [p \in DOMAIN f |-> f[p]] BY <1>2 DEF Shaped
  <2> HIDE DEF opaque, f, g
  <2>4. DOMAIN f = DOMAIN g \ opaque /\ \A p \in DOMAIN f : f[p] = g[p]
    <3>1. \A p \in DOMAIN f : p \in DOMAIN g \ opaque BY <2>1, <2>2
    <3>2. \A p \in DOMAIN g \ opaque : p \in DOMAIN f BY <2>1, <2>2
    <3>3. DOMAIN f = DOMAIN g \ opaque BY <3>1, <3>2
    <3>4. QED BY <2>2, <3>3
  <2>5. f = [p \in DOMAIN g \ opaque |-> g[p]] BY <2>3, <2>4
  <2>6. QED BY <2>5 DEF f, g
<1>10. ASSUME NEW f \in {"head", "submodules", "headEntries", "leafKinds"} PROVE end[f] = view[f]
  <2>1. f \in DOMAIN view /\ f # "identities" /\ f \notin Targets
    BY <1>2 DEF Shaped, Dimensions, Inventories, Targets
  <2>2. f \notin {ts[j].dimension : j \in 1 .. n} BY <1>6, <2>1
  <2>3. QED BY <1>5, <2>1, <2>2 DEF Kept
<1>11. end = [f \in fields |-> end[f]] /\ view = [f \in fields |-> view[f]] BY <1>2 DEF Shaped
<1> DEFINE new == [view EXCEPT !.index = entries("index"), !.tracked = entries("tracked"),
                               !.untracked = here("untracked"), !.ignored = here("ignored"),
                               !.identities = known]
<1>12. "untracked" \in PathSets /\ "ignored" \in PathSets BY DEF PathSets
<1>13. /\ end.index = entries("index") /\ end.tracked = entries("tracked")
       /\ end.untracked = here("untracked") /\ end.ignored = here("ignored")
  BY <1>7, <1>8, <1>12
<1>14. fields = {"head", "submodules", "headEntries", "leafKinds"}
                  \cup {"index", "tracked", "untracked", "ignored", "identities"}
  BY DEF Dimensions, Inventories
<1> DEFINE i == entries("index")
           t == entries("tracked")
           u == here("untracked")
           g == here("ignored")
<1>15. new = [view EXCEPT !.index = i, !.tracked = t, !.untracked = u, !.ignored = g, !.identities = known]
  OBVIOUS
<1>16. end.index = i /\ end.tracked = t /\ end.untracked = u /\ end.ignored = g BY <1>13
<1> HIDE DEF i, t, u, g, known, fields, view, new
<1>17. new = [f \in fields |-> new[f]] BY <1>11, <1>15
<1>18. \A f \in fields : new[f] = end[f]
  BY <1>9, <1>10, <1>11, <1>14, <1>15, <1>16
<1>19. end = new BY <1>11, <1>17, <1>18
<1>20. QED BY <1>1, <1>19 DEF end, new, view

\* The transitions in canonical order are about different targets.
LEMMA OrderedIsDistinct ==
  ASSUME plan \in Plans,
         \A i \in 2 .. Len(plan.transitions) : Precedes(plan.transitions[i - 1], plan.transitions[i])
  PROVE  Distinct(plan.transitions)
<1> DEFINE ts == plan.transitions
           n == Len(ts)
           R == {r \in (1 .. n) \X (1 .. n) : Precedes(ts[r[1]], ts[r[2]])}
<1>1. n \in Nat /\ DOMAIN ts = 1 .. n /\ \A i \in 1 .. n : ts[i].dimension \in Targets
  BY PlanFacts DEF Range, Proper
<1>2. \A i \in 1 .. n : ts[i].path \in Int /\ Rank[ts[i].dimension] \in Int
  <2>1. \A t \in Range(ts) : t.path \in Int BY NamesAssumption
  <2>2. \A d \in Targets : Rank[d] \in Int BY DEF Targets, Inventories, Rank
  <2>3. QED BY <1>1, <2>1, <2>2 DEF Range
<1> HIDE DEF ts, n
<1>3. \A i \in 2 .. n : <<i - 1, i>> \in R
  <2>1. \A i \in 2 .. n : i - 1 \in 1 .. n /\ i \in 1 .. n BY <1>1
  <2>2. QED BY <2>1 DEF ts, n
<1>4. \A i, j, k \in 1 .. n : <<i, j>> \in R /\ <<j, k>> \in R => <<i, k>> \in R
  BY <1>2 DEF Precedes
<1> HIDE DEF R
<1>5. \A i, j \in 1 .. n : i < j => <<i, j>> \in R BY <1>1, <1>3, <1>4, NeighboursSuffice
<1>6. \A i, j \in 1 .. n : i < j => <<ts[i].dimension, ts[i].path>> # <<ts[j].dimension, ts[j].path>>
  <2>1. SUFFICES ASSUME NEW i \in 1 .. n, NEW j \in 1 .. n, i < j,
                        ts[i].dimension = ts[j].dimension, ts[i].path = ts[j].path
                 PROVE  FALSE
    OBVIOUS
  <2>2. Precedes(ts[i], ts[j]) BY <1>5, <2>1 DEF R
  <2>3. QED BY <1>2, <2>1, <2>2 DEF Precedes
<1>7. \A i, j \in 1 .. n : i # j => i < j \/ j < i BY <1>1
<1>8. \A i, j \in 1 .. n : i # j => <<ts[i].dimension, ts[i].path>> # <<ts[j].dimension, ts[j].path>>
  BY <1>6, <1>7
<1>9. QED BY <1>1, <1>8 DEF Distinct, ts, n

\* What the code derives of two well-formed states is no more than what some
\* effect would do: where it knows too little, something is possible.
LEMMA PossibleFacts ==
  ASSUME NEW view, Shaped(view), Placed(view), WellFormed(view), Filed(view),
         view.head.state = "unborn" => view.headEntries = << >>, NEW p
  PROVE  LET known == OrdinaryProjection(view)
         IN /\ p \notin DOMAIN known => Possible(view, p) = {Gone}
            /\ p \in DOMAIN known =>
                 /\ p \in Paths
                 /\ Possible(view, p) \subseteq Contents
                 /\ IF known[p] = {} THEN Possible(view, p) = Contents
                    ELSE \E s : known[p] = {s} /\ Possible(view, p) = {s}
<1> DEFINE known  == OrdinaryProjection(view)
           leaves == view.untracked \cup view.ignored
           entry  == view.tracked[p]
           own    == {view.identities[q] : q \in DOMAIN view.identities \cap {p}}
<1>1. Holds(Project(view), view)
  <2>1. {view} = {view} OBVIOUS
  <2>2. Violated(Consistency(Project(view), {view})) = {} BY <2>1, NothingViolated
  <2>3. Unknown(view) = {} BY DEF Unknown, WellFormed
  <2>4. QED BY <2>2, <2>3 DEF Holds
<1>2. /\ p \notin DOMAIN known => Possible(view, p) = {Gone}
      /\ p \in DOMAIN known => /\ Possible(view, p) \subseteq Contents
                               /\ known[p] # {} => Possible(view, p) = known[p]
                               /\ \A s, r \in known[p] : s = r
  BY <1>1, ProjectionFacts
<1>3. /\ p \in DOMAIN known <=> (p \in DOMAIN view.tracked /\ entry.status # "deleted") \/ p \in leaves
      /\ p \in leaves => known[p] = {}
      /\ p \in DOMAIN known /\ p \notin leaves =>
           known[p] = IF entry.status = "clean" THEN own ELSE {entry.work}
  BY DEF OrdinaryProjection
<1>4. ~(p \in leaves /\ p \in DOMAIN view.tracked) BY WellFormedSays
<1>5. p \in DOMAIN view.identities => view.identities[p] \in own OBVIOUS
<1> HIDE DEF known, own
<1>6. p \in DOMAIN known => p \in Paths BY <1>3 DEF Placed
<1>7. ASSUME p \in DOMAIN known, known[p] = {} PROVE Possible(view, p) = Contents
  <2>1. CASE p \in leaves
    <3>1. p \notin DOMAIN view.tracked BY <1>4, <2>1
    <3>2. QED BY <2>1, <3>1 DEF Possible
  <2>2. CASE p \notin leaves
    <3>1. p \in DOMAIN view.tracked /\ entry.status # "deleted" BY <1>3, <1>7, <2>2
    <3>2. entry.status = "clean" /\ own = {}
      <4>1. known[p] = IF entry.status = "clean" THEN own ELSE {entry.work} BY <1>3, <1>7, <2>2
      <4>2. QED BY <1>7, <4>1
    <3>3. p \notin DOMAIN view.identities BY <1>5, <3>2
    <3>4. QED BY <3>1, <3>2, <3>3 DEF Possible
  <2>3. QED BY <2>1, <2>2
<1>8. ASSUME p \in DOMAIN known, known[p] # {} PROVE \E s : known[p] = {s} /\ Possible(view, p) = {s}
  <2>1. PICK s \in known[p] : TRUE BY <1>8
  <2>2. known[p] = {s} BY <1>2, <1>8, <2>1
  <2>3. QED BY <1>2, <1>8, <2>2
<1>9. QED BY <1>2, <1>6, <1>7, <1>8 DEF known

LEMMA OperationsAreEffects ==
  ASSUME NEW before, Shaped(before), Placed(before), WellFormed(before), Filed(before),
         before.head.state = "unborn" => before.headEntries = << >>,
         NEW after, Shaped(after), Placed(after), WellFormed(after), Filed(after),
         after.head.state = "unborn" => after.headEntries = << >>
  PROVE  OrdinaryOperationSet(OrdinaryProjection(before), OrdinaryProjection(after)) \subseteq Effects(before, after)
<1> DEFINE x == OrdinaryProjection(before)
           y == OrdinaryProjection(after)
           took(b, a) == IF b = a THEN {}
                         ELSE IF b = Gone THEN {"create"} ELSE IF a = Gone THEN {"delete"} ELSE {"modify"}
<1>1. \A p : /\ p \notin DOMAIN x => Possible(before, p) = {Gone}
             /\ p \in DOMAIN x =>
                  /\ p \in Paths /\ Possible(before, p) \subseteq Contents
                  /\ IF x[p] = {} THEN Possible(before, p) = Contents
                     ELSE \E s : x[p] = {s} /\ Possible(before, p) = {s}
  BY PossibleFacts
<1>2. \A p : /\ p \notin DOMAIN y => Possible(after, p) = {Gone}
             /\ p \in DOMAIN y =>
                  /\ p \in Paths /\ Possible(after, p) \subseteq Contents
                  /\ IF y[p] = {} THEN Possible(after, p) = Contents
                     ELSE \E s : y[p] = {s} /\ Possible(after, p) = {s}
  BY PossibleFacts
<1>3. Gone \notin Contents /\ \E s, r \in Contents : s # r BY NamesAssumption
<1>4. ASSUME NEW p \in Paths, NEW b \in Possible(before, p), NEW a \in Possible(after, p)
      PROVE  took(b, a) \subseteq Effects(before, after)
  <2> DEFINE inner(q) == UNION {took(c, d) : c \in Possible(before, q), d \in Possible(after, q)}
  <2>1. Effects(before, after) = UNION {inner(q) : q \in Paths} BY DEF Effects
  <2> HIDE DEF took
  <2>2. took(b, a) \subseteq inner(p) OBVIOUS
  <2> HIDE DEF inner
  <2>3. inner(p) \subseteq UNION {inner(q) : q \in Paths} OBVIOUS
  <2>4. QED BY <2>1, <2>2, <2>3
<1>5. OrdinaryOperationSet(x, y) =
             {"create" : p \in DOMAIN y \ DOMAIN x} \cup {"delete" : p \in DOMAIN x \ DOMAIN y}
        \cup {"modify" : p \in {p \in DOMAIN x \cap DOMAIN y : x[p] = {} \/ y[p] = {} \/ x[p] # y[p]}}
  BY DEF OrdinaryOperationSet
<1> HIDE DEF x, y
<1>6. ASSUME NEW p \in DOMAIN y \ DOMAIN x PROVE "create" \in Effects(before, after)
  <2>1. PICK a \in Possible(after, p) : a \in Contents BY <1>2, <1>3, <1>6
  <2>2. Gone \in Possible(before, p) /\ p \in Paths /\ Gone # a BY <1>1, <1>2, <1>3, <1>6, <2>1
  <2>3. took(Gone, a) = {"create"} BY <2>2
  <2> HIDE DEF took
  <2>4. QED BY <1>4, <2>1, <2>2, <2>3
<1>7. ASSUME NEW p \in DOMAIN x \ DOMAIN y PROVE "delete" \in Effects(before, after)
  <2>1. PICK b \in Possible(before, p) : b \in Contents BY <1>1, <1>3, <1>7
  <2>2. Gone \in Possible(after, p) /\ p \in Paths /\ Gone # b BY <1>1, <1>2, <1>3, <1>7, <2>1
  <2>3. took(b, Gone) = {"delete"} BY <2>2
  <2> HIDE DEF took
  <2>4. QED BY <1>4, <2>1, <2>2, <2>3
<1>8. ASSUME NEW p \in DOMAIN x \cap DOMAIN y, x[p] = {} \/ y[p] = {} \/ x[p] # y[p]
      PROVE  "modify" \in Effects(before, after)
  <2>1. PICK b \in Possible(before, p), a \in Possible(after, p) : a # b
    <3>1. CASE x[p] = {}
      <4>1. PICK a \in Possible(after, p) : TRUE BY <1>2, <1>3, <1>8
      <4>2. \E b \in Contents : b # a BY <1>3
      <4>3. QED BY <1>1, <1>8, <3>1, <4>1, <4>2
    <3>2. CASE y[p] = {}
      <4>1. PICK b \in Possible(before, p) : TRUE BY <1>1, <1>3, <1>8
      <4>2. \E a \in Contents : a # b BY <1>3
      <4>3. QED BY <1>2, <1>8, <3>2, <4>1, <4>2
    <3>3. CASE x[p] # {} /\ y[p] # {} /\ x[p] # y[p]
      <4>1. PICK b : x[p] = {b} /\ Possible(before, p) = {b} BY <1>1, <1>8, <3>3
      <4>2. PICK a : y[p] = {a} /\ Possible(after, p) = {a} BY <1>2, <1>8, <3>3
      <4>3. QED BY <3>3, <4>1, <4>2
    <3>4. QED BY <1>8, <3>1, <3>2, <3>3
  <2>2. p \in Paths /\ a \in Contents /\ b \in Contents BY <1>1, <1>2, <1>8, <2>1
  <2>3. took(b, a) = {"modify"} BY <1>3, <2>1, <2>2
  <2> HIDE DEF took
  <2>4. QED BY <1>4, <2>1, <2>2, <2>3
<1>9. \A o \in OrdinaryOperationSet(x, y) : o \in Effects(before, after) BY <1>5, <1>6, <1>7, <1>8
<1>10. QED BY <1>9 DEF x, y

LEMMA ApplyIsPlaced == ASSUME plan \in Plans PROVE Placed(Apply(plan.view, plan.transitions))
<1> DEFINE end == Apply(plan.view, plan.transitions)
           n == Len(plan.transitions)
<1>1. \A d \in Targets : \A p : TargetValue(end, d, p) # {} => p \in Paths BY ApplyPlaces
<1>2. Kept(plan.transitions, n, plan.view, end) BY ApplyPlan
<1>3. \A i \in 1 .. n : plan.transitions[i].dimension \in Targets BY PlanFacts DEF Range, Proper
<1>4. "submodules" \in DOMAIN plan.view BY PlanFacts DEF Dimensions, Inventories
<1> HIDE DEF end
<1>5. end.submodules = plan.view.submodules BY <1>2, <1>3, <1>4 DEF Kept, Targets, Inventories
<1>6. "index" \in Targets /\ "tracked" \in Targets /\ "untracked" \in Targets /\ "ignored" \in Targets
  BY DEF Targets, Inventories
<1>7. end.untracked \subseteq Paths /\ end.ignored \subseteq Paths BY <1>1, <1>6, MemberOf DEF PathSets
<1>8. DOMAIN end.index \subseteq Paths /\ DOMAIN end.tracked \subseteq Paths BY <1>1, <1>6, ValueOf
<1>9. DOMAIN end.submodules \subseteq Paths BY <1>5, ViewIsShaped DEF Placed
<1>10. QED BY <1>7, <1>8, <1>9 DEF Placed, end

\* A plan that is right: what its conditions are, and that neither state it is
\* about violates a rule.
LEMMA RightFacts ==
  ASSUME plan \in Plans, Right
  PROVE  LET end == Apply(plan.view, plan.transitions)
         IN /\ plan.baseline = Project(plan.view)
            /\ \A d \in DOMAIN plan.posts : plan.posts[d] = Project(end)[d]
            /\ \A d \in Dimensions : d \notin Changed => Project(end)[d] = Project(plan.view)[d]
            /\ \A supplied : supplied = {} \/ supplied = {plan.view} =>
                 Violated(Consistency(Project(plan.view), supplied)) = {}
            /\ Violated(Consistency(Project(end), {end})) = {} /\ Unknown(end) = {}
            /\ Operations(end) \subseteq plan.authorized.capabilities
<1> DEFINE view == plan.view
           ts == plan.transitions
           end == Apply(view, ts)
<1>1. /\ \A i \in 2 .. Len(ts) : Precedes(ts[i - 1], ts[i])
      /\ WellFormed(view) /\ WellFormed(Composed(view))
      /\ view.head.state = "unborn" => view.headEntries = << >>
      /\ \A d \in Dimensions : Tells(plan.baseline[d], d, view)
      /\ \A d \in DOMAIN plan.posts : Tells(plan.posts[d], d, Composed(view))
      /\ plan.allowWrite => Effects(view, Composed(view)) \subseteq plan.authorized.capabilities
  BY DEF Right
<1>2. Distinct(ts) BY <1>1, OrderedIsDistinct
<1>3. end = Composed(view) BY <1>2, ApplyIsComposed
<1>4. Shaped(view) /\ Placed(view) /\ Filed(view) BY ViewIsShaped, ViewIsFiled
<1>5. Shaped(end) /\ Placed(end) /\ Filed(end) BY ApplyShapes, ApplyIsPlaced, ApplyIsFiled
<1>6. Kept(ts, Len(ts), view, end) BY ApplyPlan
<1>7. \A i \in 1 .. Len(ts) : ts[i] \in Range(ts) /\ ts[i].dimension \in Targets
  BY PlanFacts DEF Range, Proper
<1>8. DOMAIN view = Dimensions \cup {"headEntries", "identities", "leafKinds"} BY PlanFacts
<1>9. \A d \in Inventories : Formed(plan.baseline[d], d) BY PlansAssumption DEF Formed
<1>10. /\ DOMAIN plan.posts \subseteq Dimensions
       /\ \A d \in DOMAIN plan.posts : Formed(plan.posts[d], d)
  BY PlansAssumption DEF Formed
<1>11. plan.baseline = [d \in Dimensions |-> plan.baseline[d]] BY PlansAssumption
<1> HIDE DEF end, view, ts
<1>12. \A f \in Dimensions \cup {"headEntries"} : f \notin Changed => end[f] = view[f]
  <2>1. SUFFICES ASSUME NEW f \in Dimensions \cup {"headEntries"}, f \notin Changed PROVE end[f] = view[f]
    OBVIOUS
  <2>2. f \in DOMAIN view /\ f # "identities" BY <1>8 DEF Dimensions, Inventories
  <2>3. f \notin {ts[j].dimension : j \in 1 .. Len(ts)} BY <1>7, <2>1 DEF Changed, ts
  <2>4. QED BY <1>6, <2>2, <2>3 DEF Kept
<1>13. "head" \notin Changed /\ "headEntries" \notin Changed
  <2>1. \A t \in Range(plan.transitions) : t.dimension \in Targets BY PlanFacts DEF Proper
  <2>2. QED BY <2>1 DEF Changed, Targets, Inventories
<1>14. end.head.state = "unborn" => end.headEntries = << >>
  <2>1. "head" \in Dimensions BY DEF Dimensions
  <2>2. end.head = view.head /\ end.headEntries = view.headEntries BY <1>12, <1>13, <2>1
  <2>3. QED BY <1>1, <2>2
<1>15. plan.baseline = Project(view)
  <2>1. \A d \in Dimensions : plan.baseline[d] = Project(view)[d]
    BY <1>1, <1>4, <1>9, TellsProjected DEF Dimensions, Formed
  <2> DEFINE P == Project(view)
             B == plan.baseline
  <2>2. P = [d \in Dimensions |-> P[d]] BY DEF Project
  <2> HIDE DEF P, B
  <2>3. B = [d \in Dimensions |-> B[d]] BY <1>11 DEF B
  <2>4. \A d \in Dimensions : B[d] = P[d] BY <2>1 DEF B, P
  <2>5. B = P BY <2>2, <2>3, <2>4
  <2>6. QED BY <2>5 DEF B, P
<1>16. \A d \in DOMAIN plan.posts : plan.posts[d] = Project(end)[d]
  BY <1>1, <1>3, <1>5, <1>10, TellsProjected
<1>17. ASSUME NEW d \in Dimensions, d \notin Changed PROVE Project(end)[d] = Project(view)[d]
  <2>1. end[d] = view[d] /\ end.headEntries = view.headEntries BY <1>12, <1>13, <1>17
  <2>2. CASE d = "head" BY <2>1, <2>2 DEF Project, Dimensions
  <2>3. CASE d = "index" BY <2>1, <2>3 DEF Project, Dimensions, Inventories
  <2>4. CASE d = "tracked" BY <2>1, <2>4 DEF Project, Dimensions, Inventories
  <2>5. CASE d = "submodules" BY <2>1, <2>5 DEF Project, Dimensions, Inventories
  <2>6. CASE d \in PathSets BY <2>1, <2>6 DEF Project, Dimensions, Inventories, PathSets
  <2>7. QED BY <2>2, <2>3, <2>4, <2>5, <2>6 DEF Dimensions, Inventories, PathSets
<1>18. \A supplied : supplied = {} \/ supplied = {view} =>
         Violated(Consistency(Project(view), supplied)) = {}
  BY <1>1, <1>4, NothingViolated
<1>19. Violated(Consistency(Project(end), {end})) = {}
  <2>1. {end} = {end} OBVIOUS
  <2>2. QED BY <1>1, <1>3, <1>5, <1>14, <2>1, NothingViolated
<1>20. Unknown(end) = {} BY <1>1, <1>3 DEF Unknown, WellFormed
<1>21. Operations(end) \subseteq plan.authorized.capabilities
  <2>1. CASE ~plan.allowWrite BY <2>1 DEF Operations
  <2>2. CASE plan.allowWrite
    <3>1. Operations(end) = OrdinaryOperationSet(OrdinaryProjection(view), OrdinaryProjection(end))
      BY <2>2 DEF Operations, view
    <3>2. Operations(end) \subseteq Effects(view, end)
      BY <1>1, <1>3, <1>4, <1>5, <1>14, <3>1, OperationsAreEffects
    <3>3. QED BY <1>1, <1>3, <2>2, <3>2
  <2>3. QED BY <2>1, <2>2
<1>22. QED BY <1>15, <1>16, <1>17, <1>18, <1>19, <1>20, <1>21 DEF end, view, ts

LEMMA LeaveKeeps == ASSUME NEW c, Well(c) PROVE LeaveUnevaluated(c).failed = c.failed
<1>1. PICK U : c \in ContextType(U, {}) BY DEF Well
<1>2. QED BY <1>1 DEF LeaveUnevaluated, ContextType

LEMMA NoneViolated ==
  ASSUME NEW R, \A x \in R : x[2] PROVE Violated(R) = {}
BY DEF Violated

\* The third invariant: nothing has been found of a plan that is right.
Clear == Right => ~ctx.failed

LEMMA ClearStays ==
  ASSUME plan' = plan, Right => ~ctx'.failed PROVE Clear'
<1>1. Right' <=> Right
  <2>1. Composed(plan.view)' = Composed(plan.view) BY DEF Composed, Intended
  <2>2. Changed' = Changed /\ Staging' = Staging BY DEF Changed, Staging
  <2>3. QED BY <2>1, <2>2 DEF Right
<1>2. QED BY <1>1 DEF Clear

LEMMA MaterializeClear == Inv /\ Clear /\ ConsumeMaterializedBaseline => Clear'
<1>1. SUFFICES ASSUME Inv, Clear, ConsumeMaterializedBaseline, Right PROVE ~ctx'.failed
  BY ClearStays DEF ConsumeMaterializedBaseline
<1>2. Well(ctx) /\ ~ctx.failed BY <1>1 DEF Inv, Clear
<1>3. ctx' = ctx \/ \E direct \in BOOLEAN : ctx' = LeaveUnevaluated(Unavailable(ctx, "PROOF.BASELINE", direct))
  BY <1>1 DEF ConsumeMaterializedBaseline
<1>4. ASSUME NEW direct \in BOOLEAN, ctx' = LeaveUnevaluated(Unavailable(ctx, "PROOF.BASELINE", direct))
      PROVE  ~ctx'.failed
  <2> DEFINE k == Unavailable(ctx, "PROOF.BASELINE", direct)
  <2>1. Well(k) /\ k.failed = ctx.failed BY <1>2, UnavailableFacts DEF Onward
  <2> HIDE DEF k
  <2>2. QED BY <1>2, <1>4, <2>1, LeaveKeeps DEF k
<1>5. QED BY <1>2, <1>3, <1>4

LEMMA BaselineClear == Inv /\ Clear /\ CheckBaseline => Clear'
<1>1. SUFFICES ASSUME Inv, Clear, CheckBaseline, Right PROVE ~ctx'.failed
  BY ClearStays DEF CheckBaseline
<1>2. Well(ctx) /\ ~ctx.failed /\ plan \in Plans BY <1>1 DEF Inv, Clear
<1>3. materialized = {} \/ materialized = {plan.view} BY <1>1 DEF Inv
<1>4. Violated(Consistency(plan.baseline, materialized)) = {} BY <1>1, <1>2, <1>3, RightFacts
<1> DEFINE d == Report(ctx, Violated(Consistency(plan.baseline, materialized)))
<1>5. Well(d) /\ ~d.failed BY <1>2, <1>4, ReportNothing
<1>6. ctx' = d \/ ctx' = Unavailable(d, "PROOF.DIRECTORY_CLASS", TRUE)
  BY <1>1 DEF CheckBaseline, CheckBaselineConsistency
<1> HIDE DEF d
<1>7. Unavailable(d, "PROOF.DIRECTORY_CLASS", TRUE).failed = d.failed BY <1>5, UnavailableFacts
<1>8. QED BY <1>5, <1>6, <1>7

LEMMA PlanClear == Inv /\ Clear /\ CheckPlan => Clear'
<1>1. SUFFICES ASSUME Inv, Clear, CheckPlan, Right PROVE ~ctx'.failed
  BY ClearStays DEF CheckPlan
<1>2. Well(ctx) /\ ~ctx.failed /\ plan \in Plans BY <1>1 DEF Inv, Clear
<1> DEFINE ts == plan.transitions
           r1 == \A field \in {"paths", "capabilities"} : plan.authorized[field] \cap plan.prohibited[field] = {}
           r2 == /\ \A i \in 2 .. Len(ts) : Precedes(ts[i - 1], ts[i])
                 /\ \A i \in DOMAIN ts : ts[i].from # ts[i].to
           r3 == plan.scopeContained
           R == {<<"CONTRACT.SCOPE_DISJOINT", r1>>, <<"CONTRACT.TARGETS", r2>>, <<"CONTRACT.POST_UNIQUE", r3>>}
<1>3. ctx' = Report(ctx, Violated(R)) BY <1>1 DEF CheckPlan
<1>4. r1 BY <1>1 DEF Right
<1>5. r2
  <2>1. \A i \in 2 .. Len(ts) : Precedes(ts[i - 1], ts[i]) BY <1>1 DEF Right
  <2>2. \A t \in Range(ts) : t.to # t.from BY <1>1 DEF Right
  <2>3. \A i \in DOMAIN ts : ts[i] \in Range(ts) BY DEF Range
  <2>4. QED BY <2>1, <2>2, <2>3
<1>6. r3 BY <1>1 DEF Right
<1> HIDE DEF r1, r2, r3
<1>7. ASSUME NEW x \in R PROVE x[2]
  <2>1. CASE x = <<"CONTRACT.SCOPE_DISJOINT", r1>> BY <1>4, <2>1, OneRule
  <2>2. CASE x = <<"CONTRACT.TARGETS", r2>> BY <1>5, <2>2, OneRule
  <2>3. CASE x = <<"CONTRACT.POST_UNIQUE", r3>> BY <1>6, <2>3, OneRule
  <2>4. QED BY <2>1, <2>2, <2>3
<1> HIDE DEF R
<1>8. Violated(R) = {} BY <1>7, NoneViolated
<1>9. QED BY <1>2, <1>3, <1>8, ReportNothing

LEMMA TransitionClear == Inv /\ Judgements /\ Clear /\ CheckTransition => Clear'
<1>1. SUFFICES ASSUME Inv, Judgements, Clear, CheckTransition, Right PROVE ~ctx'.failed
  BY ClearStays DEF CheckTransition
<1>2. Well(ctx) /\ ~ctx.failed /\ plan \in Plans /\ materialized \subseteq {plan.view}
  BY <1>1 DEF Inv, Clear
<1> DEFINE t == plan.transitions[at]
           r1 == t.path \in plan.authorized.paths
           r2 == t.path \notin plan.prohibited.paths
           R == {<<"TA01", r1>>, <<"TA02", r2>>}
<1>3. t \in Range(plan.transitions)
  <2>1. at \in 1 .. Len(plan.transitions) BY <1>1, <1>2, PlanFacts DEF CheckTransition, Judgements
  <2>2. QED BY <1>2, <2>1, PlanFacts DEF Range
<1>4. /\ t.from = TargetValue(plan.view, t.dimension, t.path) /\ t.jcs
      /\ r1 /\ r2
  BY <1>1, <1>3 DEF Right
<1>5. PICK open \in SUBSET (IF "paths" \in Unreliable THEN {"TA01", "TA02"} ELSE {}) :
          LET checked == Report(ctx, Violated(R) \ open)
              scoped == IF open = {} THEN checked ELSE Unavailable(checked, "D10.path-proof-unavailable", TRUE)
          IN \/ materialized = {} /\ ctx' = scoped /\ fromValid' = FALSE
             \/ \E view \in materialized :
                  IF TargetValue(view, t.dimension, t.path) # t.from
                  THEN ctx' = Report(scoped, {"CONTRACT.APPLY"}) /\ fromValid' = FALSE
                  ELSE \/ /\ ctx' = Report(scoped, IF t.jcs THEN {} ELSE {"PROOF.TRANSITION_JCS"})
                          /\ fromValid' = (t.jcs /\ fromValid)
                       \/ /\ "comparison" \in Unreliable
                          /\ ctx' = LeaveUnevaluated(Unavailable(scoped, "PROOF.TRANSITION_JCS", FALSE))
                          /\ fromValid' = FALSE
    BY <1>1 DEF CheckTransition
<1> HIDE DEF r1, r2
<1>6. Violated(R) = {}
  <2>1. ASSUME NEW x \in R PROVE x[2]
    <3>1. CASE x = <<"TA01", r1>> BY <1>4, <3>1, OneRule
    <3>2. CASE x = <<"TA02", r2>> BY <1>4, <3>2, OneRule
    <3>3. QED BY <3>1, <3>2
  <2> HIDE DEF R
  <2>2. QED BY <2>1, NoneViolated
<1> DEFINE checked == Report(ctx, Violated(R) \ open)
           scoped  == IF open = {} THEN checked ELSE Unavailable(checked, "D10.path-proof-unavailable", TRUE)
           k       == Unavailable(scoped, "PROOF.TRANSITION_JCS", FALSE)
<1>7. \/ ctx' = scoped
      \/ ctx' = Report(scoped, {})
      \/ ctx' = LeaveUnevaluated(k)
  <2> HIDE DEF t, R
  <2>1. \A view \in materialized : TargetValue(view, t.dimension, t.path) = t.from BY <1>2, <1>4
  <2>2. QED BY <1>4, <1>5, <2>1
<1>8. Well(checked) /\ ~checked.failed
  <2>1. checked = Report(ctx, {}) BY <1>6
  <2> HIDE DEF checked
  <2>2. QED BY <1>2, <2>1, ReportNothing
<1> HIDE DEF checked
<1>9. Well(scoped) /\ ~scoped.failed
  <2>1. CASE open = {} BY <1>8, <2>1
  <2>2. CASE open # {}
    <3>1. scoped = Unavailable(checked, "D10.path-proof-unavailable", TRUE) BY <2>2
    <3> HIDE DEF scoped
    <3>2. QED BY <1>8, <3>1, UnavailableFacts DEF Onward
  <2>3. QED BY <2>1, <2>2
<1> HIDE DEF scoped
<1>10. Well(k) /\ ~k.failed BY <1>9, UnavailableFacts DEF Onward
<1> HIDE DEF k
<1>11. QED BY <1>7, <1>9, <1>10, ReportNothing, LeaveKeeps

LEMMA UncomposedClear == Inv /\ Clear /\ LeaveUncomposed => Clear'
<1>1. SUFFICES ASSUME Inv, Clear, LeaveUncomposed, Right PROVE ~ctx'.failed
  BY ClearStays DEF LeaveUncomposed
<1>2. Well(ctx) /\ ~ctx.failed /\ plan \in Plans BY <1>1 DEF Inv, Clear
<1> DEFINE conditions == {}
           covered == Changed \subseteq DOMAIN plan.posts
           kept == \A d \in DOMAIN plan.posts :
                     IF conditions # {} THEN \A c \in conditions : plan.posts[d] = c[d]
                     ELSE d \notin Changed => plan.posts[d] = plan.baseline[d]
           R == PostconditionRules(conditions)
<1>3. ctx' = Report(ctx, Violated(R)) BY <1>1 DEF LeaveUncomposed
<1>4. R = {<<"CONTRACT.POST_FINAL", covered>>, <<"CONTRACT.POST_FINAL", kept>>} BY DEF PostconditionRules
<1>5. covered BY <1>1 DEF Right
<1>6. kept
  <2>1. DOMAIN plan.posts \subseteq Dimensions BY <1>2, PlansAssumption
  <2>2. \A d \in DOMAIN plan.posts : d \notin Changed => plan.posts[d] = plan.baseline[d]
    BY <1>1, <1>2, <2>1, RightFacts
  <2>3. QED BY <2>2
<1> HIDE DEF covered, kept, R
<1>7. ASSUME NEW x \in R PROVE x[2]
  <2>1. CASE x = <<"CONTRACT.POST_FINAL", covered>> BY <1>5, <2>1, OneRule
  <2>2. CASE x = <<"CONTRACT.POST_FINAL", kept>> BY <1>6, <2>2, OneRule
  <2>3. QED BY <1>4, <2>1, <2>2
<1>8. Violated(R) = {} BY <1>7, NoneViolated
<1>9. QED BY <1>2, <1>3, <1>8, ReportNothing

LEMMA ComposeClear ==
  ASSUME "validator" \notin Unreliable PROVE Inv /\ Clear /\ ComposeFinal => Clear'
<1>1. SUFFICES ASSUME Inv, Clear, ComposeFinal, Right PROVE ~ctx'.failed
  BY ClearStays DEF ComposeFinal
<1>2. Well(ctx) /\ ~ctx.failed /\ plan \in Plans /\ materialized \subseteq {plan.view}
  BY <1>1 DEF Inv, Clear
<1> DEFINE end == Apply(plan.view, plan.transitions)
           operations == Operations(end)
           R == CapabilityRules(operations) \cup PostconditionRules({Project(end)})
           examined(c) == CheckBaselineConsistency(c, Project(end), {end})
<1>3. \/ ctx' = Report(ctx, Violated(R))
      \/ examined(NewContext).diagnostics # {}
  <2>1. PICK view \in materialized :
          LET composed == Apply(view, plan.transitions)
              looked(c) == CheckBaselineConsistency(c, Project(composed), {composed})
              ops == IF plan.allowWrite
                     THEN OrdinaryOperationSet(OrdinaryProjection(view), OrdinaryProjection(composed)) ELSE {}
          IN \/ /\ looked(NewContext).diagnostics = {}
                /\ ctx' = Report(ctx, Violated(CapabilityRules(ops) \cup PostconditionRules({Project(composed)})))
             \/ looked(NewContext).diagnostics # {}
             \/ "validator" \in Unreliable
    BY <1>1 DEF ComposeFinal
  <2>2. view = plan.view BY <1>2, <2>1
  <2>3. QED BY <2>1, <2>2 DEF Operations
<1>4. Holds(Project(end), end) BY <1>1, <1>2, RightFacts DEF Holds
<1>5. examined(NewContext).diagnostics = {} BY <1>4, NewFacts, ExaminedHolds
<1>6. ctx' = Report(ctx, Violated(R)) BY <1>3, <1>5
<1> DEFINE staging == "index" \in Changed
           required == operations \cup {"git-stage" : x \in {x \in {0} : staging}}
           r1 == staging => "git-stage" \in plan.authorized.capabilities
           r2 == /\ required \subseteq plan.authorized.capabilities
                 /\ required \cap plan.prohibited.capabilities = {}
           conditions == {Project(end)}
           r3 == Changed \subseteq DOMAIN plan.posts
           r4 == \A d \in DOMAIN plan.posts :
                   IF conditions # {} THEN \A c \in conditions : plan.posts[d] = c[d]
                   ELSE d \notin Changed => plan.posts[d] = plan.baseline[d]
<1>7. /\ CapabilityRules(operations) = {<<"TA03", r1>>, <<"CONTRACT.REQUIRED_CAPS", r2>>}
      /\ PostconditionRules(conditions) = {<<"CONTRACT.POST_FINAL", r3>>, <<"CONTRACT.POST_FINAL", r4>>}
  BY DEF CapabilityRules, PostconditionRules
<1>8. operations \subseteq plan.authorized.capabilities BY <1>1, <1>2, RightFacts
<1>9. /\ Staging \subseteq plan.authorized.capabilities
      /\ plan.authorized.capabilities \cap plan.prohibited.capabilities = {}
      /\ r3
  BY <1>1 DEF Right
<1>10. staging => "git-stage" \in Staging BY DEF Changed, Staging
<1>11. \A d \in DOMAIN plan.posts : plan.posts[d] = Project(end)[d] BY <1>1, <1>2, RightFacts
<1> HIDE DEF operations, staging, end
<1>12. r1 /\ r2 BY <1>8, <1>9, <1>10
<1>13. r4 BY <1>11
<1>14. R = CapabilityRules(operations) \cup PostconditionRules(conditions) OBVIOUS
<1> HIDE DEF r1, r2, r3, r4, R, conditions
<1>15. ASSUME NEW x \in R PROVE x[2]
  <2>1. CASE x = <<"TA03", r1>> BY <1>12, <2>1, OneRule
  <2>2. CASE x = <<"CONTRACT.REQUIRED_CAPS", r2>> BY <1>12, <2>2, OneRule
  <2>3. CASE x = <<"CONTRACT.POST_FINAL", r3>> BY <1>9, <2>3, OneRule
  <2>4. CASE x = <<"CONTRACT.POST_FINAL", r4>> BY <1>13, <2>4, OneRule
  <2>5. QED BY <1>7, <1>14, <2>1, <2>2, <2>3, <2>4
<1>16. Violated(R) = {} BY <1>15, NoneViolated
<1>17. QED BY <1>2, <1>6, <1>16, ReportNothing

LEMMA NextClear ==
  ASSUME "validator" \notin Unreliable PROVE Inv /\ Judgements /\ Clear /\ [Next]_vars => Clear'
<1>1. ASSUME Inv, Judgements, Clear, UNCHANGED vars PROVE Clear'
  <2>1. plan' = plan /\ ctx' = ctx BY <1>1 DEF vars
  <2>2. QED BY <1>1, <2>1, ClearStays DEF Clear
<1>2. ASSUME Inv, Judgements, Clear, Next PROVE Clear'
  BY <1>2, MaterializeClear, BaselineClear, PlanClear, TransitionClear, UncomposedClear, ComposeClear
     DEF Next
<1>3. QED BY <1>1, <1>2

\* A plan that is right is never refuted, for any number of paths and
\* transitions, whoever stays silent but the structural validator: the loop, the
\* nine conditions, the derived operations and the postconditions ask for no
\* more than the documentation does (_check_contract_plan).
THEOREM RightIsNotRefuted ==
  ASSUME "validator" \notin Unreliable PROVE Spec => []RightPlanIsNotRefuted
<1>1. Init => Clear BY DEF Init, Clear, NewContext
<1>2. Inv /\ Judgements /\ Clear /\ [Next]_vars => Clear' BY NextClear
<1>3. Clear => RightPlanIsNotRefuted BY DEF Clear, RightPlanIsNotRefuted, Verdict
<1>4. QED BY <1>1, <1>2, <1>3, Inductive, JudgementsHold, PTL DEF Spec
=============================================================================
