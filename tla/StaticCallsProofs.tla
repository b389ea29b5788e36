------------------------- MODULE StaticCallsProofs -------------------------
(***************************************************************************)
(* Proofs about StaticCalls: its type invariant, and that no call accepts  *)
(* an operand some stage of which was skipped, refuted or left open, or    *)
(* that changed under the handles the call holds - for every number of     *)
(* members, of comparisons and of changes.                                 *)
(***************************************************************************)
EXTENDS StaticCallsProps, Integers, TLAPS

StageName ==
  {"shape", "input", "arrays", "relations", "individual", "snapshot", "members",
   "roots", "union", "membership", "bindings", "baseline", "consistency",
   "plan", "chronology"}

Context == ContextType(Requirement, Handle)

-----------------------------------------------------------------------------
\* The plans are sequences, so every plan has an end to run to.
LEMMA Singleton == ASSUME NEW S, NEW a \in S PROVE << a >> \in Seq(S)
OBVIOUS

\* Three members of a set are a sequence over it.
LEMMA Triple ==
  ASSUME NEW S, NEW a \in S, NEW b \in S, NEW c \in S PROVE << a, b, c >> \in Seq(S)
OBVIOUS

\* Two sequences over a set, joined, are one.
LEMMA Joined ==
  ASSUME NEW S, NEW s \in Seq(S), NEW t \in Seq(S) PROVE s \o t \in Seq(S)
OBVIOUS

\* The stages that prepare an operand.
LEMMA PrepareType ==
  ASSUME NEW s \in Subject PROVE Prepare(s) \in Seq(Subject \X StageName)
<1>1. /\ <<s, "shape">> \in Subject \X StageName
      /\ <<s, "input">> \in Subject \X StageName
      /\ <<s, "arrays">> \in Subject \X StageName
  BY DEF StageName
<1>2. QED BY <1>1, Triple DEF Prepare

\* The inventory's plan lists stages with their operands.
LEMMA InventoryPlanType == InventoryPlan \in Seq(Subject \X StageName)
<1> DEFINE T == Subject \X StageName
<1>1. /\ <<"inventory", "snapshot">> \in T /\ <<"inventory", "members">> \in T
      /\ <<"inventory", "roots">> \in T /\ <<"inventory", "union">> \in T
  BY DEF Subject, StageName
<1> HIDE DEF T
<1>2. InventoryPlan \in Seq(T)
  BY <1>1 DEF InventoryPlan
<1>3. QED BY <1>2 DEF T

\* So does the bundle's.
LEMMA BundlePlanType == BundlePlan \in Seq(Subject \X StageName)
<1>1. "bundle" \in Subject BY DEF Subject
<1>2. Prepare("bundle") \in Seq(Subject \X StageName) BY <1>1, PrepareType
<1>3. <<"bundle", "relations">> \in Subject \X StageName BY DEF Subject, StageName
<1>4. << <<"bundle", "relations">> >> \in Seq(Subject \X StageName) BY <1>3, Singleton
<1>5. QED BY <1>2, <1>4, Joined DEF BundlePlan

\* So does the overlay's.
LEMMA OverlayPlanType == OverlayPlan \in Seq(Subject \X StageName)
<1>1. "overlay" \in Subject BY DEF Subject
<1>2. Prepare("overlay") \in Seq(Subject \X StageName) BY <1>1, PrepareType
<1>3. <<"overlay", "individual">> \in Subject \X StageName BY DEF Subject, StageName
<1>4. << <<"overlay", "individual">> >> \in Seq(Subject \X StageName) BY <1>3, Singleton
<1>5. QED BY <1>2, <1>4, BundlePlanType, Joined DEF OverlayPlan

\* So does the contract's.
LEMMA ContractPlanType == ContractPlan \in Seq(Subject \X StageName)
<1> DEFINE T == Subject \X StageName
           tail == << <<"overlay", "membership">>, <<"contract", "bindings">>,
                      <<"contract", "baseline">>, <<"contract", "consistency">>,
                      <<"contract", "plan">>, <<"contract", "chronology">> >>
<1>1. "contract" \in Subject /\ "overlay" \in Subject BY DEF Subject
<1>2. Prepare("contract") \in Seq(T) /\ Prepare("overlay") \in Seq(T)
  BY <1>1, PrepareType
<1>3. <<"overlay", "individual">> \in T BY DEF Subject, StageName
<1>4. << <<"overlay", "individual">> >> \in Seq(T) BY <1>3, Singleton
<1>5. /\ <<"overlay", "membership">> \in T /\ <<"contract", "bindings">> \in T
      /\ <<"contract", "baseline">> \in T /\ <<"contract", "consistency">> \in T
      /\ <<"contract", "plan">> \in T /\ <<"contract", "chronology">> \in T
  BY DEF Subject, StageName
<1> HIDE DEF T
<1>6. tail \in Seq(T) BY <1>5
<1> HIDE DEF tail
<1>7. BundlePlan \in Seq(T) /\ InventoryPlan \in Seq(T)
  BY BundlePlanType, InventoryPlanType DEF T
<1>8. ContractPlan \in Seq(T)
  <2>1. Prepare("contract") \o BundlePlan \in Seq(T) BY <1>2, <1>7, Joined
  <2>2. Prepare("contract") \o BundlePlan \o Prepare("overlay") \in Seq(T)
    BY <2>1, <1>2, Joined
  <2>3. Prepare("contract") \o BundlePlan \o Prepare("overlay")
          \o << <<"overlay", "individual">> >> \in Seq(T)
    BY <2>2, <1>4, Joined
  <2>4. Prepare("contract") \o BundlePlan \o Prepare("overlay")
          \o << <<"overlay", "individual">> >> \o InventoryPlan \in Seq(T)
    BY <2>3, <1>7, Joined
  <2>5. QED BY <2>4, <1>6, Joined DEF ContractPlan, tail
<1>9. QED BY <1>8 DEF T

\* Whatever is called, its plan is a list of stages.
LEMMA PlanType ==
  ASSUME NEW kind \in AllScopes PROVE Plan(kind) \in Seq(Subject \X StageName)
<1>1. CASE kind = "governance-bundle" BY <1>1, BundlePlanType DEF Plan
<1>2. CASE kind = "host-overlay-individual" BY <1>2, OverlayPlanType DEF Plan
<1>3. CASE kind = "same-host-inventory" BY <1>3, InventoryPlanType DEF Plan
<1>4. CASE kind = "task-contract" BY <1>4, ContractPlanType DEF Plan
<1>5. QED BY <1>1, <1>2, <1>3, <1>4 DEF AllScopes

\* The plan of either frame has an end.
LEMMA BoundaryType ==
  ASSUME TypeOK, NEW d \in {0, 1}
  PROVE  /\ Plan(Kind(d)) \in Seq(Subject \X StageName)
         /\ Boundary(d) \in Nat
<1>1. Kind(d) \in AllScopes BY CallsAssumption DEF TypeOK, Kind, AllScopes
<1>2. Plan(Kind(d)) \in Seq(Subject \X StageName) BY <1>1, PlanType
<1>3. QED BY <1>2 DEF Boundary

-----------------------------------------------------------------------------
\* What the operations on a context do to the taints of a result.

Clear(c) == ~c.failed /\ ~c.unevaluated

\* Whatever is reported is a failure or is kept as an obligation as well.
Accounted(c) == c.diagnostics # {} => c.failed \/ c.required # {}

\* k is c with possibly more taints and the same handles.
Worn(c, k) ==
  /\ k \in Context
  /\ c.failed => k.failed
  /\ c.unevaluated => k.unevaluated
  /\ c.required # {} => k.required # {}
  /\ k.proofs = c.proofs

\* The same, and nothing is reported without a taint.
Dented(c, k) == Worn(c, k) /\ (Accounted(c) => Accounted(k))

\* A new context holds nothing against acceptance, and no handle.
LEMMA NewFacts ==
  NewContext \in Context /\ Untainted(NewContext) /\ NewContext.proofs = << >>
BY DEF NewContext, Context, ContextType, Untainted

\* A check that fails leaves a failure behind.
LEMMA ReportFacts ==
  ASSUME NEW c \in Context
  PROVE  /\ Dented(c, Report(c, {"violation"}))
         /\ Report(c, {"violation"}).failed
BY DEF Report, Context, ContextType, Requirement, Dented, Worn, Accounted

\* An obligation is kept, and on demand the gap it makes.
LEMMA UnavailableFacts ==
  ASSUME NEW c \in Context, NEW direct \in BOOLEAN
  PROVE  /\ Dented(c, Unavailable(c, "obligation", direct))
         /\ Unavailable(c, "obligation", direct).required # {}
         /\ direct => Unavailable(c, "obligation", direct).unevaluated
BY DEF Unavailable, Context, ContextType, Requirement, Dented, Worn, Accounted

\* A predicate that is left out is remembered as a gap.
LEMMA LeaveFacts ==
  ASSUME NEW c \in Context
  PROVE  Dented(c, LeaveUnevaluated(c)) /\ LeaveUnevaluated(c).unevaluated
BY DEF LeaveUnevaluated, Context, ContextType, Dented, Worn, Accounted

\* Consuming a handle adds it and touches nothing else.
LEMMA ConsumeFacts ==
  ASSUME NEW c \in Context, NEW h \in Handle
  PROVE  /\ Consume(c, h) \in Context
         /\ Consume(c, h).failed = c.failed
         /\ Consume(c, h).unevaluated = c.unevaluated
         /\ Consume(c, h).required = c.required
         /\ Consume(c, h).diagnostics = c.diagnostics
         /\ Consume(c, h).proofs = Append(c.proofs, h)
<1>1. c.proofs \in Seq(Handle) BY DEF Context, ContextType
<1>2. Append(c.proofs, h) \in Seq(Handle) BY <1>1
<1> DEFINE q == Append(c.proofs, h)
<1> HIDE DEF q
<1>3. [c EXCEPT !.proofs = q] \in Context BY <1>2 DEF Context, ContextType, q
<1>4. /\ [c EXCEPT !.proofs = q].failed = c.failed
      /\ [c EXCEPT !.proofs = q].unevaluated = c.unevaluated
      /\ [c EXCEPT !.proofs = q].required = c.required
      /\ [c EXCEPT !.proofs = q].diagnostics = c.diagnostics
      /\ [c EXCEPT !.proofs = q].proofs = q
  BY DEF Context, ContextType
<1>5. Consume(c, h) = [c EXCEPT !.proofs = q] BY DEF Consume, q
<1>6. QED BY <1>3, <1>4, <1>5 DEF q

\* A nested result that is not PASS leaves the enclosing call unevaluated.
LEMMA MergeFacts ==
  ASSUME NEW c \in Context, NEW k \in Context
  PROVE  /\ Worn(c, Merge(c, k))
         /\ Accounted(c) /\ Accounted(k) => Accounted(Merge(c, k))
         /\ ~Untainted(k) => Merge(c, k).unevaluated
         /\ k.failed => Merge(c, k).failed
         /\ k.required # {} => Merge(c, k).required # {}
BY DEF Merge, Context, ContextType, Worn, Accounted, Untainted, Verdict

-----------------------------------------------------------------------------
\* Every stage comes down to one of three ways to go on.

\* The handle situation of a step that leaves context k behind.
Holds(k) ==
  \/ k.proofs = Current.proofs /\ UNCHANGED consumed
  \/ \E h \in Handle : /\ ~Broken(h)
                       /\ k.proofs = Append(Current.proofs, h)
                       /\ consumed' = consumed \cup {h}

Onward(k) ==
  \/ Proceed(k, TRUE)
  \/ Proceed(k, FALSE) /\ ~Untainted(k) /\ (Here("input") \/ ~Clear(k))
  \/ Stop(k) /\ ~Clear(k)
  \/ /\ ctx' = [ctx EXCEPT ![depth] = k]
     /\ Len(Current.proofs) < MaxHandles /\ \E h \in Handle : k.proofs = Append(Current.proofs, h)
     /\ UNCHANGED <<scope, at, depth, member, checked, result, operands, missed, stale>>

Grown(k) ==
  /\ k \in Context
  /\ Current.failed => k.failed
  /\ Current.unevaluated => k.unevaluated
  /\ Current.required # {} => k.required # {}
  /\ Accounted(Current) => Accounted(k)

\* A stage of the active frame that leaves context k behind.
Moves(k) ==
  /\ Grown(k) /\ Holds(k) /\ Onward(k)
  /\ members' \in 0 .. MaxMembers
  /\ result = Pending /\ at[depth] < Boundary(depth)

StageStep ==
  \/ ValidateShape \/ RequireInput \/ ConsumeComparison \/ CheckCanonicalArrays
  \/ CheckBundleRelations \/ CheckOverlayIndividual
  \/ ConsumeInventory \/ LeaveMembers
  \/ CheckRoots \/ CheckSameHostUnion \/ CheckMembership
  \/ CheckContractBindings \/ ConsumeMaterializedBaseline
  \/ CheckBaselineConsistency \/ CheckContractPlan \/ CheckContractChronology

\* The current context is one.
LEMMA CurrentType == ASSUME TypeOK PROVE Current \in Context
BY DEF TypeOK, Current, Context

\* A handle given now is to the operand as it is, so not broken.
LEMMA FreshFacts ==
  ASSUME TypeOK, at[depth] < Boundary(depth)
  PROVE  /\ Fresh(<<Active, Operand>>) \in Handle
         /\ ~Broken(Fresh(<<Active, Operand>>))
<1>1. depth \in {0, 1} /\ at[depth] \in Nat BY DEF TypeOK
<1> DEFINE p == Plan(Kind(depth))
<1>2. p \in Seq(Subject \X StageName) BY <1>1, BoundaryType
<1>3. at[depth] \in 1 .. Len(p)
  BY <1>1, <1>2 DEF Boundary, TypeOK
<1> HIDE DEF p
<1>4. p[at[depth]] \in Subject \X StageName BY <1>2, <1>3
<1>5. Operand \in Subject BY <1>4 DEF Operand, p
<1>6. Active \in Frame BY <1>1, CallsAssumption DEF Active, FrameOf, Frame, TypeOK
<1>7. <<Active, Operand>> \in Object BY <1>5, <1>6 DEF Object
<1>8. version[<<Active, Operand>>] \in {0, 1} BY <1>7 DEF TypeOK
<1>9. QED BY <1>7, <1>8 DEF Fresh, Handle, Broken

\* The three ways a stage without a handle can end.
LEMMA KeepMoves ==
  ASSUME TypeOK, Keep, result = Pending, at[depth] < Boundary(depth),
         NEW k, Dented(Current, k), Onward(k)
  PROVE  Moves(k)
BY DEF Keep, Dented, Worn, Moves, Grown, Holds, TypeOK

\* A stage that consumes a fresh handle.
LEMMA NoteMoves ==
  ASSUME TypeOK, result = Pending, at[depth] < Boundary(depth),
         NEW k, k \in Context,
         Dented(Consume(Current, Fresh(<<Active, Operand>>)), k),
         consumed' = consumed \cup {Fresh(<<Active, Operand>>)},
         members' \in 0 .. MaxMembers, Onward(k)
  PROVE  Moves(k)
<1> DEFINE h == Fresh(<<Active, Operand>>)
<1>1. h \in Handle /\ ~Broken(h) BY FreshFacts
<1>2. Current \in Context BY CurrentType
<1>3. k.proofs = Append(Current.proofs, h) BY <1>1, <1>2, ConsumeFacts DEF Dented, Worn
<1>4. Grown(k) BY <1>1, <1>2, ConsumeFacts DEF Dented, Worn, Grown, Accounted
<1>5. Holds(k) BY <1>1, <1>3 DEF Holds
<1>6. QED BY <1>4, <1>5 DEF Moves

\* Going on and stopping, as ways onward.
LEMMA CleanOnward == ASSUME NEW k, Proceed(k, TRUE) PROVE Onward(k)
BY DEF Onward

\* Going on over a gap is a way onward where the context shows it.
LEMMA GapOnward ==
  ASSUME NEW k, Proceed(k, FALSE), ~Clear(k) PROVE Onward(k)
BY DEF Onward, Clear, Untainted

\* So is stopping.
LEMMA StopOnward == ASSUME NEW k, Stop(k), ~Clear(k) PROVE Onward(k)
BY DEF Onward

\* So is stopping at an operand: one that is not the main one leaves a gap.
LEMMA StopAtOperandOnward ==
  ASSUME TypeOK, NEW k, Dented(Current, k), ~Clear(k), StopAtOperand(k),
         Keep, result = Pending, at[depth] < Boundary(depth)
  PROVE  \E c : Moves(c)
<1>1. CASE Operand = Main
  BY <1>1, StopOnward, KeepMoves DEF StopAtOperand
<1>2. CASE Operand # Main
  <2>1. /\ Dented(k, LeaveUnevaluated(k)) /\ LeaveUnevaluated(k).unevaluated
    BY LeaveFacts DEF Dented, Worn
  <2>2. Dented(Current, LeaveUnevaluated(k)) BY <2>1 DEF Dented, Worn
  <2>3. Stop(LeaveUnevaluated(k)) BY <1>2 DEF StopAtOperand
  <2>4. QED BY <2>1, <2>2, <2>3, StopOnward, KeepMoves DEF Clear
<1>3. QED BY <1>1, <1>2

\* The contexts the stages build from the current one.
LEMMA GapFacts ==
  ASSUME TypeOK
  PROVE  LET gap  == LeaveUnevaluated(Unanswered)
             open == Unavailable(Current, "obligation", TRUE)
         IN /\ Dented(Current, Current)
            /\ Dented(Current, Unanswered) /\ ~Untainted(Unanswered)
            /\ Dented(Current, gap) /\ ~Clear(gap)
            /\ Dented(Current, open) /\ ~Clear(open)
<1>1. Current \in Context BY CurrentType
<1>2. Dented(Current, Unanswered) /\ Unanswered.required # {}
  BY <1>1, UnavailableFacts DEF Unanswered
<1>3. /\ Dented(Unanswered, LeaveUnevaluated(Unanswered))
      /\ LeaveUnevaluated(Unanswered).unevaluated
  BY <1>2, LeaveFacts DEF Dented, Worn
<1>4. /\ Dented(Current, Unavailable(Current, "obligation", TRUE))
      /\ Unavailable(Current, "obligation", TRUE).unevaluated
  BY <1>1, UnavailableFacts
<1>5. QED BY <1>1, <1>2, <1>3, <1>4 DEF Dented, Worn, Clear, Untainted

\* A violation taints the context it is reported to.
LEMMA ViolationFacts ==
  ASSUME NEW c \in Context, NEW k, Dented(c, k)
  PROVE  /\ Dented(c, Report(k, {"violation"}))
         /\ ~Clear(Report(k, {"violation"}))
<1>1. /\ Dented(k, Report(k, {"violation"})) /\ Report(k, {"violation"}).failed
  BY ReportFacts DEF Dented, Worn
<1>2. QED BY <1>1 DEF Dented, Worn, Clear

\* An obligation left open after whatever else was found.
LEMMA OpenFacts ==
  ASSUME NEW c, NEW k, Dented(c, k)
  PROVE  /\ Dented(c, Unavailable(k, "obligation", TRUE))
         /\ ~Clear(Unavailable(k, "obligation", TRUE))
<1>1. k \in Context BY DEF Dented, Worn
<1>2. /\ Dented(k, Unavailable(k, "obligation", TRUE))
      /\ Unavailable(k, "obligation", TRUE).unevaluated
  BY <1>1, UnavailableFacts
<1>3. QED BY <1>2 DEF Dented, Worn, Clear

\* A rule group that goes on whatever it finds.
LEMMA RuleGroupMoves ==
  ASSUME TypeOK, result = Pending, at[depth] < Boundary(depth),
         NEW gap, Dented(Current, gap), ~Clear(gap), RuleGroup(gap)
  PROVE  \E k : Moves(k)
<1>1. Dented(Current, Current) /\ Current \in Context BY GapFacts, CurrentType
<1>2. Keep BY DEF RuleGroup
<1>3. CASE Proceed(Current, TRUE) BY <1>1, <1>2, <1>3, CleanOnward, KeepMoves
<1>4. CASE Proceed(gap, FALSE) BY <1>2, <1>4, GapOnward, KeepMoves
<1>5. ASSUME NEW c \in {Current, gap}, Proceed(Report(c, {"violation"}), FALSE)
      PROVE  \E k : Moves(k)
  <2>1. Dented(Current, c) BY <1>1
  <2>2. /\ Dented(Current, Report(c, {"violation"}))
        /\ ~Clear(Report(c, {"violation"}))
    BY <1>1, <2>1, ViolationFacts
  <2>3. QED BY <1>2, <1>5, <2>2, GapOnward, KeepMoves
<1>6. QED BY <1>3, <1>4, <1>5 DEF RuleGroup

\* A rule group whose violation ends the preparation of an operand.
LEMMA OperandGroupMoves ==
  ASSUME TypeOK, result = Pending, at[depth] < Boundary(depth), Keep,
         LET gap == LeaveUnevaluated(Unanswered)
         IN \/ Proceed(Current, TRUE)
            \/ Proceed(gap, FALSE)
            \/ \E c \in {Current, gap} : StopAtOperand(Report(c, {"violation"}))
  PROVE  \E k : Moves(k)
<1> DEFINE gap == LeaveUnevaluated(Unanswered)
<1>1. /\ Dented(Current, Current) /\ Current \in Context
      /\ Dented(Current, gap) /\ ~Clear(gap)
  BY GapFacts, CurrentType
<1> HIDE DEF gap
<1>2. CASE Proceed(Current, TRUE) BY <1>1, <1>2, CleanOnward, KeepMoves
<1>3. CASE Proceed(gap, FALSE) BY <1>1, <1>3, GapOnward, KeepMoves
<1>4. ASSUME NEW c \in {Current, gap}, StopAtOperand(Report(c, {"violation"}))
      PROVE  \E k : Moves(k)
  <2>1. Dented(Current, c) BY <1>1
  <2>2. /\ Dented(Current, Report(c, {"violation"}))
        /\ ~Clear(Report(c, {"violation"}))
    BY <1>1, <2>1, ViolationFacts
  <2>3. QED BY <1>4, <2>2, StopAtOperandOnward
<1>5. QED BY <1>2, <1>3, <1>4 DEF gap

\* A stage that gets the handle it asks for and finds nothing.
LEMMA AnsweredMoves ==
  ASSUME TypeOK, result = Pending, at[depth] < Boundary(depth), Answered(TRUE)
  PROVE  \E k : Moves(k)
<1> DEFINE h == Fresh(<<Active, Operand>>)
           k == Consume(Current, h)
<1>1. h \in Handle /\ Current \in Context BY FreshFacts, CurrentType
<1>2. k \in Context BY <1>1, ConsumeFacts
<1>3. Dented(k, k) BY <1>2 DEF Dented, Worn
<1>4. Proceed(k, TRUE) /\ consumed' = consumed \cup {h} /\ members' = members
  BY DEF Answered, Note
<1>5. members' \in 0 .. MaxMembers BY <1>4 DEF TypeOK
<1>6. Onward(k) BY <1>4, CleanOnward
<1>7. Moves(k) BY <1>2, <1>3, <1>4, <1>5, <1>6, NoteMoves
<1>8. QED BY <1>7

\* Every stage moves the active frame on.
LEMMA StageMoves ==
  ASSUME TypeOK, StageStep PROVE \E k : Moves(k)
<1> DEFINE gap  == LeaveUnevaluated(Unanswered)
           open == Unavailable(Current, "obligation", TRUE)
           h    == Fresh(<<Active, Operand>>)
<1>1. result = Pending /\ at[depth] < Boundary(depth)
  BY DEF StageStep, ValidateShape, RequireInput, ConsumeComparison, CheckCanonicalArrays,
     CheckBundleRelations, CheckOverlayIndividual, ConsumeInventory, LeaveMembers,
     CheckRoots, CheckSameHostUnion, CheckMembership, CheckContractBindings,
     ConsumeMaterializedBaseline, CheckBaselineConsistency, CheckContractPlan,
     CheckContractChronology, Here
<1>2. /\ Current \in Context
      /\ Dented(Current, Current)
      /\ Dented(Current, Unanswered) /\ ~Untainted(Unanswered)
      /\ Dented(Current, gap) /\ ~Clear(gap)
      /\ Dented(Current, open) /\ ~Clear(open)
  BY GapFacts, CurrentType
<1>3. /\ Dented(Current, Report(Current, {"violation"}))
      /\ ~Clear(Report(Current, {"violation"}))
  BY <1>2, ViolationFacts
<1>4. h \in Handle /\ ~Broken(h) BY <1>1, FreshFacts
<1>5. /\ Consume(Current, h) \in Context
      /\ Dented(Consume(Current, h), Consume(Current, h))
      /\ LET k == Unavailable(Consume(Current, h), "obligation", TRUE)
         IN k \in Context /\ Dented(Consume(Current, h), k) /\ ~Clear(k)
  <2>1. Consume(Current, h) \in Context BY <1>2, <1>4, ConsumeFacts
  <2>2. QED BY <2>1, UnavailableFacts DEF Dented, Worn, Clear
<1> HIDE DEF gap, open
<1>6. CASE ValidateShape
  <2>1. Keep BY <1>6 DEF ValidateShape
  <2>2. CASE Proceed(Current, TRUE) BY <1>1, <1>2, <2>1, <2>2, CleanOnward, KeepMoves
  <2>3. CASE StopAtOperand(LeaveUnevaluated(Report(Current, {"violation"})))
    <3> DEFINE r == Report(Current, {"violation"})
    <3>1. Dented(r, LeaveUnevaluated(r)) /\ LeaveUnevaluated(r).unevaluated
      BY <1>3, LeaveFacts DEF Dented, Worn
    <3>2. Dented(Current, LeaveUnevaluated(r)) BY <1>3, <3>1 DEF Dented, Worn
    <3>3. QED BY <1>1, <2>1, <2>3, <3>1, <3>2, StopAtOperandOnward DEF Clear
  <2>4. CASE StopAtOperand(open) BY <1>1, <1>2, <2>1, <2>4, StopAtOperandOnward
  <2>5. QED BY <1>6, <2>2, <2>3, <2>4 DEF ValidateShape, open
<1>7. CASE RequireInput
  <2>1. CASE Answered(TRUE) BY <1>1, <2>1, AnsweredMoves
  <2>2. CASE Proceed(Unanswered, FALSE) /\ Keep
    <3>1. Here("input") BY <1>7 DEF RequireInput
    <3>2. Onward(Unanswered) BY <1>2, <2>2, <3>1 DEF Onward
    <3>3. QED BY <1>1, <1>2, <2>2, <3>2, KeepMoves
  <2>3. QED BY <1>7, <2>1, <2>2 DEF RequireInput
<1>8. CASE ConsumeComparison
  <2> DEFINE k == Consume(Current, h)
  <2>1. /\ ctx' = [ctx EXCEPT ![depth] = k]
        /\ UNCHANGED <<scope, at, depth, member, checked, result, operands, missed, stale>>
        /\ consumed' = consumed \cup {h}
        /\ members' = members
        /\ Len(Current.proofs) < MaxHandles
    BY <1>8 DEF ConsumeComparison, Note
  <2>2. k.proofs = Append(Current.proofs, h) BY <1>2, <1>4, ConsumeFacts
  <2> HIDE DEF k
  <2>3. Onward(k) BY <1>4, <2>1, <2>2 DEF Onward
  <2>4. members' \in 0 .. MaxMembers BY <2>1 DEF TypeOK
  <2>5. Moves(k) BY <1>1, <1>5, <2>1, <2>3, <2>4, NoteMoves DEF k
  <2>6. QED BY <2>5
<1>9. CASE CheckCanonicalArrays
  BY <1>1, <1>9, OperandGroupMoves DEF CheckCanonicalArrays
<1>10. CASE CheckBundleRelations
  BY <1>1, <1>10, OperandGroupMoves DEF CheckBundleRelations
<1>11. CASE CheckOverlayIndividual
  <2> DEFINE bare == LeaveUnevaluated(Current)
  <2>1. Keep BY <1>11 DEF CheckOverlayIndividual
  <2>2. CASE Proceed(Current, TRUE) BY <1>1, <1>2, <2>1, <2>2, CleanOnward, KeepMoves
  <2>3. Dented(Current, bare) /\ ~Clear(bare)
    BY <1>2, LeaveFacts DEF Dented, Worn, Clear
  <2> HIDE DEF bare
  <2>4. CASE Proceed(open, FALSE) BY <1>1, <1>2, <2>1, <2>4, GapOnward, KeepMoves
  <2>5. CASE Proceed(bare, FALSE) BY <1>1, <2>1, <2>3, <2>5, GapOnward, KeepMoves
  <2>6. ASSUME NEW c \in {Current, open, bare}, Stop(Report(c, {"violation"}))
        PROVE  \E k : Moves(k)
    <3>1. /\ Dented(Current, Report(c, {"violation"}))
          /\ ~Clear(Report(c, {"violation"}))
      BY <1>2, <2>3, ViolationFacts
    <3>2. QED BY <1>1, <2>1, <2>6, <3>1, StopOnward, KeepMoves
  <2>7. QED BY <1>11, <2>2, <2>4, <2>5, <2>6 DEF CheckOverlayIndividual, open, bare
<1>12. CASE ConsumeInventory
  <2>1. CASE Stop(open) /\ Keep BY <1>1, <1>2, <2>1, StopOnward, KeepMoves
  <2>2. CASE Stop(gap) /\ Keep BY <1>1, <1>2, <2>2, StopOnward, KeepMoves
  <2>3. CASE /\ Stop(Unavailable(Consume(Current, h), "obligation", TRUE))
             /\ Note(h)
    <3> DEFINE k == Unavailable(Consume(Current, h), "obligation", TRUE)
    <3>1. Onward(k) BY <1>5, <2>3, StopOnward
    <3>2. consumed' = consumed \cup {h} /\ members' \in 0 .. MaxMembers
      BY <2>3 DEF Note, TypeOK
    <3>3. Moves(k) BY <1>1, <1>5, <3>1, <3>2, NoteMoves
    <3>4. QED BY <3>3
  <2>4. CASE /\ Proceed(Consume(Current, h), TRUE)
             /\ consumed' = consumed \cup {h}
             /\ members' \in 0 .. MaxMembers
    <3> DEFINE k == Consume(Current, h)
    <3>1. Onward(k) BY <2>4, CleanOnward
    <3>2. Moves(k) BY <1>1, <1>5, <2>4, <3>1, NoteMoves
    <3>3. QED BY <3>2
  <2>5. QED BY <1>12, <2>1, <2>2, <2>3, <2>4 DEF ConsumeInventory, open, gap
<1>13. CASE LeaveMembers
  <2>1. Keep BY <1>13 DEF LeaveMembers
  <2>2. CASE member = members /\ Proceed(Current, member = members)
    <3>1. Proceed(Current, TRUE) BY <2>2 DEF Proceed
    <3>2. QED BY <1>1, <1>2, <2>1, <3>1, CleanOnward, KeepMoves
  <2>3. CASE Stop(open) BY <1>1, <1>2, <2>1, <2>3, StopOnward, KeepMoves
  <2>4. QED BY <1>13, <2>2, <2>3 DEF LeaveMembers, open
<1>14. CASE CheckRoots
  <2>1. Keep BY <1>14 DEF CheckRoots
  <2>2. CASE Proceed(Current, TRUE) BY <1>1, <1>2, <2>1, <2>2, CleanOnward, KeepMoves
  <2>3. CASE Proceed(Report(Current, {"violation"}), FALSE)
    BY <1>1, <1>3, <2>1, <2>3, GapOnward, KeepMoves
  <2>4. ASSUME NEW c \in {Current, Report(Current, {"violation"})},
               \/ Proceed(Unavailable(c, "obligation", TRUE), FALSE)
               \/ Stop(Unavailable(c, "obligation", TRUE))
        PROVE  \E k : Moves(k)
    <3> DEFINE k == Unavailable(c, "obligation", TRUE)
    <3>1. Dented(Current, k) /\ ~Clear(k) BY <1>2, <1>3, OpenFacts
    <3> HIDE DEF k
    <3>2. CASE Proceed(k, FALSE) BY <1>1, <2>1, <3>1, <3>2, GapOnward, KeepMoves
    <3>3. CASE Stop(k) BY <1>1, <2>1, <3>1, <3>3, StopOnward, KeepMoves
    <3>4. QED BY <2>4, <3>2, <3>3 DEF k
  <2>5. QED BY <1>14, <2>2, <2>3, <2>4 DEF CheckRoots
<1>15. CASE CheckSameHostUnion
  <2>1. Keep BY <1>15 DEF CheckSameHostUnion
  <2>2. CASE ~Clear(Current) /\ Stop(Current)
    BY <1>1, <1>2, <2>1, <2>2, StopOnward, KeepMoves
  <2>3. CASE Proceed(Current, TRUE) BY <1>1, <1>2, <2>1, <2>3, CleanOnward, KeepMoves
  <2>4. CASE Stop(Report(Current, {"violation"}))
    BY <1>1, <1>3, <2>1, <2>4, StopOnward, KeepMoves
  <2>5. ASSUME NEW c \in {Current, Report(Current, {"violation"})},
               Stop(Unavailable(c, "obligation", TRUE))
        PROVE  \E k : Moves(k)
    <3>1. /\ Dented(Current, Unavailable(c, "obligation", TRUE))
          /\ ~Clear(Unavailable(c, "obligation", TRUE))
      BY <1>2, <1>3, OpenFacts
    <3>2. QED BY <1>1, <2>1, <2>5, <3>1, StopOnward, KeepMoves
  <2>6. QED BY <1>15, <2>2, <2>3, <2>4, <2>5 DEF CheckSameHostUnion, Clear
<1>16. CASE CheckMembership
  <2>1. Keep BY <1>16 DEF CheckMembership
  <2>2. CASE Proceed(Current, TRUE) BY <1>1, <1>2, <2>1, <2>2, CleanOnward, KeepMoves
  <2>3. CASE Stop(Report(Current, {"violation"}))
    BY <1>1, <1>3, <2>1, <2>3, StopOnward, KeepMoves
  <2>4. QED BY <1>16, <2>2, <2>3 DEF CheckMembership
<1>17. CASE CheckContractBindings
  BY <1>1, <1>2, <1>17, RuleGroupMoves DEF CheckContractBindings, open
<1>18. CASE ConsumeMaterializedBaseline
  <2>1. CASE Answered(TRUE) BY <1>1, <2>1, AnsweredMoves
  <2>2. CASE Proceed(gap, FALSE) /\ Keep BY <1>1, <1>2, <2>2, GapOnward, KeepMoves
  <2>3. CASE /\ Proceed(Unavailable(Consume(Current, h), "obligation", TRUE), FALSE)
             /\ Note(h)
    <3> DEFINE k == Unavailable(Consume(Current, h), "obligation", TRUE)
    <3>1. Onward(k) BY <1>5, <2>3, GapOnward
    <3>2. consumed' = consumed \cup {h} /\ members' \in 0 .. MaxMembers
      BY <2>3 DEF Note, TypeOK
    <3>3. Moves(k) BY <1>1, <1>5, <3>1, <3>2, NoteMoves
    <3>4. QED BY <3>3
  <2>4. QED BY <1>18, <2>1, <2>2, <2>3 DEF ConsumeMaterializedBaseline, gap
<1>19. CASE CheckBaselineConsistency
  BY <1>1, <1>2, <1>19, RuleGroupMoves DEF CheckBaselineConsistency, open
<1>20. CASE CheckContractPlan
  BY <1>1, <1>2, <1>20, RuleGroupMoves DEF CheckContractPlan, gap
<1>21. CASE CheckContractChronology
  <2>1. Keep BY <1>21 DEF CheckContractChronology
  <2>2. CASE Proceed(Current, TRUE) BY <1>1, <1>2, <2>1, <2>2, CleanOnward, KeepMoves
  <2>3. CASE Proceed(Report(Current, {"violation"}), FALSE)
    BY <1>1, <1>3, <2>1, <2>3, GapOnward, KeepMoves
  <2>4. QED BY <1>21, <2>2, <2>3 DEF CheckContractChronology
<1>22. QED
  BY <1>6, <1>7, <1>8, <1>9, <1>10, <1>11, <1>12, <1>13, <1>14, <1>15, <1>16,
     <1>17, <1>18, <1>19, <1>20, <1>21 DEF StageStep

-----------------------------------------------------------------------------
\* Type correctness.

\* Every step is one of a stage, a member, the re-check, the end or the environment.
LEMMA NextCases ==
  ASSUME Next
  PROVE  \/ StageStep \/ EnterMember \/ RecheckHandle
         \/ ConcludeMember \/ Conclude
         \/ \E object \in Object : MutateOperand(object)
BY DEF Next, CallStep, StageStep

\* The slots of the two frames keep their type under a step of one of them.
LEMMA SlotType ==
  ASSUME TypeOK, NEW k \in Context, ctx' = [ctx EXCEPT ![depth] = k]
  PROVE  ctx' \in [{0, 1} -> Context]
BY DEF TypeOK, Context

\* What an early return misses are inputs and predicates.
LEMMA RemainingType == Remaining \subseteq {"input", "predicate"}
BY DEF Remaining

\* A way onward keeps the types of control and bookkeeping.
LEMMA OnwardType ==
  ASSUME TypeOK, NEW k, Moves(k)
  PROVE  /\ ctx' = [ctx EXCEPT ![depth] = k]
         /\ at' \in [{0, 1} -> Nat \ {0}]
         /\ missed' \subseteq {"input", "predicate"}
         /\ UNCHANGED <<scope, depth, member, checked, result, operands, stale>>
<1>1. depth \in {0, 1} /\ at \in [{0, 1} -> Nat \ {0}]
      /\ missed \subseteq {"input", "predicate"}
  BY DEF TypeOK
<1>2. Boundary(depth) \in Nat \ {0}
  <2>1. Plan(Kind(depth)) \in Seq(Subject \X StageName) BY <1>1, BoundaryType
  <2>2. QED BY <2>1 DEF Boundary
<1>3. CASE \E ok \in BOOLEAN : Proceed(k, ok)
  <2>1. at' = [at EXCEPT ![depth] = @ + 1] BY <1>3 DEF Proceed
  <2>2. at' \in [{0, 1} -> Nat \ {0}] BY <1>1, <2>1
  <2>3. QED BY <1>1, <1>3, <2>2 DEF Proceed
<1>4. CASE Stop(k)
  <2>1. at' = [at EXCEPT ![depth] = Boundary(depth)] BY <1>4 DEF Stop
  <2>2. at' \in [{0, 1} -> Nat \ {0}] BY <1>1, <1>2, <2>1
  <2>3. QED BY <1>1, <1>4, <2>2, RemainingType DEF Stop
<1>5. CASE /\ ctx' = [ctx EXCEPT ![depth] = k]
           /\ UNCHANGED <<scope, at, depth, member, checked, result, operands, missed, stale>>
  BY <1>1, <1>5
<1>6. QED BY <1>3, <1>4, <1>5 DEF Moves, Onward

\* A stage keeps the types.
LEMMA StageType == ASSUME TypeOK, StageStep PROVE TypeOK'
<1>1. PICK k : Moves(k) BY StageMoves
<1>2. /\ ctx' = [ctx EXCEPT ![depth] = k]
      /\ at' \in [{0, 1} -> Nat \ {0}]
      /\ missed' \subseteq {"input", "predicate"}
      /\ UNCHANGED <<scope, depth, member, checked, result, operands, stale>>
  BY <1>1, OnwardType
<1>3. ctx' \in [{0, 1} -> Context] BY <1>1, <1>2, SlotType DEF Moves, Grown
<1>4. consumed' \subseteq Handle /\ consumed \subseteq consumed'
  BY <1>1 DEF Moves, Holds, TypeOK
<1>5. members' \in 0 .. MaxMembers BY <1>1 DEF Moves
<1>6. QED BY <1>2, <1>3, <1>4, <1>5 DEF TypeOK, Context, operands

\* Entering a member does.
LEMMA EnterType == ASSUME TypeOK, EnterMember PROVE TypeOK'
<1>1. /\ depth' = 1 /\ member' = member + 1 /\ member < members
      /\ ctx' = [ctx EXCEPT ![1] = NewContext]
      /\ at' = [at EXCEPT ![1] = 1] /\ checked' = 0
      /\ UNCHANGED <<scope, members, result, operands, history>>
  BY DEF EnterMember
<1>2. ctx' \in [{0, 1} -> Context]
  BY <1>1, NewFacts DEF TypeOK, Context
<1>3. member' \in 0 .. MaxMembers BY <1>1, CallsAssumption DEF TypeOK
<1>4. at' \in [{0, 1} -> Nat \ {0}] BY <1>1 DEF TypeOK
<1>5. QED BY <1>1, <1>2, <1>3, <1>4 DEF TypeOK, Context, operands, history

\* A re-check leaves the handles as they are and forgets no taint.
LEMMA RecheckFacts ==
  ASSUME TypeOK, RecheckHandle
  PROVE  \E k : /\ Dented(Current, k)
                /\ Broken(Current.proofs[checked + 1]) => k.required # {}
                /\ ctx' = [ctx EXCEPT ![depth] = k]
<1>1. Current \in Context BY CurrentType
<1>2. depth \in {0, 1} /\ ctx \in [{0, 1} -> Context] BY DEF TypeOK, Context
<1>3. CASE Broken(Current.proofs[checked + 1])
  <2> DEFINE k == Unavailable(Current, "obligation", FALSE)
  <2>1. ctx' = [ctx EXCEPT ![depth] = k] BY <1>2, <1>3 DEF RecheckHandle, Current
  <2>2. Dented(Current, k) /\ k.required # {} BY <1>1, UnavailableFacts
  <2>3. QED BY <2>1, <2>2
<1>4. CASE ~Broken(Current.proofs[checked + 1])
  <2>1. ctx' = [ctx EXCEPT ![depth] = Current] BY <1>2, <1>4 DEF RecheckHandle, Current
  <2>2. Dented(Current, Current) BY <1>1 DEF Dented, Worn
  <2>3. QED BY <1>4, <2>1, <2>2
<1>5. QED BY <1>3, <1>4

\* A re-check keeps the types.
LEMMA RecheckType == ASSUME TypeOK, RecheckHandle PROVE TypeOK'
<1>1. PICK k : Dented(Current, k) /\ ctx' = [ctx EXCEPT ![depth] = k]
  BY RecheckFacts
<1>2. ctx' \in [{0, 1} -> Context] BY <1>1, SlotType DEF Dented, Worn
<1>3. /\ checked' = checked + 1
      /\ UNCHANGED <<scope, at, depth, members, member, result, operands, history>>
  BY DEF RecheckHandle
<1>4. QED BY <1>2, <1>3 DEF TypeOK, Context, operands, history

\* The merged context and where the loop over the members goes on.
LEMMA ReturnFacts ==
  ASSUME TypeOK, ConcludeMember
  PROVE  \E c : /\ Worn(ctx[0], c)
                /\ Accounted(ctx[0]) /\ Accounted(ctx[1]) => Accounted(c)
                /\ ~Untainted(ctx[1]) => c.unevaluated
                /\ ctx[1].failed => c.failed
                /\ ctx[1].required # {} => c.required # {}
                /\ ctx' = [d \in {0, 1} |-> IF d = 0 THEN c ELSE NewContext]
                /\ at' \in [{0, 1} -> Nat \ {0}]
                /\ \/ UNCHANGED missed
                   \/ missed' = missed \cup {"predicate"} /\ ~Clear(c)
<1> DEFINE merged == Merge(ctx[0], ctx[1])
<1>1. ctx[0] \in Context /\ ctx[1] \in Context BY DEF TypeOK, Context
<1>2. /\ Worn(ctx[0], merged) /\ merged \in Context
      /\ Accounted(ctx[0]) /\ Accounted(ctx[1]) => Accounted(merged)
      /\ ~Untainted(ctx[1]) => merged.unevaluated
      /\ ctx[1].failed => merged.failed
      /\ ctx[1].required # {} => merged.required # {}
  BY <1>1, MergeFacts DEF Worn
<1>3. at[0] \in Nat \ {0} /\ Boundary(0) \in Nat \ {0}
  <2>1. Plan(Kind(0)) \in Seq(Subject \X StageName) BY BoundaryType
  <2>2. QED BY <2>1 DEF Boundary, TypeOK
<1>4. CASE /\ ctx' = [d \in {0, 1} |-> IF d = 0 THEN merged ELSE NewContext]
           /\ at' = [d \in {0, 1} |-> IF d = 0 THEN at[0] ELSE 1]
           /\ UNCHANGED missed
  BY <1>2, <1>3, <1>4
<1>5. CASE /\ ctx' = [d \in {0, 1} |-> IF d = 0 THEN Report(merged, {"violation"}) ELSE NewContext]
           /\ at' = [d \in {0, 1} |-> IF d = 0 THEN at[0] ELSE 1]
           /\ missed' = missed \cup {"predicate"}
  <2> DEFINE c == Report(merged, {"violation"})
  <2>1. Dented(merged, c) /\ c.failed BY <1>2, ReportFacts
  <2>2. /\ Worn(ctx[0], c) /\ ~Clear(c)
        /\ Accounted(ctx[0]) /\ Accounted(ctx[1]) => Accounted(c)
        /\ ~Untainted(ctx[1]) => c.unevaluated
        /\ ctx[1].failed => c.failed
        /\ ctx[1].required # {} => c.required # {}
    BY <1>2, <2>1 DEF Dented, Worn, Clear
  <2>3. QED BY <1>3, <1>5, <2>2
<1>6. CASE /\ ctx' = [d \in {0, 1} |-> IF d = 0 THEN Unavailable(merged, "obligation", TRUE)
                                      ELSE NewContext]
           /\ at' = [d \in {0, 1} |-> IF d = 0 THEN Boundary(0) ELSE 1]
           /\ missed' = missed \cup {"predicate"}
  <2> DEFINE c == Unavailable(merged, "obligation", TRUE)
  <2>1. Dented(merged, c) /\ c.unevaluated BY <1>2, UnavailableFacts
  <2>2. /\ Worn(ctx[0], c) /\ ~Clear(c)
        /\ Accounted(ctx[0]) /\ Accounted(ctx[1]) => Accounted(c)
        /\ ctx[1].failed => c.failed
        /\ ctx[1].required # {} => c.required # {}
    BY <1>2, <2>1 DEF Dented, Worn, Clear
  <2>3. QED BY <1>3, <1>6, <2>1, <2>2
<1>7. QED BY <1>4, <1>5, <1>6 DEF ConcludeMember

\* Merging a member's result does.
LEMMA ReturnType == ASSUME TypeOK, ConcludeMember PROVE TypeOK'
<1>1. PICK c : /\ Worn(ctx[0], c)
               /\ ctx' = [d \in {0, 1} |-> IF d = 0 THEN c ELSE NewContext]
               /\ at' \in [{0, 1} -> Nat \ {0}]
               /\ missed' \subseteq missed \cup {"predicate"}
  BY ReturnFacts
<1>2. ctx' \in [{0, 1} -> Context] BY <1>1, NewFacts DEF Worn
<1>3. /\ depth' = 0 /\ checked' = 0
      /\ UNCHANGED <<scope, members, member, result, operands, consumed, stale>>
  BY DEF ConcludeMember
<1>4. QED BY <1>1, <1>2, <1>3 DEF TypeOK, Context, operands

\* The verdict does.
LEMMA ConcludeType == ASSUME TypeOK, Conclude PROVE TypeOK'
<1>1. /\ result' = Result(Current)
      /\ UNCHANGED <<scope, ctx, at, depth, members, member, checked, operands, history>>
  BY DEF Conclude
<1>2. result' \in [status : {"pending", "INVALID", "PROOF_REQUIRED", "PASS"},
                   direct : {"True", "None", "False"}, clear : BOOLEAN]
  BY <1>1 DEF Result, Verdict, Direct
<1>3. QED BY <1>1, <1>2 DEF TypeOK, operands, history

\* A change of an operand does.
LEMMA MutateType ==
  ASSUME TypeOK, NEW object \in Object, MutateOperand(object) PROVE TypeOK'
<1>1. /\ mutations' = mutations + 1 /\ mutations < MaxMutations
      /\ version' = [version EXCEPT ![object] = 1 - @]
      /\ UNCHANGED <<control, missed, consumed>>
  BY DEF MutateOperand
<1>2. stale' \subseteq consumed BY DEF MutateOperand, TypeOK
<1>3. version' \in [Object -> {0, 1}]
  <2>1. version[object] \in {0, 1} BY DEF TypeOK
  <2>2. 1 - version[object] \in {0, 1} BY <2>1
  <2>3. QED BY <1>1, <2>2 DEF TypeOK
<1>4. mutations' \in 0 .. MaxMutations BY <1>1, CallsAssumption DEF TypeOK
<1>5. QED BY <1>1, <1>2, <1>3, <1>4 DEF TypeOK, control

\* A call begins well typed.
LEMMA InitType == ASSUME Init PROVE TypeOK
<1>1. ctx \in [{0, 1} -> Context] BY NewFacts DEF Init
<1>2. result \in [status : {"pending", "INVALID", "PROOF_REQUIRED", "PASS"},
                  direct : {"True", "None", "False"}, clear : BOOLEAN]
  BY DEF Init, Pending
<1>3. QED BY <1>1, <1>2, CallsAssumption DEF Init, TypeOK, Context

\* Every step keeps the types.
LEMMA NextType == ASSUME TypeOK, [Next]_vars PROVE TypeOK'
<1>1. CASE UNCHANGED vars
  BY <1>1 DEF vars, control, operands, history, TypeOK
<1>2. CASE Next
  BY <1>2, NextCases, StageType, EnterType, RecheckType, ReturnType, ConcludeType,
     MutateType
<1>3. QED BY <1>1, <1>2

\* In every reachable state every variable of a call has its type: handles are
\* bound to operands of the call, and contexts hold nothing but their fields.
THEOREM TypeCorrect == Spec => []TypeOK
<1>1. Init => TypeOK BY InitType
<1>2. TypeOK /\ [Next]_vars => TypeOK' BY NextType
<1>3. QED BY <1>1, <1>2, PTL DEF Spec

-----------------------------------------------------------------------------
\* The inductive invariant.

\* While nothing keeps the open frames from acceptance, nothing was missed.
Complete ==
  Untainted(ctx[0]) /\ (depth = 1 => Untainted(ctx[1])) => missed = {}

\* While no predicate failed or was left open, at most input proofs are missing.
DirectComplete ==
  Clear(ctx[0]) /\ (depth = 1 => Clear(ctx[1])) => missed \subseteq {"input"}

\* The re-check has met every broken handle it has passed.
Seen ==
  /\ \A h \in stale : Broken(h)
  /\ at[depth] # Boundary(depth) => checked = 0
  /\ depth = 0 => \A i \in 1 .. checked :
       ctx[0].proofs[i] \in stale => ctx[0].required # {}

\* Nothing is reported in either frame that the verdict does not reflect.
Reported == \A d \in {0, 1} : Accounted(ctx[d])

Inv ==
  /\ TypeOK /\ Reported
  /\ result = Pending => Complete /\ DirectComplete /\ Seen
  /\ AcceptanceIsComplete /\ DirectIsComplete /\ NoStaleAcceptance
  /\ PassIsCompleted

\* As long as the call is pending the promises about its result are kept.
LEMMA PendingPromises ==
  ASSUME result' = Pending
  PROVE  /\ (AcceptanceIsComplete /\ DirectIsComplete /\ NoStaleAcceptance)'
         /\ PassIsCompleted'
BY DEF Pending, AcceptanceIsComplete, DirectIsComplete, NoStaleAcceptance,
   PassIsCompleted

\* A stage keeps the invariant.
LEMMA StageInv == ASSUME Inv, StageStep PROVE Inv'
<1>1. TypeOK /\ TypeOK' BY StageType DEF Inv
<1>2. PICK k : Moves(k) BY <1>1, StageMoves
<1>3. /\ ctx' = [ctx EXCEPT ![depth] = k]
      /\ UNCHANGED <<scope, depth, member, checked, result, version, stale>>
  BY <1>1, <1>2, OnwardType DEF operands
<1>4. /\ result = Pending /\ result' = Pending
      /\ Complete /\ DirectComplete /\ Seen
      /\ at[depth] # Boundary(depth)
  BY <1>1, <1>2, <1>3, BoundaryType DEF Moves, Inv, TypeOK
<1>5. depth \in {0, 1} /\ ctx \in [{0, 1} -> Context] /\ Grown(k)
  BY <1>1, <1>2 DEF TypeOK, Context, Moves
<1>6. ctx'[depth] = k /\ \A d \in {0, 1} : d # depth => ctx'[d] = ctx[d]
  BY <1>3, <1>5
<1>7. /\ Untainted(k) => Untainted(Current)
      /\ Clear(k) => Clear(Current)
  BY <1>5 DEF Grown, Untainted, Clear
<1>8. /\ Untainted(k) => missed' = missed
      /\ Clear(k) => missed' \subseteq missed \cup {"input"}
  <2>1. CASE Proceed(k, TRUE) BY <2>1 DEF Proceed
  <2>2. CASE Proceed(k, FALSE) /\ ~Untainted(k) /\ (Here("input") \/ ~Clear(k))
    BY <2>2 DEF Proceed
  <2>3. CASE Stop(k) /\ ~Clear(k) BY <2>3 DEF Clear, Untainted
  <2>4. CASE UNCHANGED missed BY <2>4
  <2>5. QED BY <1>2, <2>1, <2>2, <2>3, <2>4 DEF Moves, Onward
<1>9. Complete'
  <2>1. SUFFICES ASSUME Untainted(ctx'[0]), depth' = 1 => Untainted(ctx'[1])
                 PROVE  missed' = {}
    BY DEF Complete, Untainted
  <2>2. Untainted(k) BY <1>3, <1>5, <1>6, <2>1
  <2>3. Untainted(ctx[0]) /\ (depth = 1 => Untainted(ctx[1]))
    BY <1>3, <1>5, <1>6, <1>7, <2>1, <2>2 DEF Current
  <2>4. QED BY <1>4, <1>8, <2>2, <2>3 DEF Complete
<1>10. DirectComplete'
  <2>1. SUFFICES ASSUME Clear(ctx'[0]), depth' = 1 => Clear(ctx'[1])
                 PROVE  missed' \subseteq {"input"}
    BY DEF DirectComplete, Clear
  <2>2. Clear(k) BY <1>3, <1>5, <1>6, <2>1
  <2>3. Clear(ctx[0]) /\ (depth = 1 => Clear(ctx[1]))
    BY <1>3, <1>5, <1>6, <1>7, <2>1, <2>2 DEF Current
  <2>4. QED BY <1>4, <1>8, <2>2, <2>3 DEF DirectComplete
<1>11. Seen'
  <2>1. checked' = 0 BY <1>3, <1>4 DEF Seen
  <2>2. (\A h \in stale : Broken(h))' BY <1>3, <1>4 DEF Seen, Broken
  <2>3. QED BY <2>1, <2>2 DEF Seen
<1>12. Reported' BY <1>5, <1>6 DEF Inv, Reported, Grown, Current
<1>13. QED BY <1>1, <1>4, <1>9, <1>10, <1>11, <1>12, PendingPromises DEF Inv

\* Entering a member does: its context is new, the enclosing one waits.
LEMMA EnterInv == ASSUME Inv, EnterMember PROVE Inv'
<1>1. TypeOK /\ TypeOK' BY EnterType DEF Inv
<1>2. /\ depth = 0 /\ depth' = 1 /\ checked' = 0
      /\ ctx' = [ctx EXCEPT ![1] = NewContext]
      /\ UNCHANGED <<result, version, missed, stale>>
      /\ result = Pending
  BY DEF EnterMember, operands, history, Here
<1>3. Complete /\ DirectComplete /\ Seen BY <1>2 DEF Inv
<1>4. ctx'[0] = ctx[0] BY <1>1, <1>2 DEF TypeOK
<1>5. Complete' /\ DirectComplete'
  BY <1>2, <1>3, <1>4 DEF Complete, DirectComplete, Untainted, Clear
<1>6. Seen'
  <2>1. (\A h \in stale : Broken(h))' BY <1>2, <1>3 DEF Seen, Broken
  <2>2. QED BY <1>2, <2>1 DEF Seen
<1>7. Reported'
  <2>1. ctx'[1] = NewContext BY <1>1, <1>2 DEF TypeOK
  <2>2. Accounted(NewContext) BY DEF Accounted, NewContext
  <2>3. QED BY <1>4, <2>1, <2>2 DEF Inv, Reported
<1>8. QED BY <1>1, <1>2, <1>5, <1>6, <1>7, PendingPromises DEF Inv

\* A re-check does: a stale handle is still broken when its turn comes.
LEMMA RecheckInv == ASSUME Inv, RecheckHandle PROVE Inv'
<1>1. TypeOK /\ TypeOK' BY RecheckType DEF Inv
<1>2. PICK k : /\ Dented(Current, k)
               /\ Broken(Current.proofs[checked + 1]) => k.required # {}
               /\ ctx' = [ctx EXCEPT ![depth] = k]
  BY <1>1, RecheckFacts
<1>3. /\ result = Pending /\ at[depth] = Boundary(depth) /\ checked' = checked + 1
      /\ UNCHANGED <<scope, at, depth, member, result, version, missed, stale>>
  BY DEF RecheckHandle, AtBoundary, operands, history
<1>4. Complete /\ DirectComplete /\ Seen BY <1>3 DEF Inv
<1>5. depth \in {0, 1} /\ ctx \in [{0, 1} -> Context] /\ checked \in Nat
  BY <1>1 DEF TypeOK, Context
<1>6. ctx'[depth] = k /\ \A d \in {0, 1} : d # depth => ctx'[d] = ctx[d]
  BY <1>2, <1>5
<1>7. \A d \in {0, 1} : /\ Untainted(ctx'[d]) => Untainted(ctx[d])
                        /\ Clear(ctx'[d]) => Clear(ctx[d])
  BY <1>2, <1>5, <1>6 DEF Dented, Worn, Untainted, Clear, Current
<1>8. Complete'
  <2>1. SUFFICES ASSUME Untainted(ctx'[0]), depth' = 1 => Untainted(ctx'[1])
                 PROVE  missed' = {}
    BY DEF Complete, Untainted
  <2>2. QED BY <1>3, <1>4, <1>7, <2>1 DEF Complete
<1>9. DirectComplete'
  <2>1. SUFFICES ASSUME Clear(ctx'[0]), depth' = 1 => Clear(ctx'[1])
                 PROVE  missed' \subseteq {"input"}
    BY DEF DirectComplete, Clear
  <2>2. QED BY <1>3, <1>4, <1>7, <2>1 DEF DirectComplete
<1>10. Seen'
  <2>1. (\A h \in stale : Broken(h))' BY <1>3, <1>4 DEF Seen, Broken
  <2>2. (at[depth] # Boundary(depth) => checked = 0)'
    <3>1. at'[depth'] = Boundary(depth)' BY <1>3 DEF Boundary, Kind
    <3>2. QED BY <3>1
  <2>3. ASSUME depth' = 0, NEW i \in 1 .. checked', ctx'[0].proofs[i] \in stale'
        PROVE  ctx'[0].required # {}
    <3>1. depth = 0 /\ ctx'[0] = k /\ k.proofs = ctx[0].proofs
      BY <1>2, <1>3, <1>6, <2>3 DEF Dented, Worn, Current
    <3>2. CASE i = checked + 1
      <4>1. ctx[0].proofs[checked + 1] \in stale BY <1>3, <2>3, <3>1, <3>2
      <4>2. Broken(Current.proofs[checked + 1])
        BY <1>4, <3>1, <4>1 DEF Seen, Current
      <4>3. QED BY <1>2, <3>1, <4>2
    <3>3. CASE i # checked + 1
      <4>1. i \in 1 .. checked BY <1>3, <1>5, <2>3, <3>3
      <4>2. ctx[0].required # {} BY <1>3, <1>4, <2>3, <3>1, <4>1 DEF Seen
      <4>3. QED BY <1>2, <3>1, <4>2 DEF Dented, Worn, Current
    <3>4. QED BY <3>2, <3>3
  <2>4. QED BY <2>1, <2>2, <2>3 DEF Seen
<1>11. Reported' BY <1>2, <1>5, <1>6 DEF Inv, Reported, Dented, Current
<1>12. QED BY <1>1, <1>3, <1>8, <1>9, <1>10, <1>11, PendingPromises DEF Inv

\* Merging does: the taint is in the enclosing context before the inner one goes.
LEMMA ReturnInv == ASSUME Inv, ConcludeMember PROVE Inv'
<1>1. TypeOK /\ TypeOK' BY ReturnType DEF Inv
<1>2. PICK c : /\ Worn(ctx[0], c)
               /\ Accounted(ctx[0]) /\ Accounted(ctx[1]) => Accounted(c)
               /\ ~Untainted(ctx[1]) => c.unevaluated
               /\ ctx' = [d \in {0, 1} |-> IF d = 0 THEN c ELSE NewContext]
               /\ \/ UNCHANGED missed
                  \/ missed' = missed \cup {"predicate"} /\ ~Clear(c)
  BY <1>1, ReturnFacts
<1>3. /\ result = Pending /\ result' = Pending /\ depth = 1 /\ depth' = 0
      /\ checked' = 0 /\ UNCHANGED <<version, stale>>
  BY DEF ConcludeMember, Finished, AtBoundary, operands
<1>4. Complete /\ DirectComplete /\ Seen BY <1>3 DEF Inv
<1>5. ctx'[0] = c BY <1>2
<1>6. Complete'
  <2>1. SUFFICES ASSUME Untainted(c) PROVE missed' = {}
    BY <1>5 DEF Complete
  <2>2. Untainted(ctx[0]) /\ Untainted(ctx[1]) /\ UNCHANGED missed
    BY <1>2, <2>1 DEF Worn, Untainted, Clear
  <2>3. QED BY <1>4, <2>2 DEF Complete
<1>7. DirectComplete'
  <2>1. SUFFICES ASSUME Clear(c) PROVE missed' \subseteq {"input"}
    BY <1>5 DEF DirectComplete
  <2>2. Clear(ctx[0]) /\ Clear(ctx[1]) /\ UNCHANGED missed
    BY <1>2, <2>1 DEF Worn, Untainted, Clear
  <2>3. QED BY <1>4, <2>2 DEF DirectComplete
<1>8. Seen'
  <2>1. (\A h \in stale : Broken(h))' BY <1>3, <1>4 DEF Seen, Broken
  <2>2. QED BY <1>3, <2>1 DEF Seen
<1>9. Reported'
  <2>1. ctx'[1] = NewContext BY <1>2
  <2>2. Accounted(NewContext) BY DEF Accounted, NewContext
  <2>3. QED BY <1>2, <1>5, <2>1, <2>2 DEF Inv, Reported
<1>10. QED BY <1>1, <1>3, <1>6, <1>7, <1>8, <1>9, PendingPromises DEF Inv

\* The verdict does: it is what the context of the call amounts to.
LEMMA ConcludeInv == ASSUME Inv, Conclude PROVE Inv'
<1>1. TypeOK /\ TypeOK' BY ConcludeType DEF Inv
<1>2. /\ result = Pending /\ result' = Result(ctx[0]) /\ depth = 0
      /\ checked = Len(ctx[0].proofs)
      /\ UNCHANGED <<ctx, depth, missed, stale>>
  BY DEF Conclude, Finished, AtBoundary, Current, history
<1>3. Complete /\ DirectComplete /\ Seen BY <1>2 DEF Inv
<1>4. result' # Pending BY <1>2 DEF Result, Verdict, Pending
<1>5. AcceptanceIsComplete'
  BY <1>2, <1>3 DEF AcceptanceIsComplete, Complete, Result, Verdict, Untainted
<1>6. DirectIsComplete'
  BY <1>2, <1>3 DEF DirectIsComplete, DirectComplete, Result, Direct, Clear
<1>7. NoStaleAcceptance'
  <2>1. ASSUME result'.status = "PASS", NEW i \in DOMAIN ctx[0].proofs,
               ctx[0].proofs[i] \in stale
        PROVE  FALSE
    <3>1. ctx[0].required = {} BY <1>2, <2>1 DEF Result, Verdict
    <3>2. ctx[0].proofs \in Seq(Handle) BY <1>1 DEF TypeOK, ContextType
    <3>3. i \in 1 .. checked BY <1>2, <2>1, <3>2
    <3>4. QED BY <1>2, <1>3, <2>1, <3>1, <3>3 DEF Seen
  <2>2. QED BY <1>2, <2>1 DEF NoStaleAcceptance
<1>8. PassIsCompleted' /\ Reported'
  <2>1. Accounted(ctx[0]) BY DEF Inv, Reported
  <2>2. ctx[0] \in Context BY <1>1 DEF TypeOK, Context
  <2>3. PassIsCompleted'
    BY <1>2, <2>1, <2>2 DEF PassIsCompleted, Completed, Accounted, Result, Verdict,
       Direct, Context, ContextType
  <2>4. QED BY <1>2, <2>3 DEF Inv, Reported
<1>9. QED BY <1>1, <1>4, <1>5, <1>6, <1>7, <1>8 DEF Inv

\* A change does: a handle that is mended is no longer stale.
LEMMA MutateInv ==
  ASSUME Inv, NEW object \in Object, MutateOperand(object) PROVE Inv'
<1>1. TypeOK /\ TypeOK' BY MutateType DEF Inv
<1>2. /\ result = Pending
      /\ UNCHANGED <<scope, ctx, at, depth, member, checked, result, missed>>
      /\ stale' = {h \in IF LastRecheckBegun THEN stale ELSE consumed :
                     version'[h[1]] # h[2]}
  BY DEF MutateOperand, control
<1>3. Complete /\ DirectComplete /\ Seen BY <1>2 DEF Inv
<1>4. Complete' /\ DirectComplete'
  BY <1>2, <1>3 DEF Complete, DirectComplete, Untainted, Clear
<1>5. Seen'
  <2>1. (\A h \in stale : Broken(h))' BY <1>2 DEF Broken
  <2>2. (at[depth] # Boundary(depth) => checked = 0)'
    BY <1>2, <1>3 DEF Seen, Boundary, Kind
  <2>3. ASSUME depth' = 0, NEW i \in 1 .. checked', ctx'[0].proofs[i] \in stale'
        PROVE  ctx'[0].required # {}
    <3>1. depth = 0 /\ i \in 1 .. checked /\ checked \in Nat BY <1>1, <1>2, <2>3 DEF TypeOK
    <3>2. checked > 0 BY <3>1
    <3>3. LastRecheckBegun BY <1>3, <3>1, <3>2 DEF Seen, LastRecheckBegun
    <3>4. ctx[0].proofs[i] \in stale BY <1>2, <2>3, <3>3
    <3>5. QED BY <1>2, <1>3, <3>1, <3>4 DEF Seen
  <2>4. QED BY <2>1, <2>2, <2>3 DEF Seen
<1>6. result' = Pending BY <1>2
<1>7. Reported' BY <1>2 DEF Inv, Reported
<1>8. QED BY <1>1, <1>4, <1>5, <1>6, <1>7, PendingPromises DEF Inv

\* The invariant holds at first.
LEMMA InitInv == ASSUME Init PROVE Inv
<1>1. TypeOK BY InitType
<1>2. Seen BY DEF Init, Seen
<1>3. Complete /\ DirectComplete BY DEF Init, Complete, DirectComplete
<1>4. /\ AcceptanceIsComplete /\ DirectIsComplete /\ NoStaleAcceptance
      /\ PassIsCompleted
  BY DEF Init, Pending, AcceptanceIsComplete, DirectIsComplete, NoStaleAcceptance,
     PassIsCompleted
<1>5. Reported BY DEF Init, Reported, Accounted, NewContext
<1>6. QED BY <1>1, <1>2, <1>3, <1>4, <1>5 DEF Inv

\* Every step keeps the invariant.
LEMMA NextInv == ASSUME Inv, [Next]_vars PROVE Inv'
<1>1. CASE UNCHANGED vars
  <2>1. TypeOK' BY <1>1, NextType DEF Inv
  <2>2. UNCHANGED <<scope, ctx, at, depth, member, checked, result, version, missed, stale>>
    BY <1>1 DEF vars, control, operands, history
  <2>3. QED BY <2>1, <2>2 DEF Inv, Complete, DirectComplete, Seen, Untainted, Clear,
     Broken, Boundary, Kind, AcceptanceIsComplete, DirectIsComplete, NoStaleAcceptance,
     PassIsCompleted, Reported
<1>2. CASE Next
  BY <1>2, NextCases, StageInv, EnterInv, RecheckInv, ReturnInv, ConcludeInv, MutateInv
<1>3. QED BY <1>1, <1>2

\* Inv holds in every reachable state of a call.
THEOREM Invariance == Spec => []Inv
<1>1. Init => Inv BY InitInv
<1>2. Inv /\ [Next]_vars => Inv' BY NextInv
<1>3. QED BY <1>1, <1>2, PTL DEF Spec

\* No early return of a pipeline loses a stage: a call that answers PASS made
\* every stage of its own and of every nested call, and each came out clean.
THEOREM AcceptanceComplete == Spec => []AcceptanceIsComplete
<1>1. Inv => AcceptanceIsComplete BY DEF Inv
<1>2. QED BY <1>1, Invariance, PTL

\* direct_checks_passed = True is never answered over a skipped predicate.
THEOREM DirectAcceptanceComplete == Spec => []DirectIsComplete
<1>1. Inv => DirectIsComplete BY DEF Inv
<1>2. QED BY <1>1, Invariance, PTL

\* A changed operand cannot retain acceptance from a handle the call holds.
THEOREM StaleNeverAccepted == Spec => []NoStaleAcceptance
<1>1. Inv => NoStaleAcceptance BY DEF Inv
<1>2. QED BY <1>1, Invariance, PTL

\* A later call that asks for this one's completed validation accepts exactly
\* the results that say PASS: no finding is left in a result that says PASS
\* (_completed_static against _finish_result).
THEOREM PassCompleted == Spec => []PassIsCompleted
<1>1. Inv => PassIsCompleted BY DEF Inv
<1>2. QED BY <1>1, Invariance, PTL

-----------------------------------------------------------------------------
\* The calls implement Adjudication.

OpenGrounds == GroundsOf(ctx[0]) \cup (IF depth = 1 THEN GroundsOf(ctx[1]) ELSE {})

\* More taints are more grounds.
LEMMA GroundsGrow ==
  ASSUME NEW c, NEW k, c.failed => k.failed, c.unevaluated => k.unevaluated,
         c.required # {} => k.required # {}
  PROVE  GroundsOf(c) \subseteq GroundsOf(k)
BY DEF GroundsOf

\* Grounds that grow while the call is pending are an Observe of Adjudication.
LEMMA Observed ==
  ASSUME result = Pending, result' = Pending,
         OpenGrounds \subseteq OpenGrounds'
  PROVE  Abstract!Observe
<1>1. OpenGrounds' \in {OpenGrounds \cup more : more \in SUBSET Abstract!Grounds}
  <2>1. OpenGrounds' \subseteq Abstract!Grounds BY DEF OpenGrounds, GroundsOf, Abstract!Grounds
  <2>2. OpenGrounds' = OpenGrounds \cup OpenGrounds' OBVIOUS
  <2>3. QED BY <2>1, <2>2
<1>2. QED BY <1>1 DEF Abstract!Observe, OpenGrounds, Pending

\* Every step of a call is a step of Adjudication or a stutter.
LEMMA StepAdjudicates ==
  ASSUME Inv, [Next]_vars
  PROVE  [Abstract!Next]_<<OpenGrounds, result.status>>
<1>0. TypeOK /\ depth \in {0, 1} /\ ctx \in [{0, 1} -> Context]
  BY DEF Inv, TypeOK, Context
<1>1. CASE StageStep
  <2>1. PICK k : Moves(k) BY <1>0, <1>1, StageMoves
  <2>2. /\ ctx' = [ctx EXCEPT ![depth] = k] /\ UNCHANGED <<depth, result>>
        /\ result = Pending /\ Grown(k)
    BY <1>0, <2>1, OnwardType DEF Moves
  <2>3. GroundsOf(Current) \subseteq GroundsOf(k)
    BY <2>2, GroundsGrow DEF Grown
  <2>4. OpenGrounds \subseteq OpenGrounds'
    <3>1. CASE depth = 0
      BY <1>0, <2>2, <2>3, <3>1 DEF OpenGrounds, Current, GroundsOf
    <3>2. CASE depth = 1
      BY <1>0, <2>2, <2>3, <3>2 DEF OpenGrounds, Current, GroundsOf
    <3>3. QED BY <1>0, <3>1, <3>2
  <2>5. QED BY <2>2, <2>4, Observed DEF Abstract!Next
<1>2. CASE EnterMember
  <2>1. /\ depth = 0 /\ depth' = 1 /\ ctx'[0] = ctx[0] /\ result = Pending
        /\ UNCHANGED result
    BY <1>0, <1>2 DEF EnterMember, Here
  <2>2. OpenGrounds \subseteq OpenGrounds' BY <2>1 DEF OpenGrounds, GroundsOf
  <2>3. QED BY <2>1, <2>2, Observed DEF Abstract!Next
<1>3. CASE RecheckHandle
  <2>1. PICK k : Dented(Current, k) /\ ctx' = [ctx EXCEPT ![depth] = k]
    BY <1>0, <1>3, RecheckFacts
  <2>2. UNCHANGED <<depth, result>> /\ result = Pending
    BY <1>3 DEF RecheckHandle, AtBoundary
  <2>3. GroundsOf(Current) \subseteq GroundsOf(k)
    BY <2>1, GroundsGrow DEF Dented, Worn
  <2>4. OpenGrounds \subseteq OpenGrounds'
    <3>1. CASE depth = 0
      BY <1>0, <2>1, <2>2, <2>3, <3>1 DEF OpenGrounds, Current, GroundsOf
    <3>2. CASE depth = 1
      BY <1>0, <2>1, <2>2, <2>3, <3>2 DEF OpenGrounds, Current, GroundsOf
    <3>3. QED BY <1>0, <3>1, <3>2
  <2>5. QED BY <2>2, <2>4, Observed DEF Abstract!Next
<1>4. CASE ConcludeMember
  <2>1. PICK c : /\ Worn(ctx[0], c)
                 /\ ~Untainted(ctx[1]) => c.unevaluated
                 /\ ctx[1].failed => c.failed
                 /\ ctx[1].required # {} => c.required # {}
                 /\ ctx' = [d \in {0, 1} |-> IF d = 0 THEN c ELSE NewContext]
    BY <1>0, <1>4, ReturnFacts
  <2>2. depth = 1 /\ depth' = 0 /\ result = Pending /\ UNCHANGED result
    BY <1>4 DEF ConcludeMember, Finished, AtBoundary
  <2>3. GroundsOf(ctx[0]) \subseteq GroundsOf(c) BY <2>1, GroundsGrow DEF Worn
  <2>4. GroundsOf(ctx[1]) \subseteq GroundsOf(c)
    <3>1. ctx[1].unevaluated => c.unevaluated BY <2>1 DEF Untainted
    <3>2. QED BY <2>1, <3>1, GroundsGrow
  <2>5. ctx'[0] = c BY <2>1
  <2>6. OpenGrounds \subseteq OpenGrounds'
    BY <2>2, <2>3, <2>4, <2>5 DEF OpenGrounds, GroundsOf
  <2>7. QED BY <2>2, <2>6, Observed DEF Abstract!Next
<1>5. CASE Conclude
  <2>1. /\ depth = 0 /\ result = Pending /\ result' = Result(ctx[0])
        /\ UNCHANGED <<ctx, depth>>
    BY <1>5 DEF Conclude, Finished, AtBoundary, Current
  <2>2. OpenGrounds = GroundsOf(ctx[0]) /\ UNCHANGED OpenGrounds
    BY <2>1 DEF OpenGrounds
  <2>3. result'.status = Abstract!Judgement(GroundsOf(ctx[0]))
    BY <2>1 DEF Result, Verdict, Abstract!Judgement, GroundsOf
  <2>4. Abstract!Decide
    BY <2>1, <2>2, <2>3 DEF Abstract!Decide, OpenGrounds, Pending
  <2>5. QED BY <2>4 DEF Abstract!Next
<1>6. CASE \E object \in Object : MutateOperand(object)
  BY <1>6 DEF MutateOperand, control, OpenGrounds
<1>7. CASE UNCHANGED vars BY <1>7 DEF vars, control, OpenGrounds
<1>8. QED BY <1>1, <1>2, <1>3, <1>4, <1>5, <1>6, <1>7, NextCases

\* Every public call adjudicates: whatever its stages find and however its
\* operands change, grounds accumulate across the nested calls and the one
\* verdict is the judgement of all of them.
THEOREM CallsAdjudicate == Spec => Adjudicates
<1>1. Init => Abstract!Init
  BY DEF Init, Abstract!Init, NewContext, GroundsOf, Pending
<1>2. Inv /\ [Next]_vars =>
        [Abstract!Next]_<<OpenGrounds, result.status>>
  BY StepAdjudicates
<1>3. QED BY <1>1, <1>2, Invariance, PTL DEF Spec, Adjudicates, Abstract!Spec, OpenGrounds
-----------------------------------------------------------------------------
\* The call does not run for ever: a measure of what is left of it.

\* Comparisons a frame may still be answered, and a re-check of every handle.
Room(c) == IF Len(c.proofs) < MaxHandles THEN MaxHandles - Len(c.proofs) ELSE 0
Load(c) == 2 * Room(c) + Len(c.proofs)

\* What is left of a frame: its stages, its comparisons and its re-checks.
FrameWork(d) == 2 * (Boundary(d) - at[d]) + Load(ctx[d])

\* More than the nested call for a member can take.
MemberWork == 2 * Len(OverlayPlan) + 2 * MaxHandles + 2

\* The steps a call can still make are no more than this.
Left ==
  IF result # Pending THEN 0
  ELSE 1 + MemberWork * (MaxMembers - member) + FrameWork(0)
         + (IF depth = 1 THEN 1 + FrameWork(1) ELSE 0) - checked

\* No stage lies past the boundary, and nothing is re-checked before it.
InBounds ==
  result = Pending =>
    /\ at[0] <= Boundary(0) /\ at[1] <= Boundary(1)
    /\ checked <= Len(Current.proofs)
    /\ at[depth] < Boundary(depth) => checked = 0

\* Every step of the call takes something away, and the environment's add nothing.
RunsDown == [][Left' <= Left /\ (CallStep => Left' < Left)]_vars

\* A comparison that is answered while there is room takes more room than it adds.
LEMMA LoadFacts ==
  ASSUME NEW c \in Context
  PROVE  /\ Len(c.proofs) \in Nat /\ Load(c) \in Nat /\ Len(c.proofs) <= Load(c)
         /\ \A k \in Context : k.proofs = c.proofs => Load(k) = Load(c)
         /\ \A k \in Context, h \in Handle : k.proofs = Append(c.proofs, h) =>
              /\ Load(k) <= Load(c) + 1
              /\ Len(c.proofs) < MaxHandles => Load(k) < Load(c)
              /\ Len(c.proofs) <= Len(k.proofs)
<1>1. c.proofs \in Seq(Handle) /\ MaxHandles \in Nat
  BY CallsAssumption DEF Context, ContextType
<1>2. Len(c.proofs) \in Nat BY <1>1
<1>3. \A h \in Handle : Len(Append(c.proofs, h)) = Len(c.proofs) + 1 BY <1>1
<1>4. \A n \in Nat : LET room == IF n < MaxHandles THEN MaxHandles - n ELSE 0 IN 2 * room + n \in Nat /\ n <= 2 * room + n
  BY <1>1
<1>5. Load(c) \in Nat /\ Len(c.proofs) <= Load(c) BY <1>2, <1>4 DEF Load, Room
<1>6. \A k \in Context : k.proofs = c.proofs => Load(k) = Load(c) BY DEF Load, Room
<1>7. ASSUME NEW k \in Context, NEW h \in Handle, k.proofs = Append(c.proofs, h)
      PROVE  /\ Load(k) <= Load(c) + 1
             /\ Len(c.proofs) < MaxHandles => Load(k) < Load(c)
             /\ Len(c.proofs) <= Len(k.proofs)
  <2>1. Len(k.proofs) = Len(c.proofs) + 1 BY <1>3, <1>7
  <2> DEFINE n == Len(c.proofs)
  <2>2. CASE n < MaxHandles
    <3>1. Load(c) = 2 * (MaxHandles - n) + n BY <2>2 DEF Load, Room
    <3>2. Load(k) = 2 * (MaxHandles - (n + 1)) + n + 1
      <4>1. CASE n + 1 < MaxHandles BY <1>1, <1>2, <2>1, <4>1 DEF Load, Room
      <4>2. CASE ~(n + 1 < MaxHandles)
        <5>1. MaxHandles - (n + 1) = 0 BY <1>1, <1>2, <2>2, <4>2
        <5>2. Room(k) = 0 BY <2>1, <4>2 DEF Room
        <5>3. QED BY <1>1, <1>2, <2>1, <5>1, <5>2 DEF Load
      <4>3. QED BY <4>1, <4>2
    <3> HIDE DEF n
    <3>3. QED BY <1>1, <1>2, <2>1, <3>1, <3>2 DEF n
  <2>3. CASE ~(n < MaxHandles)
    <3>1. Load(c) = n BY <1>2, <2>3 DEF Load, Room
    <3>2. ~(n + 1 < MaxHandles) BY <1>1, <1>2, <2>3
    <3>3. Load(k) = n + 1 BY <1>2, <2>1, <3>2 DEF Load, Room
    <3>4. QED BY <1>2, <2>1, <2>3, <3>1, <3>3
  <2>4. QED BY <2>2, <2>3
<1>8. QED BY <1>2, <1>5, <1>6, <1>7

\* What the arithmetic of the measure needs to know of a state.
LEMMA MeasureType ==
  ASSUME TypeOK
  PROVE  /\ \A d \in {0, 1} : /\ at[d] \in Nat /\ Boundary(d) \in Nat /\ ctx[d] \in Context
                              /\ Load(ctx[d]) \in Nat /\ Len(ctx[d].proofs) \in Nat
                              /\ Len(ctx[d].proofs) <= Load(ctx[d])
                              /\ FrameWork(d) = 2 * (Boundary(d) - at[d]) + Load(ctx[d])
                              /\ FrameWork(d) \in Int
         /\ depth \in {0, 1} /\ checked \in Nat
         /\ MemberWork \in Nat /\ MemberWork * (MaxMembers - member) \in Nat
         /\ Boundary(1) = Len(OverlayPlan) + 1
         /\ MaxHandles \in Nat /\ MaxMembers - member \in Nat
<1>1. ASSUME NEW d \in {0, 1}
      PROVE /\ at[d] \in Nat /\ Boundary(d) \in Nat /\ ctx[d] \in Context
            /\ Load(ctx[d]) \in Nat /\ Len(ctx[d].proofs) \in Nat
            /\ Len(ctx[d].proofs) <= Load(ctx[d])
            /\ FrameWork(d) = 2 * (Boundary(d) - at[d]) + Load(ctx[d])
            /\ FrameWork(d) \in Int
  <2>1. at[d] \in Nat /\ ctx[d] \in Context BY DEF TypeOK, Context
  <2>2. Boundary(d) \in Nat BY BoundaryType
  <2>3. Load(ctx[d]) \in Nat /\ Len(ctx[d].proofs) \in Nat /\ Len(ctx[d].proofs) <= Load(ctx[d])
    BY <2>1, LoadFacts
  <2>4. QED BY <2>1, <2>2, <2>3 DEF FrameWork
<1>2. MaxHandles \in Nat /\ MaxMembers \in Nat BY CallsAssumption
<1>3. Len(OverlayPlan) \in Nat BY OverlayPlanType
<1>4. MemberWork \in Nat BY <1>2, <1>3 DEF MemberWork
<1>5. MaxMembers - member \in Nat BY <1>2 DEF TypeOK
<1>6. MemberWork * (MaxMembers - member) \in Nat
  <2> DEFINE a == MemberWork   b == MaxMembers - member
  <2>1. a \in Nat /\ b \in Nat BY <1>4, <1>5
  <2> HIDE DEF a, b
  <2>2. a * b \in Nat BY <2>1
  <2>3. QED BY <2>2 DEF a, b
<1>7. Boundary(1) = Len(OverlayPlan) + 1 BY DEF Boundary, Kind, Plan
<1>8. depth \in {0, 1} /\ checked \in Nat BY DEF TypeOK
<1>9. QED BY <1>1, <1>2, <1>4, <1>5, <1>6, <1>7, <1>8

\* Whatever is left to be checked again is part of a frame's work.
LEMMA Reserve ==
  ASSUME TypeOK, InBounds, result = Pending
  PROVE  /\ \A d \in {0, 1} : FrameWork(d) \in Int /\ Load(ctx[d]) \in Nat /\ FrameWork(d) >= Load(ctx[d])
         /\ depth \in {0, 1} /\ checked \in Nat /\ checked <= Load(ctx[depth])
<1>1. \A d \in {0, 1} : at[d] <= Boundary(d) BY DEF InBounds
<1>2. ASSUME NEW d \in {0, 1}
      PROVE  FrameWork(d) \in Int /\ Load(ctx[d]) \in Nat /\ FrameWork(d) >= Load(ctx[d])
  <2>1. /\ at[d] \in Nat /\ Boundary(d) \in Nat /\ Load(ctx[d]) \in Nat
        /\ FrameWork(d) = 2 * (Boundary(d) - at[d]) + Load(ctx[d])
    BY MeasureType
  <2>2. QED BY <1>1, <2>1
<1>3. depth \in {0, 1} /\ checked \in Nat BY MeasureType
<1>4. Len(ctx[depth].proofs) <= Load(ctx[depth]) /\ Len(ctx[depth].proofs) \in Nat /\ Load(ctx[depth]) \in Nat
  BY <1>3, MeasureType
<1>5. checked <= Len(ctx[depth].proofs) BY DEF InBounds, Current
<1>6. QED BY <1>2, <1>3, <1>4, <1>5

\* Whatever goes on is worth more than one handle, and what stays loses room.
LEMMA LessWork ==
  ASSUME NEW b \in Nat, NEW i \in Nat, NEW j \in Nat, NEW l \in Nat, NEW m \in Nat,
         (i < j /\ m <= l + 1) \/ (i = j /\ m < l)
  PROVE  2 * (b - j) + m < 2 * (b - i) + l
OBVIOUS

\* What is left is a natural number.
LEMMA LeftType == ASSUME TypeOK, InBounds PROVE Left \in Nat
<1>1. CASE result = Pending
  <2> DEFINE P == MemberWork * (MaxMembers - member)
  <2>1. P \in Nat BY MeasureType
  <2>2. /\ FrameWork(0) >= Load(ctx[0]) /\ FrameWork(1) >= Load(ctx[1])
        /\ FrameWork(0) \in Int /\ FrameWork(1) \in Int
        /\ Load(ctx[0]) \in Nat /\ Load(ctx[1]) \in Nat
    BY <1>1, Reserve
  <2>3. checked \in Nat /\ checked <= Load(ctx[depth]) /\ depth \in {0, 1}
    BY <1>1, Reserve
  <2>4. Left = 1 + P + FrameWork(0) + (IF depth = 1 THEN 1 + FrameWork(1) ELSE 0) - checked
    BY <1>1 DEF Left
  <2> HIDE DEF P
  <2>5. CASE depth = 0 BY <2>1, <2>2, <2>3, <2>4, <2>5
  <2>6. CASE depth = 1 BY <2>1, <2>2, <2>3, <2>4, <2>6
  <2>7. QED BY <2>3, <2>5, <2>6
<1>2. CASE result # Pending BY <1>2 DEF Left
<1>3. QED BY <1>1, <1>2

\* A stage goes on, skips to the end or has a comparison answered.
LEMMA StageRuns ==
  ASSUME TypeOK, InBounds, StageStep PROVE InBounds' /\ Left' \in Int /\ Left' < Left
<1>0. TypeOK' BY StageType
<1>1. PICK k : Moves(k) BY StageMoves
<1>2. /\ ctx' = [ctx EXCEPT ![depth] = k]
      /\ UNCHANGED <<scope, depth, member, checked, result>>
  BY <1>1, OnwardType
<1>3. /\ k \in Context /\ Current = ctx[depth] /\ depth \in {0, 1} /\ Current \in Context
      /\ result = Pending /\ at[depth] < Boundary(depth) /\ checked = 0
  BY <1>1, CurrentType DEF Moves, Grown, InBounds, TypeOK, Current
<1>4. \A d \in {0, 1} : Boundary(d)' = Boundary(d)
  BY <1>2 DEF Boundary, Kind
<1>5. ctx'[depth] = k /\ \A d \in {0, 1} : d # depth => ctx'[d] = ctx[d]
  BY <1>2 DEF TypeOK
<1>6. \/ at' = [at EXCEPT ![depth] = @ + 1]
      \/ at' = [at EXCEPT ![depth] = Boundary(depth)]
      \/ at' = at /\ Len(Current.proofs) < MaxHandles /\ \E h \in Handle : k.proofs = Append(Current.proofs, h)
  BY <1>1 DEF Moves, Onward, Proceed, Stop
<1>7. \/ k.proofs = Current.proofs
      \/ \E h \in Handle : k.proofs = Append(Current.proofs, h)
  BY <1>1 DEF Moves, Holds
<1>8. /\ Load(k) <= Load(Current) + 1 /\ Load(k) \in Nat /\ Load(Current) \in Nat
      /\ Len(Current.proofs) <= Len(k.proofs)
      /\ Len(Current.proofs) < MaxHandles /\ (\E h \in Handle : k.proofs = Append(Current.proofs, h))
           => Load(k) < Load(Current)
  BY <1>3, <1>7, LoadFacts
<1>9. /\ \A d \in {0, 1} : d # depth => at'[d] = at[d]
      /\ at'[depth] <= Boundary(depth)
      /\ 2 * (Boundary(depth) - at'[depth]) + Load(k) < 2 * (Boundary(depth) - at[depth]) + Load(Current)
  <2>1. at[depth] \in Nat /\ Boundary(depth) \in Nat BY <1>3, MeasureType
  <2>2. at \in [{0, 1} -> Nat \ {0}] BY DEF TypeOK
  <2>3. CASE at' = [at EXCEPT ![depth] = @ + 1]
    <3>1. at'[depth] = at[depth] + 1 /\ \A d \in {0, 1} : d # depth => at'[d] = at[d] BY <1>3, <2>2, <2>3
    <3>2. at'[depth] \in Nat /\ at[depth] < at'[depth] /\ at'[depth] <= Boundary(depth) BY <1>3, <2>1, <3>1
    <3>3. 2 * (Boundary(depth) - at'[depth]) + Load(k) < 2 * (Boundary(depth) - at[depth]) + Load(Current)
      BY <1>8, <2>1, <3>2, LessWork
    <3>4. QED BY <3>1, <3>2, <3>3
  <2>4. CASE at' = [at EXCEPT ![depth] = Boundary(depth)]
    <3>1. at'[depth] = Boundary(depth) /\ \A d \in {0, 1} : d # depth => at'[d] = at[d] BY <1>3, <2>2, <2>4
    <3>2. at'[depth] \in Nat /\ at[depth] < at'[depth] /\ at'[depth] <= Boundary(depth) BY <1>3, <2>1, <3>1
    <3>3. 2 * (Boundary(depth) - at'[depth]) + Load(k) < 2 * (Boundary(depth) - at[depth]) + Load(Current)
      BY <1>8, <2>1, <3>2, LessWork
    <3>4. QED BY <3>1, <3>2, <3>3
  <2>5. CASE at' = at /\ Len(Current.proofs) < MaxHandles /\ \E h \in Handle : k.proofs = Append(Current.proofs, h)
    <3>1. at'[depth] = at[depth] /\ \A d \in {0, 1} : d # depth => at'[d] = at[d] BY <2>5
    <3>2. Load(k) < Load(Current) BY <1>8, <2>5
    <3>3. at'[depth] \in Nat /\ at'[depth] <= Boundary(depth) BY <1>3, <2>1, <3>1
    <3>4. 2 * (Boundary(depth) - at'[depth]) + Load(k) < 2 * (Boundary(depth) - at[depth]) + Load(Current)
      BY <1>8, <2>1, <3>1, <3>2, <3>3, LessWork
    <3>5. QED BY <3>1, <3>3, <3>4
  <2>6. QED BY <1>6, <2>3, <2>4, <2>5
<1>10. InBounds'
  <2>1. checked' = 0 /\ result' = Pending /\ depth' = depth BY <1>2, <1>3
  <2>2. \A d \in {0, 1} : at'[d] <= Boundary(d)' BY <1>3, <1>4, <1>9 DEF InBounds
  <2>3. Len(ctx'[depth].proofs) \in Nat BY <1>3, <1>5, LoadFacts
  <2>4. QED BY <2>1, <2>2, <2>3 DEF InBounds, Current
<1>11. \A d \in {0, 1} : IF d = depth THEN FrameWork(d)' < FrameWork(d) ELSE FrameWork(d)' = FrameWork(d)
  <2>1. \A d \in {0, 1} : FrameWork(d)' = 2 * (Boundary(d) - at'[d]) + Load(ctx'[d])
    BY <1>4 DEF FrameWork, Load, Room
  <2>2. \A d \in {0, 1} : FrameWork(d) = 2 * (Boundary(d) - at[d]) + Load(ctx[d])
    BY DEF FrameWork
  <2>3. QED BY <1>2, <1>3, <1>5, <1>9, <2>1, <2>2
<1>12. Left' \in Int /\ Left' < Left
  <2> DEFINE P == MemberWork * (MaxMembers - member)
  <2>1. /\ P \in Nat /\ \A d \in {0, 1} : FrameWork(d) \in Int
    BY MeasureType
  <2>2. \A d \in {0, 1} : FrameWork(d)' \in Int
    <3>1. SUFFICES ASSUME NEW d \in {0, 1} PROVE FrameWork(d)' \in Int OBVIOUS
    <3>2. ctx'[d] \in Context /\ at'[d] \in Nat BY <1>0 DEF TypeOK, Context
    <3>3. Load(ctx'[d]) \in Nat /\ Boundary(d) \in Nat BY <3>2, LoadFacts, MeasureType
    <3>4. FrameWork(d)' = 2 * (Boundary(d) - at'[d]) + Load(ctx'[d]) BY <1>4 DEF FrameWork, Load, Room
    <3>5. QED BY <3>2, <3>3, <3>4
  <2>3. Left = 1 + P + FrameWork(0) + (IF depth = 1 THEN 1 + FrameWork(1) ELSE 0)
    BY <1>3, <2>1 DEF Left
  <2>4. Left' = 1 + P + FrameWork(0)' + (IF depth = 1 THEN 1 + FrameWork(1)' ELSE 0)
    BY <1>2, <1>3, <2>1, <2>2 DEF Left
  <2> HIDE DEF P
  <2>5. CASE depth = 0 BY <1>11, <2>1, <2>2, <2>3, <2>4, <2>5
  <2>6. CASE depth = 1 BY <1>11, <2>1, <2>2, <2>3, <2>4, <2>6
  <2>7. QED BY <1>3, <2>5, <2>6
<1>13. QED BY <1>10, <1>12

\* A member takes more from the members that are left than its frame can need.
LEMMA EnterRuns ==
  ASSUME TypeOK, InBounds, EnterMember PROVE InBounds' /\ Left' \in Int /\ Left' < Left
<1>0. TypeOK' BY EnterType
<1>1. /\ depth = 0 /\ depth' = 1 /\ member' = member + 1
      /\ ctx' = [ctx EXCEPT ![1] = NewContext]
      /\ at' = [at EXCEPT ![1] = 1] /\ checked' = 0
      /\ UNCHANGED <<scope, members, result>>
      /\ result = Pending /\ at[0] < Boundary(0)
  BY DEF EnterMember, Here
<1>2. checked = 0 BY <1>1 DEF InBounds
<1>3. ctx'[0] = ctx[0] /\ ctx'[1] = NewContext /\ at'[0] = at[0] /\ at'[1] = 1
  BY <1>1 DEF TypeOK
<1>4. \A d \in {0, 1} : Boundary(d)' = Boundary(d) BY <1>1 DEF Boundary, Kind
<1>5. /\ Boundary(1) = Len(OverlayPlan) + 1 /\ MaxHandles \in Nat /\ Boundary(1) \in Nat
      /\ MaxMembers - member \in Nat /\ MemberWork \in Nat
  BY MeasureType
<1>6. Len(OverlayPlan) \in Nat BY OverlayPlanType
<1>7. Load(NewContext) = 2 * MaxHandles
  <2>1. Len(NewContext.proofs) = 0 BY NewFacts
  <2>2. QED BY <1>5, <2>1 DEF Load, Room
<1>8. FrameWork(0)' = FrameWork(0) BY <1>3, <1>4 DEF FrameWork, Load, Room
<1>9. FrameWork(1)' = MemberWork - 2
  <2>1. FrameWork(1)' = 2 * (Boundary(1) - 1) + Load(NewContext) BY <1>3, <1>4 DEF FrameWork, Load, Room
  <2>2. QED BY <1>5, <1>6, <1>7, <2>1 DEF MemberWork
<1>10. MemberWork * (MaxMembers - member') = MemberWork * (MaxMembers - member) - MemberWork
  <2> DEFINE a == MemberWork   b == MaxMembers - member
  <2>1. a \in Nat /\ b \in Nat /\ MaxMembers - member' = b - 1
    BY <1>1, <1>5, CallsAssumption DEF TypeOK
  <2> HIDE DEF a, b
  <2>2. a * (b - 1) = a * b - a BY <2>1
  <2>3. QED BY <2>1, <2>2 DEF a, b
<1>11. Left' \in Int /\ Left' < Left
  <2> DEFINE P == MemberWork * (MaxMembers - member)   Q == MemberWork * (MaxMembers - member')
  <2>1. P \in Nat /\ FrameWork(0) \in Int /\ MemberWork \in Nat BY MeasureType
  <2>2. Left = 1 + P + FrameWork(0) + 0 - 0 BY <1>1, <1>2 DEF Left
  <2>3. Left' = 1 + Q + FrameWork(0)' + (1 + FrameWork(1)') - 0 BY <1>1 DEF Left, MemberWork
  <2>4. Q = P - MemberWork BY <1>10
  <2> HIDE DEF P, Q
  <2>5. QED BY <1>8, <1>9, <2>1, <2>2, <2>3, <2>4
<1>12. InBounds'
  <2>1. at'[0] <= Boundary(0)' /\ at'[1] <= Boundary(1)'
    BY <1>1, <1>3, <1>4, <1>5, <1>6, BoundaryType DEF TypeOK
  <2>2. Len(Current.proofs)' = 0 BY <1>1, <1>3, NewFacts DEF Current
  <2>3. QED BY <1>1, <2>1, <2>2 DEF InBounds
<1>13. QED BY <1>11, <1>12

\* A re-check uses up one of the handles to be re-checked.
LEMMA RecheckRuns ==
  ASSUME TypeOK, InBounds, RecheckHandle PROVE InBounds' /\ Left' \in Int /\ Left' < Left
<1>0. TypeOK' BY RecheckType
<1>1. /\ result = Pending /\ at[depth] = Boundary(depth) /\ checked < Len(Current.proofs)
      /\ checked' = checked + 1
      /\ UNCHANGED <<scope, at, depth, member, result>>
  BY DEF RecheckHandle, AtBoundary
<1>2. PICK k : Dented(Current, k) /\ ctx' = [ctx EXCEPT ![depth] = k] BY RecheckFacts
<1>3. depth \in {0, 1} /\ \A d \in {0, 1} : ctx'[d].proofs = ctx[d].proofs
  BY <1>2 DEF TypeOK, Current, Dented, Worn
<1>4. \A d \in {0, 1} : Boundary(d)' = Boundary(d) /\ at'[d] = at[d] BY <1>1 DEF Boundary, Kind
<1>5. \A d \in {0, 1} : FrameWork(d)' = FrameWork(d)
  BY <1>3, <1>4 DEF FrameWork, Load, Room
<1>6. Left' = Left - 1
  <2> DEFINE P == MemberWork * (MaxMembers - member)
             W == FrameWork(0) + (IF depth = 1 THEN 1 + FrameWork(1) ELSE 0)
  <2>1. P \in Nat /\ FrameWork(0) \in Int /\ FrameWork(1) \in Int /\ checked \in Nat BY MeasureType
  <2>2. Left = 1 + P + FrameWork(0) + (IF depth = 1 THEN 1 + FrameWork(1) ELSE 0) - checked
    BY <1>1 DEF Left
  <2>3. Left' = 1 + P + FrameWork(0) + (IF depth = 1 THEN 1 + FrameWork(1) ELSE 0) - (checked + 1)
    BY <1>1, <1>5 DEF Left, MemberWork
  <2> HIDE DEF P
  <2>4. QED BY <2>1, <2>2, <2>3
<1>7. InBounds'
  <2>1. at'[0] <= Boundary(0)' /\ at'[1] <= Boundary(1)' BY <1>1, <1>4 DEF InBounds
  <2>2. Len(Current.proofs)' = Len(Current.proofs) BY <1>1, <1>3 DEF Current
  <2>3. checked \in Nat /\ Len(Current.proofs) \in Nat BY <1>3, MeasureType DEF Current
  <2>4. at'[depth'] = Boundary(depth)' /\ Boundary(depth)' \in Nat
    <3>1. Boundary(depth)' = Boundary(depth) BY <1>1 DEF Boundary, Kind
    <3>2. QED BY <1>1, <1>3, <3>1, MeasureType
  <2>5. QED BY <1>1, <2>1, <2>2, <2>3, <2>4 DEF InBounds
<1>8. QED BY <1>6, <1>7, LeftType

\* The end of a nested call uses up the nested frame.
LEMMA ReturnRuns ==
  ASSUME TypeOK, InBounds, ConcludeMember PROVE InBounds' /\ Left' \in Int /\ Left' < Left
<1>0. TypeOK' BY ReturnType
<1>1. /\ result = Pending /\ depth = 1 /\ checked = Len(ctx[1].proofs) /\ at[1] = Boundary(1)
      /\ depth' = 0 /\ checked' = 0
      /\ UNCHANGED <<scope, member, result>>
  BY DEF ConcludeMember, Finished, AtBoundary, Current
<1>2. PICK c : Worn(ctx[0], c) /\ ctx' = [d \in {0, 1} |-> IF d = 0 THEN c ELSE NewContext]
  BY ReturnFacts
<1>3. at'[0] \in {at[0], Boundary(0)} /\ at'[1] = 1
  <2>1. \/ at' = [d \in {0, 1} |-> IF d = 0 THEN at[0] ELSE 1]
        \/ at' = [d \in {0, 1} |-> IF d = 0 THEN Boundary(0) ELSE 1]
    BY Zenon DEF ConcludeMember
  <2>2. QED BY <2>1
<1>4. ctx'[0].proofs = ctx[0].proofs BY <1>2 DEF Worn
<1>5. \A d \in {0, 1} : Boundary(d)' = Boundary(d) BY <1>1 DEF Boundary, Kind
<1>6. at[0] \in Nat /\ Boundary(0) \in Nat /\ at[0] <= Boundary(0) /\ Load(ctx[0]) \in Nat
  BY <1>1, MeasureType DEF InBounds
<1>7. FrameWork(0)' <= FrameWork(0) /\ FrameWork(0)' \in Int /\ at'[0] <= Boundary(0)'
  <2>1. FrameWork(0)' = 2 * (Boundary(0) - at'[0]) + Load(ctx[0])
    BY <1>4, <1>5 DEF FrameWork, Load, Room
  <2>2. QED BY <1>3, <1>5, <1>6, <2>1 DEF FrameWork
<1>8. FrameWork(1) >= checked /\ checked \in Nat /\ FrameWork(1) \in Int
  BY <1>1, MeasureType
<1>9. Left' \in Int /\ Left' < Left
  <2> DEFINE P == MemberWork * (MaxMembers - member)
  <2>1. P \in Nat /\ FrameWork(0) \in Int BY MeasureType
  <2>2. Left = 1 + P + FrameWork(0) + (1 + FrameWork(1)) - checked BY <1>1 DEF Left
  <2>3. Left' = 1 + P + FrameWork(0)' BY <1>1, <1>7, <2>1 DEF Left, MemberWork
  <2> HIDE DEF P
  <2>4. QED BY <1>7, <1>8, <2>1, <2>2, <2>3
<1>10. InBounds'
  <2>1. 1 <= Boundary(1)' BY <1>5, MeasureType, OverlayPlanType
  <2>2. Len(Current.proofs)' \in Nat BY <1>1, <1>4, MeasureType DEF Current
  <2>3. QED BY <1>1, <1>3, <1>7, <2>1, <2>2 DEF InBounds
<1>11. QED BY <1>9, <1>10

\* The verdict leaves nothing to do.
LEMMA ConcludeRuns ==
  ASSUME TypeOK, InBounds, Conclude PROVE InBounds' /\ Left' \in Int /\ Left' < Left
<1>1. result = Pending /\ depth = 0 /\ checked = Len(ctx[0].proofs) /\ result' = Result(Current)
  BY DEF Conclude, Finished, AtBoundary, Current
<1>2. result' # Pending BY <1>1 DEF Result, Verdict, Pending
<1>3. Left' = 0 /\ InBounds' BY <1>2 DEF Left, InBounds
<1>4. Left > 0
  <2> DEFINE P == MemberWork * (MaxMembers - member)
  <2>1. P \in Nat BY MeasureType
  <2>2. FrameWork(0) \in Int /\ FrameWork(0) >= checked /\ checked \in Nat
    BY <1>1, Reserve
  <2>3. Left = 1 + P + FrameWork(0) + 0 - checked BY <1>1 DEF Left
  <2> HIDE DEF P
  <2>4. QED BY <2>1, <2>2, <2>3
<1>5. QED BY <1>3, <1>4

\* What the environment changes is no part of the measure.
LEMMA IdleRuns ==
  ASSUME TypeOK, InBounds, UNCHANGED control PROVE InBounds' /\ Left' = Left
<1>1. UNCHANGED <<scope, ctx, at, depth, member, checked, result>> BY DEF control
<1>2. \A d \in {0, 1} : Boundary(d)' = Boundary(d) BY <1>1 DEF Boundary, Kind
<1>3. \A d \in {0, 1} : FrameWork(d)' = FrameWork(d) BY <1>1, <1>2 DEF FrameWork, Load, Room
<1>4. Left' = Left BY <1>1, <1>3 DEF Left, MemberWork
<1>5. Current' = Current /\ Boundary(depth)' = Boundary(depth) BY <1>1 DEF Current, Boundary, Kind
<1>6. QED BY <1>1, <1>2, <1>4, <1>5 DEF InBounds

\* Every step keeps the bounds, and those of the call take something away.
LEMMA NextRuns ==
  ASSUME TypeOK, InBounds, [Next]_vars
  PROVE  InBounds' /\ Left' <= Left /\ (CallStep => Left' < Left)
<1>1. Left \in Nat BY LeftType
<1>2. CASE CallStep
  <2>1. StageStep \/ EnterMember \/ RecheckHandle \/ ConcludeMember \/ Conclude
    BY <1>2 DEF CallStep, StageStep
  <2>2. InBounds' /\ Left' \in Int /\ Left' < Left
    BY <2>1, StageRuns, EnterRuns, RecheckRuns, ReturnRuns, ConcludeRuns
  <2>3. QED BY <1>1, <2>2
<1>3. CASE ~CallStep
  <2>1. (\E object \in Object : MutateOperand(object)) \/ UNCHANGED vars BY <1>3 DEF Next
  <2>2. UNCHANGED control BY <2>1 DEF MutateOperand, vars
  <2>3. QED BY <1>1, <1>3, <2>2, IdleRuns
<1>4. QED BY <1>2, <1>3

\* The bounds hold at first.
LEMMA InitRuns == ASSUME Init PROVE TypeOK /\ InBounds
<1>1. TypeOK BY InitType
<1>2. at[0] = 1 /\ at[1] = 1 /\ checked = 0 /\ depth = 0 BY DEF Init
<1>3. \A d \in {0, 1} : Plan(Kind(d)) \in Seq(Subject \X StageName) BY <1>1, BoundaryType
<1>4. \A d \in {0, 1} : 1 <= Boundary(d) BY <1>3 DEF Boundary
<1>5. Len(ctx[0].proofs) \in Nat BY <1>1, MeasureType
<1>6. QED BY <1>1, <1>2, <1>4, <1>5 DEF InBounds, Current

\* A call takes at most as many steps as its plans, the members of its snapshot
\* and the handles it holds allow, whatever the provider answers and whatever
\* somebody changes meanwhile: each of its steps takes something away from a
\* natural number, and nobody else adds to it (the pipelines, the loop over the
\* members and the one loop of _finish_result).
THEOREM CallsRunDown == Spec => [](Left \in Nat) /\ RunsDown
<1>1. Init => TypeOK /\ InBounds BY InitRuns
<1>2. TypeOK /\ InBounds /\ [Next]_vars => (TypeOK /\ InBounds)' BY NextType, NextRuns
<1>3. TypeOK /\ InBounds /\ [Next]_vars => [Left' <= Left /\ (CallStep => Left' < Left)]_vars
  BY NextRuns
<1>4. TypeOK /\ InBounds => Left \in Nat BY LeftType
<1>5. QED BY <1>1, <1>2, <1>3, <1>4, PTL DEF Spec, RunsDown

-----------------------------------------------------------------------------
\* Nothing in a call waits: some guard of a pending call holds.
StepReady ==
  result = Pending =>
    \/ \E stage \in StageName \ {"members"} : Here(stage)
    \/ Here("members") /\ depth = 0 /\ member <= members
    \/ AtBoundary /\ checked <= Len(Current.proofs)

\* No member is entered before the snapshot that holds it is consumed.
Snapshot ==
  /\ member <= members
  /\ \A i \in DOMAIN Plan(Kind(0)) :
       i >= at[0] /\ Plan(Kind(0))[i][2] = "snapshot" => member = 0

\* A plan without a host snapshot and its members.
Local(p) == \A i \in DOMAIN p : p[i][2] \notin {"snapshot", "members"}

\* Preparing an operand does not touch the host.
LEMMA PrepareLocal == ASSUME NEW s \in Subject PROVE Local(Prepare(s))
<1>1. DOMAIN Prepare(s) = 1 .. 3 /\ Prepare(s)[1][2] = "shape" /\ Prepare(s)[2][2] = "input"
      /\ Prepare(s)[3][2] = "arrays"
  BY DEF Prepare
<1>2. QED BY <1>1 DEF Local

\* Nor does a single stage that is none of the snapshot's.
LEMMA OneLocal ==
  ASSUME NEW s \in Subject, NEW stage \in StageName \ {"snapshot", "members"}
  PROVE  Local(<< <<s, stage>> >>)
BY DEF Local

\* Nor do two lists of which neither does.
LEMMA JoinedLocal ==
  ASSUME NEW p \in Seq(Subject \X StageName), NEW q \in Seq(Subject \X StageName), Local(p), Local(q)
  PROVE  Local(p \o q)
<1>1. SUFFICES ASSUME NEW i \in DOMAIN (p \o q) PROVE (p \o q)[i][2] \notin {"snapshot", "members"}
  BY DEF Local
<1>2. i \in 1 .. Len(p) + Len(q) BY <1>1
<1>3. CASE i <= Len(p)
  <2>1. i \in DOMAIN p /\ (p \o q)[i] = p[i] BY <1>2, <1>3
  <2>2. QED BY <2>1 DEF Local
<1>4. CASE i > Len(p)
  <2>1. i - Len(p) \in DOMAIN q /\ (p \o q)[i] = q[i - Len(p)] BY <1>2, <1>4
  <2>2. QED BY <2>1 DEF Local
<1>5. QED BY <1>2, <1>3, <1>4

\* A bundle's plan has no snapshot.
LEMMA BundleLocal == Local(BundlePlan)
<1>1. "bundle" \in Subject /\ "relations" \in StageName \ {"snapshot", "members"} BY DEF Subject, StageName
<1>2. Prepare("bundle") \in Seq(Subject \X StageName) /\ << <<"bundle", "relations">> >> \in Seq(Subject \X StageName)
  BY <1>1, PrepareType, Singleton
<1>3. QED BY <1>1, <1>2, PrepareLocal, OneLocal, JoinedLocal DEF BundlePlan

\* Nor has an overlay's.
LEMMA OverlayLocal == Local(OverlayPlan)
<1>1. "overlay" \in Subject /\ "individual" \in StageName \ {"snapshot", "members"} BY DEF Subject, StageName
<1>2. Prepare("overlay") \in Seq(Subject \X StageName) /\ << <<"overlay", "individual">> >> \in Seq(Subject \X StageName)
  BY <1>1, PrepareType, Singleton
<1>3. Prepare("overlay") \o BundlePlan \in Seq(Subject \X StageName) /\ Local(Prepare("overlay") \o BundlePlan)
  BY <1>1, <1>2, BundlePlanType, PrepareLocal, BundleLocal, JoinedLocal, Joined
<1>4. QED BY <1>1, <1>2, <1>3, OneLocal, JoinedLocal DEF OverlayPlan

\* The members of a snapshot come after it.
Ordered(p) ==
  \A i, j \in DOMAIN p : p[i][2] = "members" /\ p[j][2] = "snapshot" => j < i

\* Without a snapshot there is nothing to order.
LEMMA LocalOrdered == ASSUME NEW p, Local(p) PROVE Ordered(p)
BY DEF Local, Ordered

\* Stages before and after that have no snapshot do not disturb the order.
LEMMA PaddedOrdered ==
  ASSUME NEW p \in Seq(Subject \X StageName), NEW q \in Seq(Subject \X StageName),
         NEW r \in Seq(Subject \X StageName), Local(p), Ordered(q), Local(r)
  PROVE  Ordered(p \o q \o r)
<1> DEFINE w == p \o q \o r   m == Len(p)   n == Len(q)
<1>1. p \o q \in Seq(Subject \X StageName) /\ Len(p \o q) = m + n BY Joined
<1>2. DOMAIN w = 1 .. m + n + Len(r) BY <1>1
<1>3. ASSUME NEW i \in DOMAIN w, w[i][2] \in {"members", "snapshot"}
      PROVE  i - m \in DOMAIN q /\ w[i] = q[i - m]
  <2>1. CASE i <= m
    <3>1. w[i] = p[i] /\ i \in DOMAIN p BY <1>1, <1>2, <2>1
    <3>2. QED BY <1>3, <3>1 DEF Local
  <2>2. CASE i > m + n
    <3>1. w[i] = r[i - (m + n)] /\ i - (m + n) \in DOMAIN r BY <1>1, <1>2, <2>2
    <3>2. QED BY <1>3, <3>1 DEF Local
  <2>3. CASE i > m /\ i <= m + n
    <3>1. w[i] = (p \o q)[i] BY <1>1, <1>2, <2>3
    <3>2. (p \o q)[i] = q[i - m] /\ i - m \in DOMAIN q BY <1>2, <2>3
    <3>3. QED BY <3>1, <3>2
  <2>4. QED BY <1>2, <2>1, <2>2, <2>3
<1>4. m \in Nat /\ \A i \in DOMAIN w : i \in Nat BY <1>2
<1> HIDE DEF w, m, n
<1>5. SUFFICES ASSUME NEW i \in DOMAIN w, NEW j \in DOMAIN w, w[i][2] = "members", w[j][2] = "snapshot"
               PROVE  j < i
  BY DEF Ordered, w
<1>6. i - m \in DOMAIN q /\ j - m \in DOMAIN q /\ w[i] = q[i - m] /\ w[j] = q[j - m] BY <1>3, <1>5
<1>7. j - m < i - m BY <1>5, <1>6 DEF Ordered
<1>8. QED BY <1>4, <1>7

\* In every plan the members come after their snapshot.
LEMMA PlanOrdered == ASSUME NEW kind \in AllScopes PROVE Ordered(Plan(kind))
<1> DEFINE T == Subject \X StageName
<1>1. Ordered(InventoryPlan)
  <2>1. /\ DOMAIN InventoryPlan = 1 .. 4 /\ InventoryPlan[1][2] = "snapshot" /\ InventoryPlan[2][2] = "members"
        /\ InventoryPlan[3][2] = "roots" /\ InventoryPlan[4][2] = "union"
    BY DEF InventoryPlan
  <2>2. QED BY <2>1 DEF Ordered
<1>2. Ordered(ContractPlan)
  <2> DEFINE tail == << <<"overlay", "membership">>, <<"contract", "bindings">>,
                        <<"contract", "baseline">>, <<"contract", "consistency">>,
                        <<"contract", "plan">>, <<"contract", "chronology">> >>
             head == Prepare("contract") \o BundlePlan \o Prepare("overlay") \o << <<"overlay", "individual">> >>
  <2>1. "contract" \in Subject /\ "overlay" \in Subject /\ "individual" \in StageName \ {"snapshot", "members"}
    BY DEF Subject, StageName
  <2>2. /\ Prepare("contract") \in Seq(T) /\ Prepare("overlay") \in Seq(T) /\ BundlePlan \in Seq(T)
        /\ Local(Prepare("contract")) /\ Local(Prepare("overlay")) /\ Local(BundlePlan)
    BY <2>1, PrepareType, PrepareLocal, BundlePlanType, BundleLocal
  <2>3. << <<"overlay", "individual">> >> \in Seq(T) /\ Local(<< <<"overlay", "individual">> >>)
    BY <2>1, Singleton, OneLocal
  <2>4. Prepare("contract") \o BundlePlan \in Seq(T) /\ Local(Prepare("contract") \o BundlePlan)
    BY <2>2, Joined, JoinedLocal
  <2>5. /\ Prepare("contract") \o BundlePlan \o Prepare("overlay") \in Seq(T)
        /\ Local(Prepare("contract") \o BundlePlan \o Prepare("overlay"))
    BY <2>2, <2>4, Joined, JoinedLocal
  <2>6. head \in Seq(T) /\ Local(head) BY <2>3, <2>5, Joined, JoinedLocal
  <2>7. tail \in Seq(T) /\ Local(tail)
    <3>1. /\ <<"overlay", "membership">> \in T /\ <<"contract", "bindings">> \in T
          /\ <<"contract", "baseline">> \in T /\ <<"contract", "consistency">> \in T
          /\ <<"contract", "plan">> \in T /\ <<"contract", "chronology">> \in T
      BY DEF Subject, StageName
    <3>2. /\ tail[1][2] = "membership" /\ tail[2][2] = "bindings" /\ tail[3][2] = "baseline"
          /\ tail[4][2] = "consistency" /\ tail[5][2] = "plan" /\ tail[6][2] = "chronology"
          /\ DOMAIN tail = 1 .. 6
      OBVIOUS
    <3> HIDE DEF T
    <3>3. tail \in Seq(T) BY <3>1
    <3> HIDE DEF tail
    <3>4. Local(tail) BY <3>2 DEF Local
    <3>5. QED BY <3>3, <3>4
  <2>8. InventoryPlan \in Seq(T) BY InventoryPlanType
  <2>9. ContractPlan = head \o InventoryPlan \o tail BY DEF ContractPlan
  <2> HIDE DEF head, tail
  <2>10. QED BY <1>1, <2>6, <2>7, <2>8, <2>9, PaddedOrdered
<1>3. QED BY <1>1, <1>2, BundleLocal, OverlayLocal, LocalOrdered DEF Plan, AllScopes

\* A stage enters no member; the snapshot's own comes before any was entered.
LEMMA StageSnapshot ==
  ASSUME TypeOK, Snapshot, StageStep PROVE Snapshot'
<1>1. PICK k : Moves(k) BY StageMoves
<1>2. /\ UNCHANGED <<scope, depth, member, result>>
      /\ at[depth] < Boundary(depth) /\ members' \in 0 .. MaxMembers
      /\ at \in [{0, 1} -> Nat \ {0}] /\ depth \in {0, 1}
  BY <1>1, OnwardType DEF Moves, TypeOK
<1>3. at' = [at EXCEPT ![depth] = @ + 1] \/ at' = [at EXCEPT ![depth] = Boundary(depth)] \/ at' = at
  BY <1>1 DEF Moves, Onward, Proceed, Stop
<1>4. at'[0] >= at[0] /\ at'[0] \in Nat
  <2>1. Boundary(depth) \in Nat BY <1>2, BoundaryType
  <2>2. QED BY <1>2, <1>3, <2>1
<1>5. Plan(Kind(0))' = Plan(Kind(0)) BY <1>2 DEF Kind
<1>6. member <= members'
  <2>1. CASE ConsumeInventory
    <3>1. Plan(Kind(depth))[at[depth]][2] = "snapshot" BY <2>1 DEF ConsumeInventory, Here
    <3>2. at[depth] \in DOMAIN Plan(Kind(depth))
      BY <1>2, BoundaryType DEF Boundary
    <3>3. depth = 0
      <4>1. depth = 1 => FALSE
        <5>1. SUFFICES ASSUME depth = 1 PROVE FALSE OBVIOUS
        <5>2. Plan(Kind(depth)) = OverlayPlan BY <5>1 DEF Plan, Kind
        <5>3. QED BY <3>1, <3>2, <5>2, OverlayLocal DEF Local
      <4>2. QED BY <1>2, <4>1
    <3>4. member = 0 BY <1>2, <3>1, <3>2, <3>3 DEF Snapshot
    <3>5. QED BY <1>2, <3>4, CallsAssumption
  <2>2. CASE ~ConsumeInventory
    <3>1. members' = members
      BY <2>2 DEF StageStep, ValidateShape, RequireInput, ConsumeComparison, CheckCanonicalArrays,
         CheckBundleRelations, CheckOverlayIndividual, LeaveMembers,
         CheckRoots, CheckSameHostUnion, CheckMembership, CheckContractBindings,
         ConsumeMaterializedBaseline, CheckBaselineConsistency, CheckContractPlan,
         CheckContractChronology, RuleGroup, Answered, Keep, Note
    <3>2. QED BY <3>1 DEF Snapshot
  <2>3. QED BY <2>1, <2>2
<1>7. \A i \in DOMAIN Plan(Kind(0)) : i >= at'[0] => i >= at[0]
  <2>1. \A i \in DOMAIN Plan(Kind(0)) : i \in Nat BY BoundaryType
  <2>2. QED BY <1>2, <1>4, <2>1
<1>8. QED BY <1>2, <1>5, <1>6, <1>7 DEF Snapshot

\* Members are entered at their stage, which is past the snapshot.
LEMMA EnterSnapshot == ASSUME TypeOK, Snapshot, EnterMember PROVE Snapshot'
<1>1. /\ Plan(Kind(0))[at[0]][2] = "members" /\ at[0] < Boundary(0) /\ depth = 0
      /\ member < members /\ member' = member + 1 /\ members' = members /\ scope' = scope
      /\ at' = [at EXCEPT ![1] = 1]
  BY DEF EnterMember, Here
<1>2. at[0] \in DOMAIN Plan(Kind(0)) /\ at'[0] = at[0] BY <1>1, BoundaryType DEF TypeOK, Boundary
<1>3. Plan(Kind(0))' = Plan(Kind(0)) BY <1>1 DEF Kind
<1>4. Ordered(Plan(Kind(0))) BY PlanOrdered, CallsAssumption DEF Kind, TypeOK
<1>5. \A i \in DOMAIN Plan(Kind(0)) : i \in Nat BY BoundaryType
<1>6. \A i \in DOMAIN Plan(Kind(0)) : i >= at[0] => Plan(Kind(0))[i][2] # "snapshot"
  BY <1>1, <1>2, <1>4, <1>5 DEF Ordered
<1>7. member' <= members' BY <1>1 DEF TypeOK
<1>8. QED BY <1>2, <1>3, <1>6, <1>7 DEF Snapshot

\* Every step keeps this.
LEMMA NextSnapshot == ASSUME TypeOK, InBounds, Snapshot, [Next]_vars PROVE Snapshot'
<1>1. CASE StageStep BY <1>1, StageSnapshot
<1>2. CASE EnterMember BY <1>2, EnterSnapshot
<1>3. CASE ConcludeMember
  <2>1. UNCHANGED <<scope, members, member>> /\ result = Pending
    BY <1>3 DEF ConcludeMember, Finished, AtBoundary
  <2>2. at'[0] \in {at[0], Boundary(0)}
    <3>1. \/ at' = [d \in {0, 1} |-> IF d = 0 THEN at[0] ELSE 1]
          \/ at' = [d \in {0, 1} |-> IF d = 0 THEN Boundary(0) ELSE 1]
      BY <1>3, Zenon DEF ConcludeMember
    <3>2. QED BY <3>1
  <2>3. at[0] <= Boundary(0) /\ at[0] \in Nat /\ Boundary(0) \in Nat
    BY <2>1, BoundaryType DEF InBounds, TypeOK
  <2>4. \A i \in DOMAIN Plan(Kind(0)) : i \in Nat BY BoundaryType
  <2>5. Plan(Kind(0))' = Plan(Kind(0)) BY <2>1 DEF Kind
  <2>6. QED BY <2>1, <2>2, <2>3, <2>4, <2>5 DEF Snapshot
<1>4. CASE RecheckHandle \/ Conclude \/ UNCHANGED control
  <2>1. UNCHANGED <<scope, at, members, member>> BY <1>4 DEF RecheckHandle, Conclude, control
  <2>2. Plan(Kind(0))' = Plan(Kind(0)) BY <2>1 DEF Kind
  <2>3. QED BY <2>1, <2>2 DEF Snapshot
<1>5. StageStep \/ EnterMember \/ RecheckHandle \/ ConcludeMember \/ Conclude \/ UNCHANGED control
  <2>1. (\E object \in Object : MutateOperand(object)) => UNCHANGED control BY DEF MutateOperand
  <2>2. QED BY <2>1, NextCases DEF vars
<1>6. QED BY <1>1, <1>2, <1>3, <1>4, <1>5

\* By plan, position and bounds: some guard of a pending call holds.
LEMMA AlwaysReady == ASSUME TypeOK, InBounds, Snapshot PROVE StepReady
<1>1. SUFFICES ASSUME result = Pending
               PROVE  \/ \E stage \in StageName \ {"members"} : Here(stage)
                      \/ Here("members") /\ depth = 0 /\ member <= members
                      \/ AtBoundary /\ checked <= Len(Current.proofs)
  BY DEF StepReady
<1>2. depth \in {0, 1} /\ at[depth] \in Nat \ {0} BY DEF TypeOK
<1>3. at[depth] <= Boundary(depth) /\ Boundary(depth) \in Nat /\ checked <= Len(Current.proofs)
  BY <1>1, <1>2, BoundaryType DEF InBounds
<1>4. CASE at[depth] = Boundary(depth) BY <1>1, <1>3, <1>4 DEF AtBoundary
<1>5. CASE at[depth] # Boundary(depth)
  <2> DEFINE p == Plan(Kind(depth))   stage == p[at[depth]][2]
  <2>1. at[depth] < Boundary(depth) BY <1>2, <1>3, <1>5
  <2>2. p \in Seq(Subject \X StageName) /\ at[depth] \in DOMAIN p
    BY <1>2, <2>1, BoundaryType DEF Boundary
  <2>3. stage \in StageName BY <2>2
  <2>4. Here(stage) BY <1>1, <2>1 DEF Here
  <2>5. CASE stage = "members"
    <3>1. depth # 1
      <4>1. SUFFICES ASSUME depth = 1 PROVE FALSE OBVIOUS
      <4>2. p = OverlayPlan BY <4>1 DEF Plan, Kind
      <4>3. QED BY <2>2, <2>5, <4>2, OverlayLocal DEF Local
    <3>2. QED BY <1>2, <2>4, <2>5, <3>1 DEF Snapshot
  <2>6. CASE stage # "members" BY <2>3, <2>4, <2>6
  <2>7. QED BY <2>5, <2>6
<1>6. QED BY <1>4, <1>5

\* A pending call is never without a next step: it is before a stage that can
\* be made, before a member that the snapshot has or at the end of the loop, or
\* past its last stage with handles to re-check or a result to give.  With
\* CallsRunDown this is all of CallEnds but the fairness.
THEOREM CallsNeverWait == Spec => []StepReady
<1> DEFINE J == TypeOK /\ InBounds /\ Snapshot
<1>1. Init => J
  <2>1. SUFFICES ASSUME Init PROVE J OBVIOUS
  <2>2. TypeOK /\ InBounds BY <2>1, InitRuns
  <2>3. Snapshot BY <2>1 DEF Init, Snapshot
  <2>4. QED BY <2>2, <2>3
<1>2. J /\ [Next]_vars => J' BY NextType, NextRuns, NextSnapshot
<1>3. J => StepReady BY AlwaysReady
<1>4. QED BY <1>1, <1>2, <1>3, PTL DEF Spec
=============================================================================
