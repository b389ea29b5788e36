---------------------------- MODULE StaticCalls ----------------------------
(***************************************************************************)
(* The four public calls that judge a bundle, a host overlay, a same-host  *)
(* inventory and a task contract (static_validation.py), step by step: the *)
(* order of their stages, what each stage may find, which findings end the *)
(* pipeline early, the nested validate_host_overlay call that is made for  *)
(* each member of a host snapshot, and the re-check of the consumed proof  *)
(* handles in _finish_result.                                              *)
(*                                                                         *)
(* What a rule group finds in its operand is the environment's choice; the *)
(* rules themselves are the business of other modules.  So is the proof    *)
(* provider's answer: it may answer, say nothing or raise.  An operand is  *)
(* a plain mutable mapping: the environment may change it, and change it   *)
(* back, between any two steps.  A handle is bound to its operand as it    *)
(* was when the handle was consumed.                                       *)
(***************************************************************************)
EXTENDS StaticContext, Naturals, FiniteSets

CONSTANTS
  Scopes,        \* the calls explored, a subset of AllScopes
  MaxMembers,    \* bound: members of a host snapshot
  MaxHandles,    \* bound: comparisons are answered while fewer handles are held
  MaxMutations   \* bound: changes the environment makes to operands

AllScopes == {"governance-bundle", "host-overlay-individual",
              "same-host-inventory", "task-contract"}

ASSUME CallsAssumption ==
  Scopes \subseteq AllScopes /\ {MaxMembers, MaxHandles, MaxMutations} \subseteq Nat

VARIABLES
  scope,      \* the public call, by the validation scope of its result
  ctx,        \* ctx[0]: its context; ctx[1]: the nested call's
  at,         \* at[d]: the next stage of ctx[d]'s plan
  depth,      \* 1 while a nested validate_host_overlay runs
  members,    \* number of members in the consumed snapshot
  member,     \* members entered so far
  checked,    \* handles _finish_result has re-checked
  result,     \* the StaticValidationResult of the public call
  version,    \* current state of every operand
  mutations,  \* changes made so far
  missed,     \* auxiliary: kinds of stages skipped, refuted or left open
  consumed,   \* auxiliary: every handle consumed, nested calls included
  stale       \* auxiliary: handles broken before the last re-check began

control  == <<scope, ctx, at, depth, members, member, checked, result>>
operands == <<version, mutations>>
history  == <<missed, consumed, stale>>
vars     == <<control, operands, history>>

Subject == {"contract", "bundle", "overlay", "inventory"}
Frame   == 0 .. MaxMembers       \* 0: the call itself, m: that of member m
Object  == Frame \X Subject
Handle  == Object \X {0, 1}      \* an operand and its state when consumed
\* Requirement identifiers by what they mean to a result: an obligation that is
\* still open, or a rule or structure that is violated.
Requirement == {"obligation", "violation"}

-----------------------------------------------------------------------------
\* The stages of each call, in the order its function makes them.

Prepare(subject) ==
  << <<subject, "shape">>, <<subject, "input">>, <<subject, "arrays">> >>
BundlePlan    == Prepare("bundle") \o << <<"bundle", "relations">> >>
OverlayPlan   == Prepare("overlay") \o BundlePlan \o << <<"overlay", "individual">> >>
InventoryPlan == << <<"inventory", "snapshot">>, <<"inventory", "members">>,
                    <<"inventory", "roots">>, <<"inventory", "union">> >>
ContractPlan  ==
  Prepare("contract") \o BundlePlan \o Prepare("overlay")
    \o << <<"overlay", "individual">> >> \o InventoryPlan
    \o << <<"overlay", "membership">>, <<"contract", "bindings">>,
          <<"contract", "baseline">>, <<"contract", "consistency">>,
          <<"contract", "plan">>, <<"contract", "chronology">> >>

Plan(kind) == CASE kind = "governance-bundle"       -> BundlePlan
                [] kind = "host-overlay-individual" -> OverlayPlan
                [] kind = "same-host-inventory"     -> InventoryPlan
                [] kind = "task-contract"           -> ContractPlan

Kind(d)    == IF d = 0 THEN scope ELSE "host-overlay-individual"
FrameOf(d) == IF d = 0 THEN 0 ELSE member
Boundary(d) == Len(Plan(Kind(d))) + 1     \* past the last stage

\* The active frame, its context, and the stage it is about to make.
Active  == FrameOf(depth)
Current == ctx[depth]
Here(stage) ==
  /\ result = Pending
  /\ at[depth] < Boundary(depth)
  /\ Plan(Kind(depth))[at[depth]][2] = stage
Operand  == Plan(Kind(depth))[at[depth]][1]
Main     == Plan(Kind(depth))[1][1]       \* the operand the call is about
Fresh(object) == <<object, version[object]>>
Broken(h) == version[h[1]] # h[2]

-----------------------------------------------------------------------------
\* How a stage ends.

\* Only the input stage can be missed without a predicate being missed.
Remaining == {IF Plan(Kind(depth))[i][2] = "input" THEN "input" ELSE "predicate" :
                i \in at[depth] .. Len(Plan(Kind(depth)))}

\* The frame goes on with context c; "ok" if the stage found no defect.
Proceed(c, ok) ==
  /\ ctx' = [ctx EXCEPT ![depth] = c]
  /\ at' = [at EXCEPT ![depth] = @ + 1]
  /\ missed' = IF ok THEN missed
               ELSE missed \cup {IF Here("input") THEN "input" ELSE "predicate"}
  /\ UNCHANGED <<scope, depth, member, checked, result, operands, stale>>

\* The frame skips to _finish_result with context c.
Stop(c) ==
  /\ ctx' = [ctx EXCEPT ![depth] = c]
  /\ at' = [at EXCEPT ![depth] = Boundary(depth)]
  /\ missed' = missed \cup Remaining
  /\ UNCHANGED <<scope, depth, member, checked, result, operands, stale>>

\* A caller of _prepare or _bundle that gets no operand back marks what it
\* leaves out, unless that operand is all the call is about.
StopAtOperand(c) ==
  Stop(IF Operand = Main THEN c ELSE LeaveUnevaluated(c))

Keep      == UNCHANGED <<members, consumed>>
Note(h)   == consumed' = consumed \cup {h} /\ UNCHANGED members

Answered(ok) ==
  LET h == Fresh(<<Active, Operand>>) IN Proceed(Consume(Current, h), ok) /\ Note(h)

\* The provider said nothing, raised, or its handle did not validate.
Unanswered == Unavailable(Current, "obligation", FALSE)

-----------------------------------------------------------------------------
\* The stages.

ValidateShape ==
  /\ Here("shape")
  /\ \/ Proceed(Current, TRUE)
     \/ StopAtOperand(LeaveUnevaluated(Report(Current, {"violation"})))
     \/ StopAtOperand(Unavailable(Current, "obligation", TRUE))
  /\ Keep

\* A missing input proof does not hold up the stages after it.
RequireInput ==
  /\ Here("input")
  /\ \/ Answered(TRUE)
     \/ Proceed(Unanswered, FALSE) /\ Keep

\* An answered comparison of two members: remotes of an array, projections of
\* two rules, a transition source and its baseline value.
ConsumeComparison ==
  /\ Here("arrays") \/ Here("relations") \/ Here("plan")
  /\ Len(Current.proofs) < MaxHandles
  /\ LET h == Fresh(<<Active, Operand>>)
     IN ctx' = [ctx EXCEPT ![depth] = Consume(Current, h)] /\ Note(h)
  /\ UNCHANGED <<scope, at, depth, member, checked, result, operands, missed, stale>>

\* The array matrix; a missing comparison leaves its row open.
CheckCanonicalArrays ==
  LET gap == LeaveUnevaluated(Unanswered)
  IN /\ Here("arrays")
     /\ \/ Proceed(Current, TRUE)
        \/ Proceed(gap, FALSE)
        \/ \E c \in {Current, gap} : StopAtOperand(Report(c, {"violation"}))
     /\ Keep

\* References, overlap symmetry and rule relations of a bundle; the answer to
\* a projection comparison may be missing or make no sense.
CheckBundleRelations ==
  LET gap == LeaveUnevaluated(Unanswered)
  IN /\ Here("relations")
     /\ \/ Proceed(Current, TRUE)
        \/ Proceed(gap, FALSE)
        \/ \E c \in {Current, gap} : StopAtOperand(Report(c, {"violation"}))
     /\ Keep

\* Narrowing of the overlay; the path-language proof may run out of budget, and
\* a bundle that has changed since it was judged may lack a domain it names.
CheckOverlayIndividual ==
  LET changed == version[<<Active, "bundle">>] = 1
      gaps == {Unavailable(Current, "obligation", TRUE)}
                \cup (IF changed THEN {LeaveUnevaluated(Current)} ELSE {})
  IN /\ Here("individual")
     /\ \/ Proceed(Current, TRUE)
        \/ \E gap \in gaps : Proceed(gap, FALSE)
        \/ \E c \in {Current} \cup gaps : Stop(Report(c, {"violation"}))
     /\ Keep

\* No inventory operand, no answer, a payload that does not unpack, or a
\* snapshot of any size.
ConsumeInventory ==
  /\ Here("snapshot")
  /\ \/ /\ scope = "task-contract"
        /\ Stop(Unavailable(Current, "obligation", TRUE))
        /\ Keep
     \/ Stop(LeaveUnevaluated(Unanswered)) /\ Keep
     \/ LET h == Fresh(<<Active, Operand>>)
        IN \/ /\ Stop(Unavailable(Consume(Current, h), "obligation", TRUE))
              /\ Note(h)
           \/ /\ Proceed(Consume(Current, h), TRUE)
              /\ consumed' = consumed \cup {h}
              /\ members' \in 0 .. MaxMembers

\* Mutant of EnterMember: the loop runs once too often.
EnterOneMemberTooMany ==
  /\ Here("members") /\ depth = 0 /\ member <= members
  /\ depth' = 1
  /\ member' = member + 1
  /\ ctx' = [ctx EXCEPT ![1] = NewContext]
  /\ at' = [at EXCEPT ![1] = 1]
  /\ checked' = 0
  /\ UNCHANGED <<scope, members, result, operands, history>>

\* The nested call starts with a context of its own.
EnterMember ==
  /\ Here("members") /\ depth = 0 /\ member < members
  /\ depth' = 1
  /\ member' = member + 1
  /\ ctx' = [ctx EXCEPT ![1] = NewContext]
  /\ at' = [at EXCEPT ![1] = 1]
  /\ checked' = 0
  /\ UNCHANGED <<scope, members, result, operands, history>>

\* The loop over the members ends - a member not entered would be a stage missed -
\* or the next one is not an (overlay, bundle) pair, which raises.
LeaveMembers ==
  /\ Here("members") /\ depth = 0
  /\ \/ member = members /\ Proceed(Current, member = members)
     \/ member < members /\ Stop(Unavailable(Current, "obligation", TRUE))
  /\ Keep

\* Mutant of CheckRoots: the exception of an unknown purpose is swallowed.
CheckRootsQuietly ==
  /\ Here("roots")
  /\ \/ Proceed(Current, TRUE)
     \/ Proceed(Report(Current, {"violation"}), FALSE)
     \/ Stop(Current)
  /\ Keep

\* Shape of the coordination roots; an unknown purpose raises ValueError.
CheckRoots ==
  /\ Here("roots")
  /\ \/ Proceed(Current, TRUE)
     \/ Proceed(Report(Current, {"violation"}), FALSE)
     \/ \E c \in {Current, Report(Current, {"violation"})} :
          LET open == Unavailable(c, "obligation", TRUE)
          IN Proceed(open, FALSE) \/ Stop(open)
  /\ Keep

\* The union is examined only when every member was accepted; an accepted member
\* that has changed since may raise.
CheckSameHostUnion ==
  /\ Here("union")
  /\ IF Current.failed \/ Current.unevaluated
       THEN Stop(Current)
       ELSE \/ Proceed(Current, TRUE)
            \/ Stop(Report(Current, {"violation"}))
            \/ \E c \in {Current, Report(Current, {"violation"})} :
                 Stop(Unavailable(c, "obligation", TRUE))
  /\ Keep

\* The contract's overlay and bundle are one of the members.
CheckMembership ==
  /\ Here("membership")
  /\ \/ Proceed(Current, TRUE)
     \/ Stop(Report(Current, {"violation"}))
  /\ Keep

\* A rule group whose findings never end the pipeline.
RuleGroup(gap) ==
  /\ \/ Proceed(Current, TRUE)
     \/ Proceed(gap, FALSE)
     \/ \E c \in {Current, gap} : Proceed(Report(c, {"violation"}), FALSE)
  /\ Keep

CheckContractBindings ==
  Here("bindings") /\ RuleGroup(Unavailable(Current, "obligation", TRUE))

\* A view that is not the one for this contract is an obligation as well.
ConsumeMaterializedBaseline ==
  /\ Here("baseline")
  /\ \/ Answered(TRUE)
     \/ Proceed(LeaveUnevaluated(Unanswered), FALSE) /\ Keep
     \/ LET h == Fresh(<<Active, Operand>>)
        IN /\ Proceed(Unavailable(Consume(Current, h), "obligation", TRUE), FALSE)
           /\ Note(h)

\* A leaf without a known kind cannot be classified.
CheckBaselineConsistency ==
  Here("consistency") /\ RuleGroup(Unavailable(Current, "obligation", TRUE))

\* A transition source without a comparison, or a path that cannot be matched.
CheckContractPlan ==
  Here("plan") /\ RuleGroup(LeaveUnevaluated(Unanswered))

CheckContractChronology ==
  /\ Here("chronology")
  /\ Proceed(Current, TRUE) \/ Proceed(Report(Current, {"violation"}), FALSE)
  /\ Keep

-----------------------------------------------------------------------------
\* _finish_result.

AtBoundary == result = Pending /\ at[depth] = Boundary(depth)

\* Mutant of RecheckHandle: a broken handle starts the loop over.
RecheckUntilStable ==
  /\ AtBoundary /\ checked < Len(Current.proofs)
  /\ LET broken == Broken(Current.proofs[checked + 1])
     IN /\ checked' = IF broken THEN 0 ELSE checked + 1
        /\ ctx' = [ctx EXCEPT ![depth] =
                     IF broken THEN Unavailable(@, "obligation", FALSE) ELSE @]
  /\ UNCHANGED <<scope, at, depth, members, member, result, operands, history>>

\* One round of the loop that validates every consumed handle again.
RecheckHandle ==
  /\ AtBoundary /\ checked < Len(Current.proofs)
  /\ checked' = checked + 1
  /\ ctx' = [ctx EXCEPT ![depth] =
               IF Broken(Current.proofs[checked + 1])
               THEN Unavailable(@, "obligation", FALSE) ELSE @]
  /\ UNCHANGED <<scope, at, depth, members, member, result, operands, history>>

\* Mutant of Finished: the last handle is not re-checked.
FinishedBeforeLast == AtBoundary /\ checked + 1 >= Len(Current.proofs)

Finished == AtBoundary /\ checked = Len(Current.proofs)

Conclude ==
  /\ Finished /\ depth = 0
  /\ result' = Result(Current)
  /\ UNCHANGED <<scope, ctx, at, depth, members, member, checked, operands, history>>

\* The nested result is merged; then the member's host is looked at, which
\* raises KeyError or TypeError on a member without the shape.
ConcludeMember ==
  /\ Finished /\ depth = 1
  /\ depth' = 0
  /\ checked' = 0
  /\ LET Return(c, stage) == ctx' = [d \in {0, 1} |-> IF d = 0 THEN c ELSE NewContext]
                            /\ at' = [d \in {0, 1} |-> IF d = 0 THEN stage ELSE 1]
         merged == Merge(ctx[0], ctx[1])
     IN \/ Return(merged, at[0]) /\ UNCHANGED missed
        \/ /\ Return(Report(merged, {"violation"}), at[0])
           /\ missed' = missed \cup {"predicate"}
        \/ /\ Return(Unavailable(merged, "obligation", TRUE), Boundary(0))
           /\ missed' = missed \cup {"predicate"}
  /\ UNCHANGED <<scope, members, member, result, operands, consumed, stale>>

-----------------------------------------------------------------------------
\* The environment: somebody else holds a reference to an operand.

LastRecheckBegun == depth = 0 /\ at[0] = Boundary(0) /\ checked > 0

MutateOperand(object) ==
  /\ result = Pending /\ mutations < MaxMutations
  /\ \E h \in consumed : h[1] = object
  /\ mutations' = mutations + 1
  /\ version' = [version EXCEPT ![object] = 1 - @]
  /\ stale' = {h \in IF LastRecheckBegun THEN stale ELSE consumed :
                 version'[h[1]] # h[2]}
  /\ UNCHANGED <<control, missed, consumed>>

Init ==
  /\ scope \in Scopes
  /\ ctx = [d \in {0, 1} |-> NewContext]
  /\ at = [d \in {0, 1} |-> 1]
  /\ depth = 0 /\ members = 0 /\ member = 0 /\ checked = 0
  /\ result = Pending
  /\ version = [object \in Object |-> 0]
  /\ mutations = 0
  /\ missed = {} /\ consumed = {} /\ stale = {}

CallStep ==
  \/ ValidateShape \/ RequireInput \/ ConsumeComparison \/ CheckCanonicalArrays
  \/ CheckBundleRelations \/ CheckOverlayIndividual
  \/ ConsumeInventory \/ EnterMember \/ LeaveMembers
  \/ CheckRoots \/ CheckSameHostUnion \/ CheckMembership
  \/ CheckContractBindings \/ ConsumeMaterializedBaseline
  \/ CheckBaselineConsistency \/ CheckContractPlan \/ CheckContractChronology
  \/ RecheckHandle \/ ConcludeMember \/ Conclude

Next == CallStep \/ \E object \in Object : MutateOperand(object)

\* The call is a synchronous function and the provider's methods return or
\* raise: nothing but the end of the call can keep it from its next step.
Spec     == Init /\ [][Next]_vars
FairSpec == Spec /\ WF_vars(CallStep)
=============================================================================
