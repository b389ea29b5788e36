# Static validation of Agent Context Governance in TLA+

The repository judges governance documents - bundles, host overlays, task
contracts, execution receipts - that somebody hands to it as decoded mappings.
It executes nothing and writes nothing; all it produces is a verdict. What can
go wrong is therefore the verdict: accepting a document of which some part was
not looked at, changed meanwhile, or rests on a proof nobody gave; accepting a
history that cannot have happened; refusing a correct one because a helper did
not answer. This directory holds TLA+ modules of that program, TLC
configurations that check them on small instances, and TLAPS proofs of what
matters most.

Source files below are under `src/src/contextctl_schema/` unless a path is given.

## 1. The system

### Components

| component | state it keeps | operations |
|---|---|---|
| validation context (`_static_core.py:96`) | `failed`, `unevaluated`, diagnostics, required proofs, consumed handles | `check`, `unavailable`, `_require_proof`, `_finish_result` |
| proof provider (`_static_core.py:58`) | none in this phase: every method answers nothing; tests replace the methods | six `require_*` methods, `_validate_handle` |
| structural validator (`_static_core.py:202`, `registry.py`, `formats.py`, `catalog.py`) | a registry per context | `_validate_shape`: errors, none, or an exception |
| canonical arrays (`_static_core.py:288`) | none | 54 order and uniqueness rules; asks for comparisons of remotes |
| closed bundle (`_static_bundle.py`) | an index of resources | references, overlap symmetry, routing rules |
| host overlay, same-host union (`_static_overlay.py`) | worktrees and roots met so far | narrowing, uniqueness over a host |
| path-language proof (`_static_paths.py`) | automata, BFS queue, budget counters, excluded words | subset proof, membership of one path |
| baseline (`_static_baseline.py`) | a materialised view and its projections | consistency, simultaneous transitions |
| contract plan (`_static_contract.py`) | none | bindings, plan, capabilities, postconditions |
| receipt (`_static_receipt.py`) | selectors, bindings (`contract`, `stable`, `identity_valid`, `controller_equal`) | presence, source, prefix, remaining, outcome rules |
| chronology (`_static_chronology.py`) | which relations hold; derived displays | twenty primitive relations, eleven displays |
| public calls (`static_validation.py`) | one context per call | bundle, overlay, inventory, contract, receipt, delivery pair |

### How they interact

A public call makes a context and runs a fixed sequence of stages. A stage
calls `check` (a defect), `unavailable` (an open obligation), or asks the
provider for a proof; which later stages run depends on what is in the context
so far. The inventory and contract calls make a *nested* public call for every
member of a host snapshot, with a context of its own, and merge its result into
theirs. `_finish_result` re-validates every handle of its own context and then
turns the context into one of `INVALID`, `PROOF_REQUIRED` and `PASS`. A later
call can ask for an earlier result as a proof (`_completed_static`).

The receipt call reads three documents at once - the receipt, its contract, the
lease acquisition it came from - and reconstructs from the list of checks what
happened: gates, acquisition (A), revalidation (N or R), issuance (I),
pre-action checks (P), execution (E), verification (V), release (L),
finalisation (F).

### What is hard

* **Early returns.** About a dozen conditions end a pipeline before its last
  stage. Each must leave something behind that keeps the call from `PASS`.
* **Silence.** The provider, the structural validator and the path proof may
  each fail to answer at any point. An obligation of the provider does not say
  by itself that a predicate was left out; callers have to add that.
* **Aliasing.** Operands are plain mappings to which somebody else may hold a
  reference. The only guard is the re-check of handles at the end.
* **Nesting.** A nested call's verdict is merged, its handles are not.
* **Pairwise order.** A lifecycle is linear, but the code has about thirty
  pairwise rules in five functions, each applying to some origins only.
* **Repetition.** Checks may be repeated; some rules speak of all of a type,
  some of the last, some of the only one.
* **Several failures at once.** Execution, verification and release fail
  independently and one outcome has to stand for them.

### What makes each component correct

* context and calls: acceptance means complete and untainted; nothing is lost
  in merging; no acceptance over a broken handle; the call ends;
* receipt and chronology: an accepted receipt tells a complete, ordered
  lifecycle inside its window of authority; a lease acquired is given back;
  denial stops; success means that all went well; derived displays are true;
  proofs nest in the right order; silence never refutes;
* delivery pair: a delivery is accepted only for a completed receipt, and no
  earlier than its end;
* path proof: "proven" only for true inclusion, under every budget; it ends;
* baseline and plan: transitions on different targets commute, the projection
  is canonical, the required capabilities are those of the difference;
* bundle and overlay: references closed, overlap symmetric, narrowing
  monotone, no worktree bound twice and no coordination root at or inside a
  bound worktree, over all members;
* arrays: strictly increasing means sorted and without repetition, and the walk
  finds for every array the row the documented matrix gives it.

## 2. Modules

| module | models |
|---|---|
| `StaticContext` | the context record, `check`, `unavailable`, verdict, merge |
| `Adjudication` | abstract: grounds against acceptance accumulate, one verdict judges them; `StaticCalls` and `DeliveryPair` implement it |
| `StaticCalls` | the bundle, overlay, inventory and contract calls with nested calls, provider and mutating environment |
| `ReceiptRules`, `ReceiptValidation` | the rules of receipt and chronology, one set per function; the receipt call, stage by stage |
| `DeliveryPair` | the delivery call after receipt calls, while its two operands change |
| `Governance` | the rules of bundle, overlay, union and bindings, in the order a contract call applies them |
| `ContractPlan` | baseline, transitions, composed state, capabilities and postconditions |
| `GlobLanguage`, `PathProof` | patterns and their automata; the two questions asked of the path language |
| `CanonicalArrays` | the walk through a document and the order of every array |

Beside a module are the properties of it (`StaticCallsProps`, `ReceiptProps`,
`GovernanceProps`, `PlanProps`, `PathProps`, `ArrayProps`; those of
`DeliveryPair` are few and in it), the inputs TLC explores (`MCReceipts`,
`MCDelivery`, `MCGovernance`, `MCPlans`, `MCPaths`, `MCArrays`), and the proofs
(`StaticCallsProofs`, `ReceiptProofs`, `DeliveryProofs`, `GovernanceProofs`,
`PlanProofs`, `PathProofs`, `ArrayProofs`, on the lemmas of `CommonProofs`).

`StaticCalls` and the rule modules divide one pipeline between them.
`StaticCalls` has all stages in order with the findings of each left open, so
that its properties hold whatever the rules say. `Governance` and
`ContractPlan` have the stages whose rules they contain, with the findings
computed, so that their properties say what an accepted document is.

### StaticCalls

`ctx[0]` is the context of the public call, `ctx[1]` that of the nested call
while `depth = 1`. A plan is the sequence of a call's stages, each with the
operand it is about; `at[d]` is the next stage of frame `d`. Each stage is an
action with the alternatives the code has: *proceed* with a clean context,
proceed with a defect or a gap, or *stop*, which jumps to `_finish_result` as
the early return does. What the rules find is the environment's choice: the
question here is whether the pipeline's control keeps hold of it. `EnterMember`
and `ConcludeMember` are the loop over snapshot members; `RecheckHandle` is one
round of the loop of `_finish_result`; `MutateOperand` changes an operand, or
changes it back, between any two steps. A handle is a pair of an operand and
its state when consumed, and is broken while the states differ; this is what
the test doubles do (`src/tests/schema/s4_synthetic.py:101-108`).

`missed`, `consumed` and `stale` are auxiliary: no action reads them to decide
what to do (`MutateOperand` changes only operands that some handle holds, since
nothing depends on the others).

### ReceiptValidation

One action per stage of `validate_execution_receipt_static`, in its order. The
rules are pure sets of pairs *(requirement, holds)*; a stage reports those that
do not hold and decides as the code does where to go on. `bindings` is the
submission as later stages see it: without the contract if that did not
validate. `Unreliable` names the answers that may stay out in a run; `Asked`
and the `Fails(...)` disjuncts are the only places where they do.

A submission states which digests it got wrong (`mismatched`), so that digests
need not be computed.

### DeliveryPair

`ValidateReceipt` is a whole earlier receipt call, of which only its result and
the receipt it looked at remain; `RequireCompleted` asks whether the receipt at
hand is such a one. The next actions are the stages of
`validate_delivery_pair_static` (lines 181-190 of `static_validation.py`), each
with its early return; `ChangeReceipt` and `ChangeDelivery` may come between any
two. `broken` and `stale` play the part that they have in `StaticCalls`.

### Governance

`CheckBundle`, `CheckOverlay`, `ValidateMember` (one turn of the loop over the
snapshot, a nested call with a context of its own), `CheckUnion` and
`CheckContractBindings`. Rules are sets of pairs *(requirement, holds)*, as in
`ReceiptRules`. A root is a text over a few characters, since containment is
decided on texts (`_static_overlay.py:79`). Neighbouring routing rules are
compared in order, as the code does; pairs of equal priority may need a
comparison of their match. Who may stay silent is part of a submission.

### ContractPlan

A view is the materialised state: `index`, `tracked` and `submodules` as
functions from paths to entries, `untracked` and `ignored` as sets, `head` for
everything that no transition changes. `Project` turns a view into conditions
(`_project_final_conditions`), `Apply` folds the transitions over it in the
order they are listed. `ComposeFinal` builds the final state, examines it and,
where that succeeds, computes the operations that the difference amounts to.
`materialized` and `final` are sets of at most one view, empty while there is none.

### PathProof

One pop of the search queue is one step (`Expand`); the product automaton is
made lazily from the compiled patterns of all scopes and the universe of valid
paths. `FindWitness` is the round's end where a word was found: a word that is
NFC refutes, another is excluded and the search starts afresh
(`_exact_nfc_relative_emptiness`). `Exhaust` is the end without a word. `Walk`
follows one path for `_closed_path_membership`. `Interrupt` stands for every
exception, lack of memory, and running out of work units, at any step.

### CanonicalArrays

`Descend` is one level of the recursive walk, with what it hands down (parent,
kind of the enclosing resource, type of the postcondition); `Judge` applies the
row at the array. As the walk treats arrays independently, a behaviour goes to
one array.

### What the models abstract

* Names, digests, reasons and paths are members of small sets; an instant is a
  natural number (canonical UTC texts are ordered as the instants are).
* One `identity` stands for what a receipt repeats of its contract (id, target,
  domains, mode: RC01, RC04-RC08); the plan-only mode, whose restrictions are
  the schema's, is left out.
* `leaseRequired` and `allowWrite` of a contract are one field, as the schema
  makes them equal.
* A contract whose arrays are not canonical is treated as one that is not
  shaped: both add a defect before the contract is used.
* `RECEIPT.SEQUENCES` demands what the array rows 45 and 46 have already
  demanded; the model has one stage for both.
* Which of several paths of a scope stay open is a set, chosen at once.
* In `StaticCalls` a requirement is only an obligation or a violation.
* In `Governance` references are identifiers, the kind being fixed by the
  field; uniqueness of identifiers (`BUNDLE.IDS`) holds by the shape of the
  model's bundles, remotes are names, and a path ceiling is known by the answer
  of the path proof.
* In `ContractPlan` inventories are functions, so that the order of entries and
  repeated paths (`BASE.PATH_IDENTITIES`, `BASE.OBSERVATIONS`) are left out;
  they are array rules in `CanonicalArrays`.
* In `PathProof` the charges of one step are made together: a count may pass
  its limit by more than one before the step gives up. The table of normal
  forms is external; `Nfc` is exact for the code points that the questions use.

## 3. Runs

| run | shows | states |
|---|---|---|
| `contract_call` | the longest pipeline (21 stages, and those of the nested call) never accepts with a stage missed, and refines `Adjudication` | 20 thousand |
| `inventory_call` | the other three calls, two members, two handles per frame, two changes: direct acceptance, staleness, completed results, termination | 56 thousand |
| `receipt_rules` | 6217 receipts before a provider that answers: six meanings of acceptance | 65 thousand |
| `receipt_proofs` | 80 receipts before a provider, validator and path proof that may fail anywhere | 14 thousand |
| `delivery_pair` | deliveries after up to two receipt calls, operands that change at any time | 358 thousand |
| `governance` | bundles, overlays, snapshots of two members, contracts: what is accepted is closed, narrow and injective; what is right is accepted | 28 thousand |
| `contract_plan` | plans on two paths: the composed state, its order independence, authority and promises | 96 thousand |
| `path_language` | questions with every construct of a pattern, against a reference matcher over all short paths | 5 thousand |
| `path_budgets` | proofs with small budgets, some over languages without an NFC word: each ends | 1 thousand |
| `canonical_arrays` | every array place of the documents with arrays of up to three items | 56 thousand |
| `snapshot_members` | a counterexample, see *Findings* | - |
| `missing_validator` | a counterexample, see *Findings* | - |

`CHECK_DEADLOCK FALSE` in every configuration: a call that has answered is over.

**Bounds.** `MaxMembers` 2 shows a member after a member, both orders of a
clean and a tainted one; `MaxHandles` 2 shows the first and the last handle of
the re-check loop; `MaxMutations` 2 shows a change that is undone, and changes
before and after a re-check. The contract run takes one of each, because its
pipeline is the longest. The proofs remove these bounds.

`GTypes` has two gates instead of five. The code uses the gates' order only to
cut the prefix at the denying one, and otherwise all of them alike; with two
gates there is a denial with an empty prefix, one with a proper prefix and
denials after all gates.

The receipts of `receipt_rules` are sixteen lifecycles: issued with and without
a lease, attempted and not, a repeated P, a failed and repeated release, a
cancelled execution, a last P that fails; denials at every checkpoint and every
lease state. Each is edited once in every way: a check dropped, repeated at any
place with any outcome, exchanged with another, made at another time, with
another outcome; the receipt is then written honestly for the edited history.
Or the receipt is honest but one field lies: outcomes, warnings, bindings,
scope, sequence numbers, instants, source, contract. One edit is enough to
break any single pairwise rule, and repeated and exchanged checks meet those
that speak of the last, of all and of the only one.

`MaxValidated` 2: a receipt call for the receipt at hand and one for another.
Two members of a snapshot are the smallest host with a union; a submission of
`governance` has at most one defect in the bundle, one in the overlay and one in
the contract, so that defects of different layers meet. Two paths are enough
for every relation of `ContractPlan`: its rules are about one path each, or
about whether two sets share one; a plan of two transitions has all orders and
repetitions. `MaxLength` 4 instead of 4096 keeps every path enumerable for the
reference matcher; it has room for the shortest word of every pattern in
`MCPaths`, for `.git` without what follows it, and for a bound that is reached;
`PathProofs` removes it, and the sample of scalars with it.
Arrays of three items have a neighbour of a neighbour, where a relation that is
not transitive would fail; `ArrayProofs` removes that bound.

**Mutants.** Every property has a mutant of the code's model that breaks it,
kept beside the definition it changes (`PrecedeAtLast`, `MergeWithoutGaps`, ...).
They are not used by any run.

**Fairness.** `CallEnds` and `PairEnds` need `WF_vars(CallStep)`: a call is a
synchronous function, the validator and the provider return or raise, and
nothing outside the call can disable its next step - an operand that changes
only changes what a re-check finds. No fairness is assumed of the environment.
`ProofEnds` needs `WF_vars(Next)`: the path proof is one synchronous function,
with no environment.

**Readings worth knowing.** `AcceptedChain` speaks of issued receipts and of
denials that held a lease: for a denial at issuance without a lease no rule puts
the gates before the revalidation N (both precede the controller), so none is
claimed. `AuthorityWindow` compares execution with the *last* pre-action check
only, as the code does; an earlier one may carry a later instant.
`FinalIsSimultaneous` is about plans whose transitions have different targets;
with repeated targets the plan is refused (`CONTRACT.TARGETS`), whatever it composes.

### Findings

`snapshot_members` checks `NoStaleAcceptanceInCall`: no acceptance of an
inventory over a handle that was broken when the last re-check began, *the
handles of the nested calls included*. It does not hold. The nested call for a
member re-checks its handles when it returns; if the member's overlay or bundle
changes after that, the enclosing call has no handle bound to it and answers
`PASS`. `src/docs/schema-contract-v1alpha1.md:1318-1321` says that individual
validation and union construction must not be composed across incompatible
snapshots and that "a relevant mid-proof configuration change invalidates the
complete proof". For the handles of the call itself the promise holds
(`NoStaleAcceptance`, checked and proved). A provider whose snapshot handle also
watched every member would close the gap; `_ProofContext` leaves this to a
future producer.

`missing_validator` checks `MissingValidatorIsNoFinding`: where nothing but the
structural validator failed to answer, a right plan is not `INVALID`. It does
not hold. `_validate_shape` answers False both for errors found and for a
validator that raised, and `_static_contract.py:118` takes False for errors: it
reports `CONTRACT.FINAL` beside the obligation, and a plan in which nothing is
wrong becomes `INVALID` instead of `PROOF_REQUIRED`. That a missing validator is
to be told from its findings is what
`src/tests/schema/test_static_diagnostics.py:25-31` demands; the test raises at
the first shape of a call, where the call stops, and does not reach this one.

## 4. Proofs

All theorems hold for every value of the constants that the named assumptions
admit. TLC evaluates the assumptions in the runs.

### The calls (`StaticCallsProofs`)

`StaticCallsProofs` proves, for every number of members, handles and changes
and every set of calls (assumption `CallsAssumption` only):

| theorem | states |
|---|---|
| `TypeCorrect` | `Spec => []TypeOK` |
| `AcceptanceComplete` | `Spec => []AcceptanceIsComplete` |
| `DirectAcceptanceComplete` | `Spec => []DirectIsComplete` |
| `StaleNeverAccepted` | `Spec => []NoStaleAcceptance` |
| `CallsAdjudicate` | `Spec => Adjudicates`, the refinement of `Adjudication` |
| `PassCompleted` | `Spec => []PassIsCompleted` |
| `CallsRunDown` | `Spec => [](Left \in Nat) /\ RunsDown`: every step of the call takes from a natural number, the environment's steps add nothing |
| `CallsNeverWait` | `Spec => []StepReady`: in a pending call the guard of some step holds |

The properties speak of the result; the inductive invariant `Inv` says what is
true on the way to it. `Complete`: while no open frame is tainted, nothing was
missed. `DirectComplete`: while no open frame failed or was left open, at most
input proofs were missed. `Seen`: every handle in `stale` is broken now, and a
stale handle the re-check has passed has left an obligation. `Complete` alone is
not inductive across a nested call: it must speak of both frames, so that
merging moves the taint before the inner frame disappears. `Seen` is needed
because a handle may be broken, mended and broken again: `stale` holds only
those that stayed broken since the last re-check began.

The argument: `StageStep` collects the stage actions; `StageMoves` shows by one
leaf per disjunct that each is an `Onward` move - a context that grows, and a
miss only with a taint. What types and preserves an `Onward` move then holds of
all of them. `EnterMember`, `ConcludeMember`, `RecheckHandle`, `Conclude` and
`MutateOperand` have lemmas of their own. The refinement maps the grounds of
the open frames to `grounds` and the result to `verdict`: `Conclude` is
`Decide`, `MutateOperand` stutters, everything else is an `Observe`.
`PassCompleted` rests on the type of a context alone: a diagnostic fails it, an
obligation leaves it unevaluated (`Reported`, `Accounted`), so the two parts of a
verdict never contradict the lists that come with it.

`CallsRunDown` and `CallsNeverWait` are the parts of `CallEnds` that a proof can
have. `Left` counts, for each open frame, the stages that remain, the room that
its handles still have and the handles it holds, and for every member not yet
entered more than its nested call can take (`MemberWork`). A comparison that is
answered keeps its stage, but uses up room that weighs more than the handle it
adds. The room, `MaxHandles`, may be any natural number; it stands for the
comparisons that a document of finite size calls for. `InBounds` (no stage lies beyond the last one, nothing is re-checked
before it) makes it a natural number. `CallsNeverWait` rests on `Snapshot`: no
member is entered before the snapshot that holds it, because in every plan the
snapshot stands before the loop over its members (`Ordered`). What is missing
from `CallEnds` is that a step whose guard holds is taken, which is the fairness
and stays with TLC.

### The receipt call (`ReceiptProofs`)

For every set of receipts, of any number of checks, and everything that may stay
silent:

| theorem | states |
|---|---|
| `AcceptanceProven` | `Spec => []AcceptanceIsProven` |
| `ProofsAreOrdered` | `Spec => ProofsInOrder` |
| `ChainIsComplete` | `Spec => []AcceptedChain` |
| `WindowIsKept` | `Spec => []AuthorityWindow` |
| `LeaseIsReleased` | `Spec => []NoLeaseLeftBehind` |
| `DenialIsTheEnd` | `Spec => []DenialStopsTheLifecycle` |
| `SuccessIsDone` | `Spec => []SucceededMeansDone` |
| `DisplaysAreSound` | `Spec => []DerivedIsSound` |
| `SilenceNeverRefutes` | `Spec => [](Blameless => HonestHistoryIsNotRefuted)` |

There are four inductive invariants; the others rest on the first.

* `Inv` says what the bindings are worth while the context is untainted:
  `HandlesAreDue` (which proofs are consumed at which stage), `LeaseIsBound` and
  `ContractIsBound` (what is bound is what was submitted, or the context is
  tainted), `IdentityIsValid`, `SourceIsBound`, `ControllerIsFound`,
  `ResultIsOfContext`. `StateTypes` carries the context's type, without which a
  consumed handle could be anything. The first two theorems follow from it.
* `RulesAreKept`: an untainted call has found no rule violated in any stage it
  left behind. At the end that makes the submission `Lawful`, a predicate of the
  submission alone, and the five theorems about accepted histories are facts about
  lawful submissions. Each relates checks of different stages, whose functions in
  the code never see each other: the chain is put together from rules about the
  first or the last check of a type (`PhasesFollow`), and the window from three
  chronologies.
* `Chronicle`: what the chronology was computed from, whether the rules held or
  not. `DisplaysAreSound` needs it because a display of a refuted receipt must be
  true as well; what is shown as derived then follows by transitivity of the
  primitive relations it names.
* `Innocent`: a call for a submission that is `Blameless` (it is `Lawful`, repeats
  the contract and states its digests rightly) has found nothing, and where it
  left a predicate unevaluated there is an obligation that says so (`Calm`). Its
  bindings are the submission, or the submission without the contract that could
  not be read, and then only in the stages such a call comes through: the rules
  of presence object to nothing more without the contract (`UnreadPresence`), and
  an undecided path takes an objection away, never adds one (`OpenScope`).
  `HonestHistoryIsNotRefuted` has no hypothesis of its own about the rules because
  the run of it calls with blameless submissions only, or with wrong digests;
  `Blameless` is what those have in common, and by `AcceptedIsLawful` every
  accepted submission is at least lawful.

`GatesAssumption` says that `_G_TYPES` lists each type once and none of the other
types; `ReceiptAssumption` types a submission as the schemas do
(`execution-receipt.schema.json`, `task-contract.schema.json`): enumerated check
types, canonical instants (numbers here), a denying checkpoint among the
checkpoints, `allowWrite` a boolean. Each is a condition on texts that the
structural validator has admitted before any of these rules are read.

### The delivery pair (`DeliveryProofs`)

| theorem | states |
|---|---|
| `PairTypeCorrect` | `Spec => []TypeOK` |
| `StalePairNeverAccepted` | `Spec => []StalePairIsNotAccepted` |
| `DeliveryCompleted` | `Spec => []DeliveryIsOfACompletedReceipt` |
| `PairRunsItsCourse` | `Spec => [](Left \in 0 .. 9) /\ PairRunsDown`: at most nine steps, whatever changes meanwhile |
| `PairAdjudicates` | `Spec => Abstract!Spec`, the refinement of `Adjudication` |

The invariant is `TypeOK`, `HandlesOfPhase` (the handles of a phase are the receipt's and then
the delivery's), `ReceiptIsPinned` and `PairIsPinned` (while no change broke a
handle, the operand is still the one that the passed stages saw) and
`StaleIsMarked` (a stale handle that the re-check has passed has left an
obligation). Pinning is what ties the result, which speaks of an earlier state,
to the operands at the end.

`PairAdjudicates` maps the grounds of the call's context (`GroundsOf`) to
`grounds` and its verdict, from the end on, to `verdict`: earlier receipt calls
and changes of the operands stutter. `PairRunsItsCourse` is the measure behind
`PairEnds`; only its fairness stays with TLC.

### Governance (`GovernanceProofs`)

| theorem | states |
|---|---|
| `AuthorityNarrows` | `Spec => []AuthorityOnlyNarrows` |
| `MembersAreClosed` | `Spec => []BundleIsClosed` |
| `TypeCorrect` | `Spec => []TypeOK` |
| `UnionIsInjective` | the union check holds of a host exactly if that host is `Injective` |
| `HostInjective` | `Spec => []HostIsInjective` |
| `RightIsAccepted` | `Spec => []RightGovernanceIsAccepted` |

The invariant `Inv` says that beyond a stage its rules hold (`BundleHolds`,
`OverlayHolds`, `Contract`); `InvMembers` that every member in `validated` has a
sound bundle. Rules are compared with their neighbours only; that this orders all
of them is `NeighboursSuffice` (in `CommonProofs`), by the least counterexample,
since induction over data is not to be had. `Snapshot` says how far the snapshot
of the host has come: `validated` and `roots` are the accepted members and their
roots, in the order of the submission, and an untainted call accepted each.
`Favoured` is the converse: while the submission is right, nothing has been found
against it, and only silence leaves anything open.

`Injective` excludes one direction only: a coordination root equal to a bound
worktree or inside it. A worktree beneath a coordination root is allowed by the
code and by `docs/schema-contract-v1alpha1.md:1358-1361`; the honest host of the
run has one (`/s/b` beneath `/s`), and `UnionIsInjective` says that the check
refuses nothing else.

`UnionIsInjective`, on which `HostInjective` and `RightIsAccepted` rest, needs two
facts about the operators. `FlattenFacts`: the fold that
joins the bindings of all overlays has each of them and nothing else (again a
least counterexample, over the fold's prefixes). `RelatedIsInside` and
`InsideIsRelated`: comparing texts by a prefix that ends at a separator is the
relation of one way down being the beginning of another. The latter is false of
arbitrary texts; `RootsAssumption` says what makes it true, that a root is an
absolute path and ends in a separator only where it is the root of its volume
(`posixAbsoluteHostPath` and `windowsDriveAbsoluteHostPath`,
`schemas/v1alpha1/common.schema.json:109-120`). `SubmissionsAssumption`: lists are
lists, priorities and identifiers are ordered, no role is called "deny".

### Plan (`PlanProofs`)

| theorem | states |
|---|---|
| `AcceptedIsWellFormed` | `Spec => []AcceptedPlanIsWellFormed` |
| `AcceptedIsCanonical` | `Spec => []ConditionsAreCanonical` |
| `CompositionIsSimultaneous` | `Spec => []FinalIsSimultaneous` |
| `AcceptedKeepsPromises` | `Spec => []PromisesAreKept` |
| `AuthorityCovers` | `Spec => []AuthorityCoversThePlan` |
| `RightIsNotRefuted` | `"validator" \notin Unreliable` implies `Spec => []RightPlanIsNotRefuted` |

`Inv` keeps the baseline's rules from the stage that checks them, and for every
composed state those of its projection. `Judgements` keeps what an untainted call
has seen of the transitions so far, and that a composed state is the fold of the
transitions over the baseline. What the fold yields is a lemma by the least
counterexample: a target no transition names keeps its value, and with one
transition per target the last word on it is that transition's, wherever it
stands in the list. `Clear` says that a right plan has failed nowhere; to keep it,
each of the conditions, derived operations and postconditions that the code checks
must follow from what the documents ask (`Right`).

`RightIsNotRefuted` has its hypothesis because without it the statement is false:
a validator that raises is reported as a finding, which run
`missing_validator` shows. `Right` includes that HEAD without a commit has no entries
(`docs/schema-contract-v1alpha1.md:1654`), without which the code refutes the
plan.

`PlansAssumption` and `NamesAssumption` type a plan as
`task-contract.schema.json` and the materialisation do: a view is a record of
functions and sets, a condition is a bare word or spells its inventory out, a
transition has one target and at most one new value, paths have a place in byte
order, and a file may have more than one content.

### The path language (`PathProofs`)

For every set of questions - any scopes, patterns, paths and limits -, any
interruption, any `MaxLength` and any notion of normal form (`Nfc` is expanded in
no proof):

| theorem | states |
|---|---|
| `ProofFailsClosed` | `Spec => []FailsClosed` |
| `MembershipExact` | `Spec => []MembershipIsExact` |
| `RefutedWitness` | `Spec => []RefutedHasWitness` |
| `RoundsRemove` | `Spec => []RoundsRemoveNewWords` |
| `ProvenIsForAllPaths` | `Spec => [](answer = "proven" => Included)` |
| `ProvenIncluded` | `Spec => []ProvenIsIncluded` |
| `TypeCorrect` | `Spec => []TypeOK` |
| `ProofRunsItsCourse` | `Spec => [](Left \in 0 .. MostSteps) /\ [][Left' < Left]_vars` |

`Included` quantifies over every word of code points that is a path in normal
form; the property that the run checks, `ProvenIsIncluded`, samples a few scalars.
The argument has four parts.

1. *Automata mean what patterns mean.* The reference definitions read a pattern
   backwards along the segments of a text, the automata forwards along its
   scalars. `Promising(pattern, word, k, q)` connects them: after k scalars, what
   state q still accepts is what the rest of the pattern matches of the rest of
   the word. No edge makes a promise that was not there before (`EpsilonBack`,
   `EdgeBack`), and a set closed under epsilon keeps one (`PromiseGoesOn`), so a
   determinised run accepts exactly what the pattern matches (`AutomatonIsExact`).
   This needs `Closure` to be the least closed set (`ClosureFacts`), which rests
   on an automaton having finitely many states. The universe has a counterpart:
   its state says how the beginning read so far is that of a path
   (`UniverseSteps`, `UniverseAtEnd`), although it forgets every component that no
   reserved name begins with.
2. *The product reads words.* By 1, a product state reached by a word accepts
   if the word is a path, widens and is none of the excluded (`AcceptsIs`).
3. *The search.* The inductive invariant `SearchInv` adds `Searching` to the `Inv`
   of `ProofFailsClosed`: a product state that was found is in the queue, or does
   not accept and leads by every scalar of the alphabet to states found
   (`Explored`); and predecessors spell, for each of them, a word that reaches it
   (`Spells`). The second half gives witnesses and rounds, the first gives
   exhaustion: an empty queue leaves nothing unexplored.
4. *The alphabet.* A search tries one scalar per interval. A scalar that lies in
   the same interval as another leads from every product state to the same
   successor (`StepRepresented`): either they are equal, or no pattern, excluded
   word or rule of the grammar names one of them and they are both letters or
   both not (`AlikeAre`, `StepNeutral`). So a path is followed through states that
   were found as long as it is not pruned, and `Hopeless` prunes only what cannot
   widen any more (`ExhaustedIsIncluded`).

`TypeCorrect` has one part that is not obvious, that the charge of a compilation
- a sum over a set of automata - is a number (`ChargeIs`).

`ProofRunsItsCourse` says that every step, of a proof as of a walk, leaves less
to do, and that there is never more to do than three steps, the question's
budget of transitions and twice its budget of refinements. Popping a state
charges one transition for every member of the alphabet, and the alphabet is
never empty (`AlphabetCharges`), so that no round of the search is free; a word
that is removed charges a refinement, which pays for itself and for beginning
anew. `Granted` says that the limits were compared before either is done, and
that nothing was charged before. The states of the product need no bound in this.

`QuestionsAssumption`: a text consists of code points, a scope's lists are lists,
and a pattern is what a text has between its slashes (`_parse_pattern` splits it
there). `LengthAssumption`: the limit of a path's length is a number.
`SampleAssumption`: the run's sample consists of code points.

### Arrays (`ArrayProofs`)

| theorem | states |
|---|---|
| `RowsAreDocumented` | `Spec => []RowIsTheDocumentedOne` |
| `ArraysObeyTheirRows` | `Spec => []EveryArrayObeysItsRow` |

For `RowsAreDocumented` the invariant `OnTheWay` says of any document what the
walk knows at a depth: the kind of the resource it is in (`KindAt`) and the type
of the postcondition it is in (`TypeAt`) are those that the way so far met last.
At the array that is what its row depends on, and `RowsRight` compares
`check_array`'s choice with the matrix for each place, document by document
(`BundleRows` to `DeliveryRows`). `ArraysObeyTheirRows` adds the order: for
arrays of any length, what the comparison of neighbours accepts is what the
matrix calls canonical for any two items, and no canonical array is refuted.

`PlacesAssumption` says that what is walked are arrays of the seven documents
(`DocumentedPlaces`, the places of the schemas with the rows of the matrix);
`ArraysAssumption` types their items.

### Only model-checked

* Liveness (`CallEnds`, `PairEnds`, `ProofEnds`): fairness and ENABLED are out of
  the prover's reach. What bounds the number of steps is proved for all three
  (`CallsRunDown`, `PairRunsItsCourse`, `ProofRunsItsCourse`), and for the calls
  that a step is always to be made (`CallsNeverWait`).
* The two findings: counterexamples of their runs.

Modules that are proved about, and those they use, declare no RECURSIVE
operator; recursion is by recursive functions and folds.

## 5. Not modelled, and the plan

To be added: a chain of calls, a contract's result consumed by a receipt's and a
receipt's by a delivery's (the second half is `DeliveryPair`).

Not planned:

* the JSON Schema engine and the schema documents, beyond the conditional parts
  in `ReceiptRules`: declarative, interpreted by a library;
* the adapter to that engine keeps a registry and an index of schema locations
  per context, which serve the texts of diagnostics; its three outcomes are in
  every call;
* `catalog.py`, `registry.py`, `formats.py`: constant tables, resource loading,
  two regular expressions; no state;
* wording and order of diagnostics, and the test suite;
* an implementation of the proof provider: there is none yet. It is modelled by
  what its callers may meet.
