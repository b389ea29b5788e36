-------------------------- MODULE ReceiptValidation --------------------------
(***************************************************************************)
(* validate_execution_receipt_static, stage by stage: a supplied receipt   *)
(* with its task contract and acquisition source runs through the rules of *)
(* ReceiptRules, which decide what later stages may look at and which      *)
(* proofs may be asked for.  The proof provider, the structural validator  *)
(* and the path-language proof may fail to answer wherever Unreliable says *)
(* so.                                                                     *)
(***************************************************************************)
EXTENDS ReceiptRules, StaticContext

CONSTANTS
  Submissions,   \* the calls explored: a receipt, a contract, sources, and
                 \* the digests that the two state wrongly ("mismatched")
  Unreliable     \* the answers that may stay out, a subset of Services

\* What the call may ask for: five kinds of proof handle; the order of two
\* remotes of the contract; a completed result that is one; a structural
\* verdict; a decided path; and a handle that is still good at the end.
Digests  == {"contract digest", "source digest", "evidence digest", "receipt digest"}
Handles  == {"input", "completed"} \cup Digests
Services == Handles \cup {"remotes", "complete", "validator", "paths", "continuity"}

\* Submissions are typed as the schemas type them (execution-receipt.schema.json and
\* task-contract.schema.json: the enumerations of check types and denying checkpoints,
\* canonical instants); what "shape" asks beyond that may fail.
ASSUME ReceiptAssumption ==
  /\ Unreliable \subseteq Services
  /\ \A s \in Submissions :
       /\ DOMAIN s = {"receipt", "contract", "sources", "mismatched"}
       /\ s.mismatched \subseteq Digests
       /\ Len(s.receipt.checks) \in Nat /\ DOMAIN s.receipt.checks = 1 .. Len(s.receipt.checks)
       /\ \A i \in DOMAIN s.receipt.checks :
            /\ s.receipt.checks[i].type \in Ordinary \cup {"L", "F"}
            /\ s.receipt.checks[i].observedAt \in Nat
       /\ {s.receipt.startedAt, s.receipt.sanitizedAt, s.receipt.finishedAt} \subseteq Nat
       /\ s.receipt.origin.observedAt \in Nat
       /\ Issued(s.receipt) \/ s.receipt.origin.checkpoint \in Gates \cup {"N", "A", "R", "I"}
       /\ Issued(s.receipt) /\ s.contract # Absent =>
            /\ {s.contract.checkpointAt, s.contract.issuedAt, s.contract.expiresAt} \subseteq Nat
            /\ s.contract.allowWrite \in BOOLEAN

VARIABLES
  submission,       \* the arguments of the call
  bindings,         \* the same, without a contract that did not validate
  at,               \* the next stage
  ctx,              \* the call's context
  identityValid,    \* bindings["identity_valid"]
  controllerEqual,  \* bindings["controller_equal"]
  held,             \* ctx.chronology: the relations found to hold
  derived,          \* ctx.derived_chronology: the displays set to True
  result            \* the StaticValidationResult

vars == <<submission, bindings, at, ctx, identityValid, controllerEqual,
          held, derived, result>>

Stages == <<"shape", "input", "sequences", "presence", "contract", "source", "prefix",
            "prefix chronology", "evidence digest", "remaining", "postconditions",
            "chronology", "finalization", "receipt digest", "finish", "over">>

receipt == submission.receipt

-----------------------------------------------------------------------------
Fails(service) == service \in Unreliable
Holds(c, handle) == \E i \in DOMAIN c.proofs : c.proofs[i] = handle

\* Mutant of Asked: no obligation is kept of a handle that stays out.
AskedOnce(c, requirement, handle) == {Consume(c, handle)} \cup If(Fails(handle), {c})

\* _proof: the contexts in which the request for a handle can leave the call.
Asked(c, requirement, handle) ==
  {Consume(c, handle)} \cup If(Fails(handle), {Unavailable(c, requirement, FALSE)})

\* A digest that was answered is compared with the one the submission states.
Compared(c, requirement, handle) ==
  IF Holds(c, handle) /\ handle \in submission.mismatched THEN Report(c, {requirement}) ELSE c

\* The call goes on to a stage with context c.
Go(stage, c) ==
  /\ ctx' = c /\ at' = stage
  /\ UNCHANGED <<submission, result>>
Here(stage) == at = stage
Bindings  == UNCHANGED <<bindings, identityValid, controllerEqual>>
Relations == UNCHANGED <<held, derived>>

-----------------------------------------------------------------------------
ValidateShape ==
  /\ Here("shape")
  /\ \/ /\ Shaped(receipt)
        /\ Go("input", ctx)
     \/ /\ ~Shaped(receipt)
        /\ Go("finish", LeaveUnevaluated(Report(ctx, {"VALIDATOR.STRUCTURED_ERRORS"})))
     \/ /\ Fails("validator")
        /\ Go("finish", Unavailable(ctx, "VALIDATOR.STRUCTURED_ERRORS", TRUE))
  /\ Bindings /\ Relations

RequireInput ==
  /\ Here("input")
  /\ \E c \in Asked(ctx, "PROOF.INPUT", "input") : Go("sequences", c)
  /\ Bindings /\ Relations

\* The array matrix, then the selectors, which demand the same sequences again.
PrepareSequenceSelectors ==
  /\ Here("sequences")
  /\ IF Sequenced(receipt) THEN Go("presence", ctx)
     ELSE Go("finish", Report(ctx, {"ARRAY.46"}))
  /\ Bindings /\ Relations

\* What becomes of the contract: bound, with the order of its remotes perhaps
\* left open, or not; for a denial there must be none.
ContractReadings ==
  LET bound   == [submission EXCEPT !.contract = Absent]
      missing == [view |-> bound, c |-> Unavailable(ctx, "PROOF.CONTRACT_BINDING", TRUE)]
      refused == [view |-> bound, c |-> Report(ctx, {"VALIDATOR.STRUCTURED_ERRORS"})]
      unread  == [view |-> bound, c |-> Unavailable(ctx, "VALIDATOR.STRUCTURED_ERRORS", TRUE)]
      read    == [view |-> submission, c |-> ctx]
      gap     == [read EXCEPT !.c = LeaveUnevaluated(Unavailable(ctx, "ARRAY.01", FALSE))]
  IN IF ~Issued(receipt) THEN {read}
     ELSE IF submission.contract = Absent THEN {missing}
     ELSE {IF submission.contract.shaped THEN read ELSE refused}
          \cup If(Fails("validator"), {unread})
          \cup If(Fails("remotes") /\ submission.contract.shaped, {gap})

CheckReceiptPresence ==
  /\ Here("presence")
  /\ \E reading \in ContractReadings :
       LET c == Report(reading.c, Violated(PresenceRules(reading.view)))
           open == Unavailable(c, "VALIDATOR.STRUCTURED_ERRORS", TRUE)
       IN /\ \E d \in {c} \cup If(Fails("validator") /\ submission.sources # << >>, {open}) :
               Go(IF d.failed THEN "receipt digest" ELSE "contract", d)
          /\ bindings' = reading.view
  /\ UNCHANGED <<identityValid, controllerEqual>> /\ Relations

\* Nothing was added to the context that would cost the bindings their identity.
Clean(c) == ~c.failed /\ c.required = ctx.required

BindContract ==
  /\ Here("contract")
  /\ LET Bind(c) == Go("source", c) /\ identityValid' = (identityValid /\ Clean(c))
     IN IF ~Issued(receipt) THEN Bind(ctx)
        ELSE IF ~Bound(bindings) THEN Go("source", ctx) /\ identityValid' = FALSE
        ELSE \E c \in Asked(ctx, "PROOF.CONTRACT_BINDING", "completed") :
               IF ~Holds(c, "completed") THEN Bind(c)
               ELSE \/ /\ Fails("complete")
                       /\ Bind(Unavailable(c, "PROOF.CONTRACT_BINDING", TRUE))
                    \/ \E d \in Asked(c, "RC02", "contract digest") :
                         IF ~Holds(d, "contract digest") THEN Bind(d)
                         ELSE Bind(Report(Compared(d, "RC02", "contract digest"),
                                          Violated(ContractRules(bindings))))
  /\ UNCHANGED <<bindings, controllerEqual>> /\ Relations

\* Without valid identities the rules that rest on them are left out.
BindSource ==
  /\ Here("source")
  /\ LET lease == Stable(bindings) = "lease"
         Bind(c, valid) ==
           LET identity == identityValid /\ valid /\ ~c.failed
           IN /\ identityValid' = identity
              /\ IF identity THEN Go("prefix", c) ELSE Go("receipt digest", LeaveUnevaluated(c))
     IN IF ~lease THEN Bind(ctx, Stable(bindings) # "unknown")
        ELSE \/ \E c \in Asked(ctx, "PROOF.SOURCE_DIGEST", "source digest") :
                  IF ~Holds(c, "source digest") THEN Bind(c, FALSE)
                  ELSE Bind(Report(Compared(c, "AI19", "source digest"),
                                   Violated(SourceRules(bindings))), TRUE)
             \/ /\ Fails("validator")
                /\ Bind(Unavailable(ctx, "VALIDATOR.STRUCTURED_ERRORS", TRUE), FALSE)
  /\ UNCHANGED <<bindings, controllerEqual>> /\ Relations

CheckPrefixAndController ==
  /\ Here("prefix")
  /\ LET found == PrefixRules(bindings)
                  \cup (IF Issued(receipt) THEN {} ELSE PrerequisiteRules(bindings))
                  \cup (IF Issued(receipt) \/ Controllers(receipt) = {} THEN {}
                        ELSE ControllerRules(bindings))
         c == Report(ctx, Violated(found))
     IN /\ Go("prefix chronology", c)
        /\ identityValid' = (Issued(receipt) \/ ~c.failed)
        /\ controllerEqual' = (/\ ~Issued(receipt) /\ Controllers(receipt) # {}
                               /\ receipt.origin.observedAt = Controller(receipt).observedAt)
  /\ UNCHANGED bindings /\ Relations

\* _relation for each evaluated relation.
Relate(relations, stage) ==
  /\ Go(stage, Report(ctx, Violated(relations)))
  /\ held' = held \cup {relation[1] : relation \in {each \in relations : each[2]}}

CheckPrefixChronology ==
  /\ Here("prefix chronology")
  /\ Relate(PrefixRelations(bindings), "evidence digest")
  /\ UNCHANGED derived /\ Bindings

CheckEvidenceDigest ==
  /\ Here("evidence digest")
  /\ IF Issued(receipt) \/ ~identityValid \/ ctx.failed THEN Go("remaining", ctx)
     ELSE \E c \in Asked(ctx, "PROOF.DENIAL_DIGEST", "evidence digest") :
            Go("remaining", Compared(c, "PROOF.DENIAL_DIGEST", "evidence digest"))
  /\ Bindings /\ Relations

\* The paths whose membership in the scope stays open: all of them without an
\* input proof, otherwise those the path proof runs out of budget for.
OpenPaths(c, paths) ==
  IF ~Holds(c, "input") THEN {paths} ELSE IF Fails("paths") THEN SUBSET paths ELSE {{}}

CheckReceiptRemaining ==
  /\ Here("remaining")
  /\ LET c == Report(ctx, Violated(ExecutionRules(receipt)))
         carried == Report(c, Violated(CarrierRules(bindings)))
         paths == Carried(receipt) \cup receipt.changed
         requirement == IF Holds(c, "input") THEN "D10.path-proof-unavailable" ELSE "PROOF.INPUT"
     IN IF ~Issued(receipt) THEN Go("postconditions", ctx)
        ELSE IF ~ScopeDue(bindings) THEN Go("postconditions", carried)
        ELSE \E open \in OpenPaths(c, paths) :
               Go("postconditions",
                  Report(IF open = {} THEN carried ELSE Unavailable(carried, requirement, TRUE),
                         Violated(ScopeRules(bindings, open))))
  /\ Bindings /\ Relations

CheckPostconditionBindings ==
  /\ Here("postconditions")
  /\ Go("chronology",
        IF Issued(receipt) THEN Report(ctx, Violated(PostconditionRules(bindings))) ELSE ctx)
  /\ Bindings /\ Relations

CheckRemainingChronology ==
  /\ Here("chronology")
  /\ Relate(RemainingRelations(bindings), "finalization")
  /\ derived' = Derived(held', Operands(bindings, controllerEqual))
  /\ Bindings

CheckOutcomeAndFinalization ==
  /\ Here("finalization")
  /\ Go("receipt digest", Report(ctx, Violated(FinalizationRules(bindings))))
  /\ Bindings /\ Relations

\* Mutant of CheckReceiptDigest: asked for whenever nothing is violated.
CheckReceiptDigestEarly ==
  /\ Here("receipt digest")
  /\ IF ctx.failed THEN Go("finish", ctx)
     ELSE \E c \in Asked(ctx, "PROOF.RECEIPT_DIGEST", "receipt digest") :
            Go("finish", Compared(c, "PROOF.RECEIPT_DIGEST", "receipt digest"))
  /\ Bindings /\ Relations

CheckReceiptDigest ==
  /\ Here("receipt digest")
  /\ IF ~Untainted(ctx) THEN Go("finish", ctx)
     ELSE \E c \in Asked(ctx, "PROOF.RECEIPT_DIGEST", "receipt digest") :
            Go("finish", Compared(c, "PROOF.RECEIPT_DIGEST", "receipt digest"))
  /\ Bindings /\ Relations

\* _finish_result, with its re-check of the handles as one step.
FinishResult ==
  /\ Here("finish")
  /\ \E c \in {ctx} \cup If(Fails("continuity") /\ ctx.proofs # << >>,
                            {Unavailable(ctx, "PROOF.INPUT", FALSE)}) :
       /\ ctx' = c
       /\ result' = Result(c)
  /\ at' = "over"
  /\ UNCHANGED submission /\ Bindings /\ Relations

Init ==
  /\ submission \in Submissions
  /\ bindings = submission
  /\ at = "shape"
  /\ ctx = NewContext
  /\ identityValid = TRUE /\ controllerEqual = FALSE
  /\ held = {} /\ derived = {}
  /\ result = Pending

Next ==
  \/ ValidateShape \/ RequireInput \/ PrepareSequenceSelectors
  \/ CheckReceiptPresence \/ BindContract \/ BindSource
  \/ CheckPrefixAndController \/ CheckPrefixChronology \/ CheckEvidenceDigest
  \/ CheckReceiptRemaining \/ CheckPostconditionBindings
  \/ CheckRemainingChronology \/ CheckOutcomeAndFinalization
  \/ CheckReceiptDigest \/ FinishResult

Spec == Init /\ [][Next]_vars
=============================================================================
