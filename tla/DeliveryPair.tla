---------------------------- MODULE DeliveryPair ----------------------------
(***************************************************************************)
(* validate_delivery_pair_static of static_validation.py, together with    *)
(* the earlier receipt calls whose results it takes as a proof, while      *)
(* somebody else holds references to the receipt and to the delivery       *)
(* result and changes them between any two steps.                          *)
(*                                                                         *)
(* A handle is the operand it is bound to; it is broken for good by a      *)
(* change of that operand (_validate_handle: immutable-input continuity).  *)
(***************************************************************************)
EXTENDS StaticContext, Integers, FiniteSets

CONSTANTS
  Receipts,     \* receipts: id, digest, finishedAt, shaped, and the "scope"
                \* and "result" of the call that validates the receipt
  Deliveries,   \* delivery results: receiptId, receiptDigest, attemptedAt,
                \* shaped, ordered
  MaxValidated  \* a bound on the receipts that receipt calls look at

VARIABLES
  receipt, delivery,    \* the operands as they are now
  validated,            \* the receipts that a completed call has looked at
  phase, ctx, checked,
  broken,               \* the operands changed since their handle was given
  stale                 \* those that were when the re-check began

vars == <<receipt, delivery, validated, phase, ctx, checked, broken, stale>>
operands == <<receipt, delivery, validated>>

Operand == {"receipt", "delivery"}
Requirement == {"PROOF.RECEIPT_DIGEST", "PROOF.INPUT", "STRUCTURE", "VALIDATOR.STRUCTURED_ERRORS",
                "ARRAY.52", "DELIVERY.ID", "DELIVERY.COPY", "CH19"}

Init ==
  /\ receipt \in Receipts /\ delivery \in Deliveries
  /\ validated = {} /\ phase = "completed" /\ ctx = NewContext /\ checked = 0
  /\ broken = {} /\ stale = {}

\* Mutant of CompletedReceipt: the result of any call will do.
CompletedAnything(r) == Completed(r.result)

\* _completed_static(value, "execution-receipt")
CompletedReceipt(r) == r.scope = "execution-receipt" /\ Completed(r.result)

Go(next, c) == phase' = next /\ ctx' = c /\ UNCHANGED stale

\* The call turns to _finish_result.
Leave(c) == phase' = "recheck" /\ ctx' = c /\ stale' = broken'

Pin(operand) == broken' = broken \ {operand}

\* The provider has a result for the receipt, or does not answer; anything but
\* a completed validation of a receipt leaves a direct obligation.
RequireCompleted ==
  /\ phase = "completed"
  /\ \/ /\ receipt \in validated
        /\ Pin("receipt")
        /\ LET c == Consume(ctx, "receipt")
           IN IF CompletedReceipt(receipt) THEN Go("shape", c)
              ELSE Leave(Unavailable(c, "PROOF.RECEIPT_DIGEST", TRUE))
     \/ /\ UNCHANGED broken
        /\ Leave(Unavailable(Unavailable(ctx, "PROOF.RECEIPT_DIGEST", FALSE), "PROOF.RECEIPT_DIGEST", TRUE))
  /\ UNCHANGED <<operands, checked>>

\* _validate_shape: no errors, errors, or an exception.
ValidateShape(shaped, next, refused, unanswered) ==
  /\ UNCHANGED <<operands, checked, broken>>
  /\ \/ shaped /\ Go(next, ctx)
     \/ ~shaped /\ Leave(refused)
     \/ Leave(unanswered)

Refused == Report(ctx, {"STRUCTURE"})
Unanswered == Unavailable(ctx, "VALIDATOR.STRUCTURED_ERRORS", TRUE)

ShapeDelivery ==
  phase = "shape" /\ ValidateShape(delivery.shaped, "input", LeaveUnevaluated(Refused), LeaveUnevaluated(Unanswered))

RequireInput ==
  /\ phase = "input"
  /\ \/ Pin("delivery") /\ Go("arrays", Consume(ctx, "delivery"))
     \/ UNCHANGED broken /\ Go("arrays", Unavailable(ctx, "PROOF.INPUT", FALSE))
  /\ UNCHANGED <<operands, checked>>

CheckCanonicalArrays ==
  /\ phase = "arrays"
  /\ UNCHANGED <<operands, checked, broken>>
  /\ LET judged == Report(ctx, IF delivery.ordered THEN {} ELSE {"ARRAY.52"})
     IN IF judged.failed THEN Leave(judged) ELSE Go("receiptShape", judged)

ShapeReceipt == phase = "receiptShape" /\ ValidateShape(receipt.shaped, "compare", Refused, Unanswered)

\* What a delivery result must say of its receipt; CH19.
Violations(d, r) ==
  {x[1] : x \in {y \in {<<"DELIVERY.ID", d.receiptId = r.id>>,
                        <<"DELIVERY.COPY", d.receiptDigest = r.digest>>,
                        <<"CH19", r.finishedAt <= d.attemptedAt>>} : ~y[2]}}

Compare ==
  /\ phase = "compare"
  /\ UNCHANGED <<operands, checked, broken>>
  /\ Leave(Report(ctx, Violations(delivery, receipt)))

\* Mutant of RecheckHandle: a broken handle is noted only if it is the first.
RecheckFirstHandle ==
  /\ phase = "recheck" /\ checked < Len(ctx.proofs)
  /\ checked' = checked + 1
  /\ ctx' = IF checked = 0 /\ ctx.proofs[1] \in broken THEN Unavailable(ctx, "PROOF.INPUT", FALSE) ELSE ctx
  /\ UNCHANGED <<operands, phase, broken, stale>>

\* Mutant of RecheckHandle: the handle is asked for again, and remembered again.
RecheckByConsuming ==
  /\ phase = "recheck" /\ checked < Len(ctx.proofs)
  /\ checked' = checked + 1 /\ ctx' = Consume(ctx, ctx.proofs[checked'])
  /\ UNCHANGED <<operands, phase, broken, stale>>

\* Mutant of RecheckHandle: a broken handle starts the loop over.
RecheckFromStart ==
  /\ phase = "recheck" /\ checked < Len(ctx.proofs)
  /\ checked' = IF ctx.proofs[checked + 1] \in broken THEN 0 ELSE checked + 1
  /\ ctx' = IF ctx.proofs[checked + 1] \in broken THEN Unavailable(ctx, "PROOF.INPUT", FALSE) ELSE ctx
  /\ UNCHANGED <<operands, phase, broken, stale>>

\* One round of the loop of _finish_result.
RecheckHandle ==
  /\ phase = "recheck" /\ checked < Len(ctx.proofs)
  /\ checked' = checked + 1
  /\ ctx' = IF ctx.proofs[checked'] \in broken THEN Unavailable(ctx, "PROOF.INPUT", FALSE) ELSE ctx
  /\ UNCHANGED <<operands, phase, broken, stale>>

Conclude ==
  /\ phase = "recheck" /\ checked = Len(ctx.proofs)
  /\ phase' = "done"
  /\ UNCHANGED <<operands, ctx, checked, broken, stale>>

\* A receipt call on the receipt as it is now.
ValidateReceipt ==
  /\ phase # "done"
  /\ validated' = validated \cup {receipt} /\ Cardinality(validated') <= MaxValidated
  /\ UNCHANGED <<receipt, delivery, phase, ctx, checked, broken, stale>>

ChangeReceipt ==
  /\ phase # "done"
  /\ receipt' \in Receipts \ {receipt} /\ broken' = broken \cup {"receipt"}
  /\ UNCHANGED <<delivery, validated, phase, ctx, checked, stale>>

ChangeDelivery ==
  /\ phase # "done"
  /\ delivery' \in Deliveries \ {delivery} /\ broken' = broken \cup {"delivery"}
  /\ UNCHANGED <<receipt, validated, phase, ctx, checked, stale>>

CallStep == \/ RequireCompleted \/ ShapeDelivery \/ RequireInput \/ CheckCanonicalArrays
            \/ ShapeReceipt \/ Compare \/ RecheckHandle \/ Conclude

Next == CallStep \/ ValidateReceipt \/ ChangeReceipt \/ ChangeDelivery

Spec == Init /\ [][Next]_vars /\ WF_vars(CallStep)

-----------------------------------------------------------------------------
Done == phase = "done"
Accepted == Done /\ Verdict(ctx) = "PASS"

\* The variables have their types.
TypeOK ==
  /\ receipt \in Receipts /\ delivery \in Deliveries /\ validated \subseteq Receipts
  /\ phase \in {"completed", "shape", "input", "arrays", "receiptShape", "compare", "recheck", "done"}
  /\ ctx \in ContextType(Requirement, Operand)
  /\ ctx.proofs \in {<< >>, <<"receipt">>, <<"receipt", "delivery">>}
  /\ checked \in 0 .. Len(ctx.proofs)
  /\ broken \subseteq Operand /\ stale \subseteq Operand

\* A receipt or a delivery result that changed after its proof was consumed,
\* and before the last re-check began, keeps the pair from acceptance (the
\* comment on _finish_result).
StalePairIsNotAccepted == Accepted => stale = {}

\* An accepted delivery is one of a receipt that a receipt call has accepted in
\* full, that names it, copies its digest and was not attempted before it was
\* finished; and both are still what was compared, unless they changed after
\* the last re-check began (validate_delivery_pair_static, _completed_static).
DeliveryIsOfACompletedReceipt ==
  Accepted /\ broken = {} =>
    /\ receipt \in validated /\ CompletedReceipt(receipt)
    /\ receipt.scope = "execution-receipt"
    /\ delivery.receiptId = receipt.id /\ delivery.receiptDigest = receipt.digest
    /\ receipt.finishedAt <= delivery.attemptedAt

\* The call ends, however often somebody changes an operand meanwhile.
PairEnds == <>Done
=============================================================================
