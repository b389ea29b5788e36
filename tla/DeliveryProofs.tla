--------------------------- MODULE DeliveryProofs ---------------------------
(***************************************************************************)
(* Proofs about DeliveryPair, for any receipts, deliveries and changes.    *)
(***************************************************************************)
EXTENDS DeliveryPair, SequenceTheorems, TLAPS

Context == ContextType(Requirement, Operand)
Dented(c) == c.failed \/ c.unevaluated \/ c.required # {}

\* k is c with possibly more dents and the same handles.
Onward(c, k) == k \in Context /\ k.proofs = c.proofs /\ (Dented(c) => Dented(k))

\* A new context holds no handle.
LEMMA NewFacts == NewContext \in Context /\ NewContext.proofs = << >>
BY DEF NewContext, Context, ContextType

\* A violation dents the context it is reported to.
LEMMA ReportFacts ==
  ASSUME NEW c \in Context, NEW v \in SUBSET Requirement
  PROVE  /\ Onward(c, Report(c, v))
         /\ v # {} => Dented(Report(c, v))
BY DEF Report, Context, ContextType, Onward, Dented

\* An obligation is kept.
LEMMA UnavailableFacts ==
  ASSUME NEW c \in Context, NEW q \in Requirement, NEW direct \in BOOLEAN
  PROVE  Onward(c, Unavailable(c, q, direct)) /\ Unavailable(c, q, direct).required # {}
BY DEF Unavailable, Context, ContextType, Onward, Dented

\* A predicate that is left out dents the context.
LEMMA LeaveFacts ==
  ASSUME NEW c \in Context
  PROVE  Onward(c, LeaveUnevaluated(c)) /\ Dented(LeaveUnevaluated(c))
BY DEF LeaveUnevaluated, Context, ContextType, Onward, Dented

\* Consuming a handle adds it and mends nothing.
LEMMA ConsumeFacts ==
  ASSUME NEW c \in Context, NEW o \in Operand
  PROVE  /\ Consume(c, o) \in Context /\ Consume(c, o).proofs = Append(c.proofs, o)
         /\ Dented(c) => Dented(Consume(c, o))
<1>1. Append(c.proofs, o) \in Seq(Operand) BY DEF Context, ContextType
<1>2. QED BY <1>1 DEF Consume, Context, ContextType, Dented

\* A delivery against which nothing was found names the receipt, copies it and is not earlier.
LEMMA NothingViolated ==
  ASSUME NEW d, NEW r, Violations(d, r) = {}
  PROVE  d.receiptId = r.id /\ d.receiptDigest = r.digest /\ r.finishedAt <= d.attemptedAt
<1> DEFINE all == {<<"DELIVERY.ID", d.receiptId = r.id>>, <<"DELIVERY.COPY", d.receiptDigest = r.digest>>,
                   <<"CH19", r.finishedAt <= d.attemptedAt>>}
<1> DEFINE open == {y \in all : ~y[2]}
<1>1. {x[1] : x \in open} = {} BY DEF Violations
<1> HIDE DEF open
<1>2. open = {} BY <1>1
<1> USE DEF open
<1> HIDE DEF all
<1>3. \A y \in all : y[2] BY <1>2
<1> USE DEF all
<1>4. /\ <<"DELIVERY.ID", d.receiptId = r.id>> \in all
      /\ <<"DELIVERY.COPY", d.receiptDigest = r.digest>> \in all
      /\ <<"CH19", r.finishedAt <= d.attemptedAt>> \in all OBVIOUS
<1> HIDE DEF all
<1>5. /\ <<"DELIVERY.ID", d.receiptId = r.id>>[2]
      /\ <<"DELIVERY.COPY", d.receiptDigest = r.digest>>[2]
      /\ <<"CH19", r.finishedAt <= d.attemptedAt>>[2] BY <1>3, <1>4
<1>6. QED BY <1>5

\* The receipt's handle and then the delivery's are both handles.
LEMMA BothHandles == Append(<<"receipt">>, "delivery") = <<"receipt", "delivery">>
<1> DEFINE s == Append(<<"receipt">>, "delivery")
<1> DEFINE t == <<"receipt", "delivery">>
<1>1. s \in Seq(Operand) /\ t \in Seq(Operand) /\ Len(s) = 2 /\ Len(t) = 2 BY DEF Operand
<1>2. s[1] = t[1] /\ s[2] = t[2] OBVIOUS
<1> HIDE DEF s, t
<1>3. \A i \in 1 .. Len(s) : s[i] = t[i] BY <1>1, <1>2
<1>4. s = t BY <1>1, <1>3, SeqEqual
<1>5. QED BY <1>4 DEF s, t

\* Findings are requirements.
LEMMA ViolationsType == \A d, r : Violations(d, r) \in SUBSET Requirement
BY DEF Violations, Requirement

-----------------------------------------------------------------------------
\* The inductive invariant.

Judging == phase \in {"recheck", "done"}

\* How far the call has come is told by its handles.
HandlesOfPhase ==
  /\ phase = "completed" => ctx.proofs = << >>
  /\ phase \in {"shape", "input"} => ctx.proofs = <<"receipt">>
  /\ phase \in {"arrays", "receiptShape", "compare"} \/ (Judging /\ ~Dented(ctx)) =>
       ctx.proofs = <<"receipt", "delivery">> \/ (ctx.proofs = <<"receipt">> /\ Dented(ctx))
  /\ ~Judging => checked = 0
  /\ phase = "done" => checked = Len(ctx.proofs)

\* What the first proof said holds of the receipt as long as nobody changes it.
ReceiptIsPinned ==
  phase # "completed" /\ (Judging => ~Dented(ctx)) /\ "receipt" \notin broken =>
    receipt \in validated /\ CompletedReceipt(receipt)

\* So does what was compared.
PairIsPinned == Judging /\ ~Dented(ctx) /\ broken = {} => Violations(delivery, receipt) = {}

\* A stale handle that the loop has passed has left its mark.
StaleIsMarked ==
  Judging => stale \subseteq broken /\ \A i \in 1 .. checked : ctx.proofs[i] \in stale => Dented(ctx)

Inv == TypeOK /\ HandlesOfPhase /\ ReceiptIsPinned /\ PairIsPinned /\ StaleIsMarked

\* The invariant holds before any call.
LEMMA InitInv == Init => Inv
<1>1. SUFFICES ASSUME Init PROVE Inv OBVIOUS
<1>2. ctx \in Context /\ ctx.proofs = << >> /\ checked = 0 /\ phase = "completed"
  BY <1>1, NewFacts DEF Init
<1>l. Len(ctx.proofs) \in Nat BY <1>2 DEF Context, ContextType
<1>3. TypeOK BY <1>1, <1>2, <1>l DEF Init, TypeOK, Context
<1>4. QED
  BY <1>2, <1>3 DEF Inv, HandlesOfPhase, ReceiptIsPinned, PairIsPinned, StaleIsMarked, Judging

\* A call that turns to _finish_result with a dent need keep no other promise.
LEMMA LeaveDented ==
  ASSUME Inv, NEW k \in Context, Leave(k), Dented(k), checked = 0,
         k.proofs \in {<< >>, <<"receipt">>, <<"receipt", "delivery">>},
         UNCHANGED <<operands, checked>>, broken' \in SUBSET Operand
  PROVE  Inv'
<1>1. phase' = "recheck" /\ ctx' = k /\ stale' = broken' /\ checked' = 0 BY DEF Leave
<1>l. Len(k.proofs) \in Nat BY DEF Context, ContextType
<1>2. TypeOK' BY <1>1, <1>l DEF Inv, TypeOK, operands, Context
<1>3. Dented(ctx') BY <1>1
<1>4. HandlesOfPhase' BY <1>1, <1>3 DEF HandlesOfPhase, Judging, Dented
<1>5. ReceiptIsPinned' /\ PairIsPinned' BY <1>1, <1>3 DEF ReceiptIsPinned, PairIsPinned, Judging, Dented
<1>6. StaleIsMarked' BY <1>1 DEF StaleIsMarked
<1>7. QED BY <1>2, <1>4, <1>5, <1>6 DEF Inv

\* What a step of the call that goes on owes the invariant.
LEMMA GoOn ==
  ASSUME Inv, NEW k \in Context, NEW next, Go(next, k), checked = 0,
         UNCHANGED <<operands, checked>>, broken' \in SUBSET Operand,
         "receipt" \notin broken' => receipt \in validated /\ CompletedReceipt(receipt),
         \/ next \in {"shape", "input"} /\ k.proofs = <<"receipt">>
         \/ /\ next \in {"arrays", "receiptShape", "compare"}
            /\ k.proofs = <<"receipt", "delivery">> \/ (k.proofs = <<"receipt">> /\ Dented(k))
  PROVE  Inv'
<1>1. phase' = next /\ ctx' = k /\ stale' = stale /\ checked' = 0 BY DEF Go
<1>l. Len(k.proofs) \in Nat BY DEF Context, ContextType
<1>p. next \in {"shape", "input", "arrays", "receiptShape", "compare"} OBVIOUS
<1>k. k.proofs \in {<< >>, <<"receipt">>, <<"receipt", "delivery">>} OBVIOUS
<1>2. TypeOK'
  <2>1. receipt' \in Receipts /\ delivery' \in Deliveries /\ validated' \subseteq Receipts BY DEF Inv, TypeOK, operands
  <2>2. phase' \in {"completed", "shape", "input", "arrays", "receiptShape", "compare", "recheck", "done"} BY <1>1, <1>p
  <2>3. broken' \subseteq Operand /\ stale' \subseteq Operand BY <1>1 DEF Inv, TypeOK
  <2>4. checked' \in 0 .. Len(ctx'.proofs) BY <1>1, <1>l
  <2>5. QED BY <1>1, <1>k, <2>1, <2>2, <2>3, <2>4 DEF TypeOK, Context
<1>3. HandlesOfPhase' BY <1>1 DEF HandlesOfPhase, Judging, Dented
<1>4. ReceiptIsPinned' BY <1>1 DEF ReceiptIsPinned, operands, CompletedReceipt
<1>5. PairIsPinned' /\ StaleIsMarked' BY <1>1 DEF PairIsPinned, StaleIsMarked, Judging
<1>6. QED BY <1>2, <1>3, <1>4, <1>5 DEF Inv

-----------------------------------------------------------------------------
\* One lemma per action.

\* The completed receipt is pinned by the first handle.
LEMMA RequireCompletedInv == Inv /\ RequireCompleted => Inv'
<1>1. SUFFICES ASSUME Inv, RequireCompleted PROVE Inv' OBVIOUS
<1>2. ctx \in Context /\ ctx.proofs = << >> /\ checked = 0 /\ broken \in SUBSET Operand
  BY <1>1 DEF Inv, TypeOK, HandlesOfPhase, RequireCompleted, Judging, Context
<1>3. UNCHANGED <<operands, checked>> BY <1>1 DEF RequireCompleted
<1>q. "PROOF.RECEIPT_DIGEST" \in Requirement /\ "receipt" \in Operand BY DEF Requirement, Operand
<1>4. CASE receipt \in validated /\ Pin("receipt") /\ CompletedReceipt(receipt) /\ Go("shape", Consume(ctx, "receipt"))
  <2>1. Consume(ctx, "receipt") \in Context /\ Consume(ctx, "receipt").proofs = <<"receipt">>
    BY <1>2, <1>q, ConsumeFacts
  <2>2. broken' \in SUBSET Operand BY <1>2, <1>4 DEF Pin
  <2>3. QED BY <1>1, <1>2, <1>3, <1>4, <2>1, <2>2, GoOn
<1>5. CASE Pin("receipt") /\ Leave(Unavailable(Consume(ctx, "receipt"), "PROOF.RECEIPT_DIGEST", TRUE))
  <2> DEFINE k == Unavailable(Consume(ctx, "receipt"), "PROOF.RECEIPT_DIGEST", TRUE)
  <2>1. Consume(ctx, "receipt") \in Context /\ Consume(ctx, "receipt").proofs = <<"receipt">>
    BY <1>2, <1>q, ConsumeFacts
  <2>2. k \in Context /\ k.proofs = <<"receipt">> /\ Dented(k)
    BY <2>1, <1>q, UnavailableFacts DEF Onward, Dented
  <2>3. broken' \in SUBSET Operand BY <1>2, <1>5 DEF Pin
  <2>4. Leave(k) BY <1>5
  <2> HIDE DEF k
  <2>5. QED BY <1>1, <1>2, <1>3, <2>2, <2>3, <2>4, LeaveDented
<1>6. CASE /\ UNCHANGED broken
           /\ Leave(Unavailable(Unavailable(ctx, "PROOF.RECEIPT_DIGEST", FALSE), "PROOF.RECEIPT_DIGEST", TRUE))
  <2> DEFINE j == Unavailable(ctx, "PROOF.RECEIPT_DIGEST", FALSE)
  <2> DEFINE k == Unavailable(j, "PROOF.RECEIPT_DIGEST", TRUE)
  <2>1. j \in Context /\ j.proofs = << >> BY <1>2, <1>q, UnavailableFacts DEF Onward
  <2>2. Leave(k) BY <1>6
  <2> HIDE DEF j
  <2>3. k \in Context /\ k.proofs = << >> /\ Dented(k) BY <2>1, <1>q, UnavailableFacts DEF Onward, Dented
  <2> HIDE DEF k
  <2>4. QED BY <1>1, <1>2, <1>3, <1>6, <2>2, <2>3, LeaveDented
<1>7. QED BY <1>1, <1>4, <1>5, <1>6 DEF RequireCompleted

\* The shape of the delivery gives no handle.
LEMMA ShapeDeliveryInv == Inv /\ ShapeDelivery => Inv'
<1>1. SUFFICES ASSUME Inv, ShapeDelivery PROVE Inv' OBVIOUS
<1>2. ctx \in Context /\ ctx.proofs = <<"receipt">> /\ checked = 0 /\ broken' \in SUBSET Operand
  BY <1>1 DEF Inv, TypeOK, HandlesOfPhase, ShapeDelivery, ValidateShape, Judging, Context
<1>3. UNCHANGED <<operands, checked, broken>> BY <1>1 DEF ShapeDelivery, ValidateShape
<1>4. CASE Go("input", ctx)
  <2>1. "receipt" \notin broken' => receipt \in validated /\ CompletedReceipt(receipt)
    BY <1>1, <1>3 DEF Inv, ReceiptIsPinned, ShapeDelivery, Judging
  <2>2. QED BY <1>1, <1>2, <1>3, <1>4, <2>1, GoOn
<1>5. ASSUME NEW k \in Context, Onward(ctx, k), Leave(LeaveUnevaluated(k)) PROVE Inv'
  <2> DEFINE l == LeaveUnevaluated(k)
  <2>1. l \in Context /\ l.proofs = <<"receipt">> /\ Dented(l) BY <1>2, <1>5, LeaveFacts DEF Onward
  <2>2. Leave(l) BY <1>5
  <2> HIDE DEF l
  <2>3. QED BY <1>1, <1>2, <1>3, <2>1, <2>2, LeaveDented
<1>6. Onward(ctx, Refused) /\ Onward(ctx, Unanswered)
  BY <1>2, ReportFacts, UnavailableFacts DEF Refused, Unanswered, Requirement
<1>7. Refused \in Context /\ Unanswered \in Context BY <1>6 DEF Onward
<1>8. QED BY <1>1, <1>4, <1>5, <1>6, <1>7 DEF ShapeDelivery, ValidateShape

\* The delivery is pinned by the second handle.
LEMMA RequireInputInv == Inv /\ RequireInput => Inv'
<1>1. SUFFICES ASSUME Inv, RequireInput PROVE Inv' OBVIOUS
<1>2. ctx \in Context /\ ctx.proofs = <<"receipt">> /\ checked = 0 /\ broken \in SUBSET Operand
  BY <1>1 DEF Inv, TypeOK, HandlesOfPhase, RequireInput, Judging, Context
<1>3. UNCHANGED <<operands, checked>> BY <1>1 DEF RequireInput
<1>q. "PROOF.INPUT" \in Requirement /\ "delivery" \in Operand BY DEF Requirement, Operand
<1>4. "receipt" \notin broken => receipt \in validated /\ CompletedReceipt(receipt)
  BY <1>1 DEF Inv, ReceiptIsPinned, RequireInput, Judging
<1>5. CASE Pin("delivery") /\ Go("arrays", Consume(ctx, "delivery"))
  <2> DEFINE k == Consume(ctx, "delivery")
  <2>a. k \in Context /\ k.proofs = Append(ctx.proofs, "delivery") BY <1>2, <1>q, ConsumeFacts
  <2>b. Append(<<"receipt">>, "delivery") = <<"receipt", "delivery">> BY BothHandles
  <2>1. k \in Context /\ k.proofs = <<"receipt", "delivery">> BY <1>2, <2>a, <2>b
  <2>2. broken' \in SUBSET Operand /\ ("receipt" \notin broken' => "receipt" \notin broken)
    BY <1>2, <1>5 DEF Pin
  <2>3. Go("arrays", k) BY <1>5
  <2> HIDE DEF k
  <2>4. QED BY <1>1, <1>2, <1>3, <1>4, <2>1, <2>2, <2>3, GoOn
<1>6. CASE UNCHANGED broken /\ Go("arrays", Unavailable(ctx, "PROOF.INPUT", FALSE))
  <2> DEFINE k == Unavailable(ctx, "PROOF.INPUT", FALSE)
  <2>1. k \in Context /\ k.proofs = <<"receipt">> /\ Dented(k)
    BY <1>2, <1>q, UnavailableFacts DEF Onward, Dented
  <2>2. Go("arrays", k) BY <1>6
  <2> HIDE DEF k
  <2>3. QED BY <1>1, <1>2, <1>3, <1>4, <1>6, <2>1, <2>2, GoOn
<1>7. QED BY <1>1, <1>5, <1>6 DEF RequireInput

\* The order of its arrays gives none.
LEMMA CheckCanonicalArraysInv == Inv /\ CheckCanonicalArrays => Inv'
<1>1. SUFFICES ASSUME Inv, CheckCanonicalArrays PROVE Inv' OBVIOUS
<1> DEFINE v == IF delivery.ordered THEN {} ELSE {"ARRAY.52"}
<1> DEFINE k == Report(ctx, v)
<1>2. /\ ctx \in Context /\ checked = 0 /\ broken' \in SUBSET Operand
      /\ ctx.proofs = <<"receipt", "delivery">> \/ (ctx.proofs = <<"receipt">> /\ Dented(ctx))
  BY <1>1 DEF Inv, TypeOK, HandlesOfPhase, CheckCanonicalArrays, Judging, Context
<1>3. UNCHANGED <<operands, checked, broken>> BY <1>1 DEF CheckCanonicalArrays
<1>4. "receipt" \notin broken' => receipt \in validated /\ CompletedReceipt(receipt)
  BY <1>1, <1>3 DEF Inv, ReceiptIsPinned, CheckCanonicalArrays, Judging
<1>5. v \in SUBSET Requirement BY DEF Requirement
<1>6. (k.failed /\ Leave(k)) \/ Go("receiptShape", k) BY <1>1 DEF CheckCanonicalArrays
<1> HIDE DEF v
<1>7. k \in Context /\ k.proofs = ctx.proofs /\ (Dented(ctx) => Dented(k)) BY <1>2, <1>5, ReportFacts DEF Onward
<1> HIDE DEF k
<1>8. CASE k.failed /\ Leave(k)
  <2>1. Dented(k) BY <1>8 DEF Dented
  <2>2. QED BY <1>1, <1>2, <1>3, <1>7, <1>8, <2>1, LeaveDented
<1>9. CASE Go("receiptShape", k) BY <1>1, <1>2, <1>3, <1>4, <1>7, <1>9, GoOn
<1>10. QED BY <1>6, <1>8, <1>9

\* Nor does the shape of the receipt.
LEMMA ShapeReceiptInv == Inv /\ ShapeReceipt => Inv'
<1>1. SUFFICES ASSUME Inv, ShapeReceipt PROVE Inv' OBVIOUS
<1>2. /\ ctx \in Context /\ checked = 0 /\ broken' \in SUBSET Operand
      /\ ctx.proofs = <<"receipt", "delivery">> \/ (ctx.proofs = <<"receipt">> /\ Dented(ctx))
  BY <1>1 DEF Inv, TypeOK, HandlesOfPhase, ShapeReceipt, ValidateShape, Judging, Context
<1>3. UNCHANGED <<operands, checked, broken>> BY <1>1 DEF ShapeReceipt, ValidateShape
<1>4. CASE Go("compare", ctx)
  <2>1. "receipt" \notin broken' => receipt \in validated /\ CompletedReceipt(receipt)
    BY <1>1, <1>3 DEF Inv, ReceiptIsPinned, ShapeReceipt, Judging
  <2>2. QED BY <1>1, <1>2, <1>3, <1>4, <2>1, GoOn
<1>5. ASSUME NEW k \in Context, Onward(ctx, k), Dented(k), Leave(k) PROVE Inv'
  <2>1. k.proofs = ctx.proofs BY <1>5 DEF Onward
  <2>2. QED BY <1>1, <1>2, <1>3, <1>5, <2>1, LeaveDented
<1>6. {"STRUCTURE"} \in SUBSET Requirement /\ "VALIDATOR.STRUCTURED_ERRORS" \in Requirement BY DEF Requirement
<1>7. Onward(ctx, Refused) /\ Dented(Refused) BY <1>2, <1>6, ReportFacts DEF Refused
<1>8. Onward(ctx, Unanswered) /\ Dented(Unanswered) BY <1>2, <1>6, UnavailableFacts DEF Unanswered, Dented
<1>9. Refused \in Context /\ Unanswered \in Context BY <1>7, <1>8 DEF Onward
<1>10. QED BY <1>1, <1>4, <1>5, <1>7, <1>8, <1>9 DEF ShapeReceipt, ValidateShape

\* A comparison that finds nothing is where a pair without a dent comes from.
LEMMA CompareInv == Inv /\ Compare => Inv'
<1>1. SUFFICES ASSUME Inv, Compare PROVE Inv' OBVIOUS
<1> DEFINE v == Violations(delivery, receipt)
<1> DEFINE k == Report(ctx, v)
<1>2. /\ ctx \in Context /\ checked = 0 /\ broken' \in SUBSET Operand
      /\ ctx.proofs = <<"receipt", "delivery">> \/ (ctx.proofs = <<"receipt">> /\ Dented(ctx))
  BY <1>1 DEF Inv, TypeOK, HandlesOfPhase, Compare, Judging, Context
<1>3. UNCHANGED <<operands, checked, broken>> BY <1>1 DEF Compare
<1>4. "receipt" \notin broken' => receipt \in validated /\ CompletedReceipt(receipt)
  BY <1>1, <1>3 DEF Inv, ReceiptIsPinned, Compare, Judging
<1>5. Leave(k) BY <1>1 DEF Compare
<1>6. v \in SUBSET Requirement BY ViolationsType
<1>7. v' = v BY <1>3 DEF operands
<1> HIDE DEF v
<1>8. Onward(ctx, k) /\ (v # {} => Dented(k)) BY <1>2, <1>6, ReportFacts
<1> HIDE DEF k
<1>9. k \in Context /\ k.proofs = ctx.proofs /\ (Dented(ctx) => Dented(k)) BY <1>8 DEF Onward
<1>10. CASE Dented(k) BY <1>1, <1>2, <1>3, <1>5, <1>9, <1>10, LeaveDented
<1>11. CASE ~Dented(k)
  <2>1. phase' = "recheck" /\ ctx' = k /\ stale' = broken' /\ checked' = 0 BY <1>2, <1>3, <1>5 DEF Leave
  <2>2. k.proofs = <<"receipt", "delivery">> /\ Len(k.proofs) \in Nat BY <1>2, <1>9, <1>11 DEF Context, ContextType
  <2>3. TypeOK' BY <1>1, <1>2, <1>3, <1>9, <2>1, <2>2 DEF Inv, TypeOK, operands, Context
  <2>4. HandlesOfPhase' BY <2>1, <2>2 DEF HandlesOfPhase, Judging, Dented
  <2>5. ReceiptIsPinned' BY <1>3, <1>4 DEF ReceiptIsPinned, operands, CompletedReceipt
  <2>6. v = {} BY <1>8, <1>11
  <2>7. PairIsPinned' BY <1>7, <2>6 DEF PairIsPinned, v
  <2>8. StaleIsMarked' BY <2>1 DEF StaleIsMarked
  <2>9. QED BY <2>3, <2>4, <2>5, <2>7, <2>8 DEF Inv
<1>12. QED BY <1>10, <1>11

\* A handle that is stale leaves an obligation when its turn comes.
LEMMA RecheckHandleInv == Inv /\ RecheckHandle => Inv'
<1>1. SUFFICES ASSUME Inv, RecheckHandle PROVE Inv' OBVIOUS
<1> DEFINE i == checked + 1
<1> DEFINE k == Unavailable(ctx, "PROOF.INPUT", FALSE)
<1>2. /\ phase = "recheck" /\ checked < Len(ctx.proofs) /\ checked' = i
      /\ ctx' = IF ctx.proofs[i] \in broken THEN k ELSE ctx
      /\ UNCHANGED <<operands, phase, broken, stale>>
  BY <1>1 DEF RecheckHandle
<1>3. ctx \in Context /\ checked \in 0 .. Len(ctx.proofs) /\ Len(ctx.proofs) \in Nat
  BY <1>1 DEF Inv, TypeOK, Context, ContextType
<1>4. "PROOF.INPUT" \in Requirement BY DEF Requirement
<1>5. k \in Context /\ k.proofs = ctx.proofs /\ Dented(k) BY <1>3, <1>4, UnavailableFacts DEF Onward, Dented
<1> HIDE DEF k
<1>6. ctx' \in Context /\ ctx'.proofs = ctx.proofs BY <1>2, <1>3, <1>5
<1>7. Dented(ctx) \/ ctx.proofs[i] \in broken => Dented(ctx') BY <1>2, <1>5
<1>8. Dented(ctx)' = Dented(ctx') BY DEF Dented
<1>9. TypeOK'
  <2>1. checked' \in 0 .. Len(ctx'.proofs) BY <1>2, <1>3, <1>6
  <2>2. QED BY <1>1, <1>2, <1>6, <2>1 DEF Inv, TypeOK, operands, Context
<1>10. HandlesOfPhase'
  BY <1>1, <1>2, <1>6, <1>7, <1>8 DEF Inv, HandlesOfPhase, Judging
<1>11. ReceiptIsPinned'
  BY <1>1, <1>2, <1>7, <1>8 DEF Inv, ReceiptIsPinned, Judging, operands, CompletedReceipt
<1>12. PairIsPinned'
  <2>1. Violations(delivery, receipt)' = Violations(delivery, receipt) BY <1>2 DEF operands
  <2>2. QED BY <1>1, <1>2, <1>7, <1>8, <2>1 DEF Inv, PairIsPinned, Judging
<1>13. StaleIsMarked'
  <2>1. stale \subseteq broken /\ \A j \in 1 .. checked : ctx.proofs[j] \in stale => Dented(ctx)
    BY <1>1, <1>2 DEF Inv, StaleIsMarked, Judging
  <2>2. \A j \in 1 .. i : ctx.proofs[j] \in stale => Dented(ctx')
    <3>1. SUFFICES ASSUME NEW j \in 1 .. i, ctx.proofs[j] \in stale PROVE Dented(ctx') OBVIOUS
    <3>2. CASE j = i BY <1>7, <2>1, <3>1, <3>2
    <3>3. CASE j # i
      <4>1. j \in 1 .. checked BY <1>3, <3>1, <3>3
      <4>2. QED BY <1>7, <2>1, <3>1, <4>1
    <3>4. QED BY <3>2, <3>3
  <2>3. stale' = stale /\ broken' = broken BY <1>2
  <2>4. QED BY <1>2, <1>6, <1>8, <2>1, <2>2, <2>3 DEF StaleIsMarked
<1>14. QED BY <1>9, <1>10, <1>11, <1>12, <1>13 DEF Inv

\* The steps that leave the context and the loop alone.
LEMMA ConcludeInv == Inv /\ Conclude => Inv'
<1>1. SUFFICES ASSUME Inv, Conclude PROVE Inv' OBVIOUS
<1>2. phase = "recheck" /\ phase' = "done" /\ checked = Len(ctx.proofs)
  BY <1>1 DEF Conclude
<1>3. UNCHANGED <<operands, ctx, checked, broken, stale>> BY <1>1 DEF Conclude
<1>4. Dented(ctx)' = Dented(ctx) /\ Violations(delivery, receipt)' = Violations(delivery, receipt)
  BY <1>3 DEF operands, Dented
<1>5. TypeOK' BY <1>1, <1>2, <1>3 DEF Inv, TypeOK, operands
<1>6. HandlesOfPhase' BY <1>1, <1>2, <1>3, <1>4 DEF Inv, HandlesOfPhase, Judging
<1>7. ReceiptIsPinned' BY <1>1, <1>2, <1>3, <1>4 DEF Inv, ReceiptIsPinned, Judging, operands, CompletedReceipt
<1>8. PairIsPinned' BY <1>1, <1>2, <1>3, <1>4 DEF Inv, PairIsPinned, Judging
<1>9. StaleIsMarked' BY <1>1, <1>2, <1>3, <1>4 DEF Inv, StaleIsMarked, Judging
<1>10. QED BY <1>5, <1>6, <1>7, <1>8, <1>9 DEF Inv

\* A receipt call adds to what is known; a change of an operand adds to what is
\* broken, and what is broken is owed nothing.
LEMMA ElsewhereInv ==
  ASSUME Inv, UNCHANGED <<phase, ctx, checked, stale>>, receipt' \in Receipts, delivery' \in Deliveries,
         validated' \subseteq Receipts, validated \subseteq validated',
         broken \subseteq broken', broken' \subseteq Operand,
         "receipt" \notin broken' => receipt' = receipt,
         broken' = {} => delivery' = delivery
  PROVE  Inv'
<1>1. Dented(ctx)' = Dented(ctx) BY DEF Dented
<1>2. TypeOK' BY DEF Inv, TypeOK
<1>3. HandlesOfPhase' BY <1>1 DEF Inv, HandlesOfPhase, Judging
<1>4. ReceiptIsPinned' BY <1>1 DEF Inv, ReceiptIsPinned, Judging, CompletedReceipt
<1>5. PairIsPinned'
  <2>1. SUFFICES ASSUME Judging', ~Dented(ctx)', broken' = {} PROVE (Violations(delivery, receipt) = {})'
    BY DEF PairIsPinned
  <2>2. Violations(delivery, receipt)' = Violations(delivery, receipt) BY <2>1
  <2>3. QED BY <1>1, <2>1, <2>2 DEF Inv, PairIsPinned, Judging
<1>6. StaleIsMarked' BY <1>1 DEF Inv, StaleIsMarked, Judging
<1>7. QED BY <1>2, <1>3, <1>4, <1>5, <1>6 DEF Inv

\* An earlier receipt call leaves the pair's alone.
LEMMA ValidateReceiptInv == Inv /\ ValidateReceipt => Inv'
BY ElsewhereInv DEF ValidateReceipt, Inv, TypeOK

\* A change of the receipt breaks its handle, if it has one.
LEMMA ChangeReceiptInv == Inv /\ ChangeReceipt => Inv'
BY ElsewhereInv DEF ChangeReceipt, Inv, TypeOK, Operand

\* A change of the delivery breaks its handle, if it has one.
LEMMA ChangeDeliveryInv == Inv /\ ChangeDelivery => Inv'
BY ElsewhereInv DEF ChangeDelivery, Inv, TypeOK, Operand

\* Every step keeps the invariant.
LEMMA NextInv == Inv /\ [Next]_vars => Inv'
<1>1. CASE UNCHANGED vars
  BY <1>1 DEF vars, Inv, TypeOK, HandlesOfPhase, ReceiptIsPinned, PairIsPinned, StaleIsMarked, Judging,
              Dented, CompletedReceipt, Violations
<1>2. CASE Next
  BY <1>2, RequireCompletedInv, ShapeDeliveryInv, RequireInputInv, CheckCanonicalArraysInv, ShapeReceiptInv,
     CompareInv, RecheckHandleInv, ConcludeInv, ValidateReceiptInv, ChangeReceiptInv, ChangeDeliveryInv
  DEF Next, CallStep
<1>3. QED BY <1>1, <1>2

\* The invariant holds throughout.
LEMMA Inductive == Spec => []Inv
BY InitInv, NextInv, PTL DEF Spec

-----------------------------------------------------------------------------
\* An accepted call has no dent, and has passed both handles.
LEMMA AcceptedFacts ==
  ASSUME Inv, Accepted
  PROVE  /\ Judging /\ ~Dented(ctx)
         /\ ctx.proofs = <<"receipt", "delivery">> /\ checked = 2
<1>1. phase = "done" /\ ~Dented(ctx) BY DEF Accepted, Done, Verdict, Dented
<1>2. QED BY <1>1 DEF Inv, HandlesOfPhase, Judging

\* The variables keep their types: in particular the handles of a delivery call
\* are the receipt's and then the delivery's (_require_proof, _finish_result).
THEOREM PairTypeCorrect == Spec => []TypeOK
<1>1. Inv => TypeOK BY DEF Inv
<1>2. QED BY <1>1, Inductive, PTL

\* An operand that changed after its proof was consumed keeps the pair from
\* acceptance, whichever it is and however many others changed (the loop of
\* _finish_result).
THEOREM StalePairNeverAccepted == Spec => []StalePairIsNotAccepted
<1>1. Inv => StalePairIsNotAccepted
  <2>1. SUFFICES ASSUME Inv, Accepted PROVE stale = {} BY DEF StalePairIsNotAccepted
  <2>2. Judging /\ ~Dented(ctx) /\ ctx.proofs = <<"receipt", "delivery">> /\ checked = 2
    BY <2>1, AcceptedFacts
  <2>3. "receipt" \notin stale /\ "delivery" \notin stale BY <2>1, <2>2 DEF Inv, StaleIsMarked
  <2>4. QED BY <2>1, <2>3 DEF Inv, TypeOK, Operand
<1>2. QED BY <1>1, Inductive, PTL

\* An accepted pair that nobody changed is a delivery of the very receipt that a
\* receipt call completed (validate_delivery_pair_static, _completed_static).
THEOREM DeliveryCompleted == Spec => []DeliveryIsOfACompletedReceipt
<1>1. Inv => DeliveryIsOfACompletedReceipt
  <2>1. SUFFICES ASSUME Inv, Accepted, broken = {}
        PROVE  /\ receipt \in validated /\ CompletedReceipt(receipt)
               /\ receipt.scope = "execution-receipt"
               /\ delivery.receiptId = receipt.id /\ delivery.receiptDigest = receipt.digest
               /\ receipt.finishedAt <= delivery.attemptedAt
    BY DEF DeliveryIsOfACompletedReceipt
  <2>2. Judging /\ ~Dented(ctx) BY <2>1, AcceptedFacts
  <2>3. receipt \in validated /\ CompletedReceipt(receipt)
    BY <2>1, <2>2 DEF Inv, ReceiptIsPinned, Judging
  <2>4. Violations(delivery, receipt) = {} BY <2>1, <2>2 DEF Inv, PairIsPinned
  <2>5. QED BY <2>3, <2>4, NothingViolated DEF CompletedReceipt
<1>2. QED BY <1>1, Inductive, PTL

-----------------------------------------------------------------------------
\* The call does not run for ever: a measure of what is left of it.

\* The steps a call in phase p with n handles, c of them checked, can still make.
Rest(p, n, c) ==
  CASE p = "completed" -> 9 [] p = "shape" -> 8 [] p = "input" -> 7 [] p = "arrays" -> 6
    [] p = "receiptShape" -> 5 [] p = "compare" -> 4 [] p = "recheck" -> 1 + n - c [] p = "done" -> 0

Left == Rest(phase, Len(ctx.proofs), checked)

\* Every step of the call takes something away, and the steps of others add
\* nothing.
PairRunsDown == [][Left' <= Left /\ (CallStep => Left' < Left)]_vars

Phase == {"completed", "shape", "input", "arrays", "receiptShape", "compare", "recheck", "done"}

\* Never more than nine steps are left; in the re-check, one for each handle and the verdict.
LEMMA RestFacts ==
  ASSUME NEW p \in Phase, NEW n \in 0 .. 2, NEW c \in 0 .. n
  PROVE  Rest(p, n, c) \in 0 .. 9 /\ (p = "recheck" => Rest(p, n, c) = 1 + n - c /\ Rest(p, n, c) \in 1 .. 3)
<1>1. CASE p = "recheck" BY <1>1 DEF Rest
<1>2. CASE p # "recheck" BY <1>2 DEF Rest, Phase
<1>3. QED BY <1>1, <1>2

\* The same, of the call's state.
LEMMA LeftFacts ==
  ASSUME TypeOK
  PROVE  /\ Len(ctx.proofs) \in 0 .. 2 /\ checked \in 0 .. Len(ctx.proofs)
         /\ phase \in Phase /\ Left \in 0 .. 9
<1>1. Len(ctx.proofs) \in 0 .. 2 /\ checked \in 0 .. Len(ctx.proofs) /\ phase \in Phase BY DEF TypeOK, Phase
<1>2. QED BY <1>1, RestFacts DEF Left

\* Every step of the call takes something away.
LEMMA StepRuns ==
  ASSUME Inv, TypeOK', CallStep PROVE Left' < Left /\ Left' \in Nat
<1> DEFINE m == Len(ctx.proofs)   n == Len(ctx'.proofs)   q == phase'   d == checked'
<1>1. Left = Rest(phase, m, checked) /\ Left' = Rest(q, n, d) BY DEF Left
<1>2. m \in 0 .. 2 /\ checked \in 0 .. m BY LeftFacts DEF Inv
<1>3. n \in 0 .. 2 /\ d \in 0 .. n /\ q \in Phase BY DEF TypeOK, Phase
<1>4. Rest(q, n, d) \in 0 .. 9 /\ (q = "recheck" => Rest(q, n, d) \in 1 .. 3) BY <1>3, RestFacts
<1> HIDE DEF m, n, d
<1>5. CASE phase = "completed" /\ q \in {"shape", "recheck"} BY <1>1, <1>4, <1>5 DEF Rest
<1>6. CASE phase = "shape" /\ q \in {"input", "recheck"} BY <1>1, <1>4, <1>6 DEF Rest
<1>7. CASE phase = "input" /\ q = "arrays" BY <1>1, <1>4, <1>7 DEF Rest
<1>8. CASE phase = "arrays" /\ q \in {"receiptShape", "recheck"} BY <1>1, <1>4, <1>8 DEF Rest
<1>9. CASE phase = "receiptShape" /\ q \in {"compare", "recheck"} BY <1>1, <1>4, <1>9 DEF Rest
<1>10. CASE phase = "compare" /\ q = "recheck" BY <1>1, <1>4, <1>10 DEF Rest
<1>11. CASE RecheckHandle
  <2>1. phase = "recheck" /\ q = "recheck" /\ d = checked + 1 BY <1>11 DEF RecheckHandle, d
  <2>2. n = m BY <1>11 DEF RecheckHandle, Unavailable, Inv, TypeOK, ContextType, n, m
  <2>3. QED BY <1>1, <1>2, <1>3, <2>1, <2>2 DEF Rest
<1>12. CASE Conclude
  <2>1. phase = "recheck" /\ q = "done" BY <1>12 DEF Conclude
  <2>2. QED BY <1>1, <1>2, <2>1 DEF Rest
<1>13. RequireCompleted => phase = "completed" /\ q \in {"shape", "recheck"}
  BY Zenon DEF RequireCompleted, Go, Leave
<1>14. ShapeDelivery => phase = "shape" /\ q \in {"input", "recheck"}
  BY DEF ShapeDelivery, ValidateShape, Go, Leave
<1>15. RequireInput => phase = "input" /\ q = "arrays" BY Zenon DEF RequireInput, Go
<1>16. CheckCanonicalArrays => phase = "arrays" /\ q \in {"receiptShape", "recheck"}
  BY DEF CheckCanonicalArrays, Go, Leave
<1>17. ShapeReceipt => phase = "receiptShape" /\ q \in {"compare", "recheck"}
  BY DEF ShapeReceipt, ValidateShape, Go, Leave
<1>18. Compare => phase = "compare" /\ q = "recheck" BY DEF Compare, Leave
<1> HIDE DEF q
<1>19. QED
  BY <1>5, <1>6, <1>7, <1>8, <1>9, <1>10, <1>11, <1>12, <1>13, <1>14, <1>15, <1>16, <1>17, <1>18 DEF CallStep

\* A delivery call makes at most nine steps, however often somebody changes the
\* receipt or the delivery result meanwhile: each of its steps takes something
\* away from a number that starts at nine, and nobody else adds to it
\* (validate_delivery_pair_static, the one loop of _finish_result).
THEOREM PairRunsItsCourse == Spec => [](Left \in 0 .. 9) /\ PairRunsDown
<1>1. Inv => Left \in 0 .. 9 BY LeftFacts DEF Inv
<1>2. Inv /\ Inv' /\ [Next]_vars => [Left' <= Left /\ (CallStep => Left' < Left)]_vars
  <2>1. SUFFICES ASSUME Inv, TypeOK', Next PROVE Left' <= Left /\ (CallStep => Left' < Left)
    BY DEF Inv
  <2>2. Left \in 0 .. 9 BY <2>1, LeftFacts DEF Inv
  <2>3. CASE CallStep BY <2>1, <2>2, <2>3, StepRuns
  <2>4. CASE ~CallStep
    <3>1. UNCHANGED <<phase, ctx, checked>>
      BY <2>1, <2>4 DEF Next, ValidateReceipt, ChangeReceipt, ChangeDelivery
    <3>2. Left' = Left BY <3>1 DEF Left
    <3>3. QED BY <2>2, <2>4, <3>2
  <2>5. QED BY <2>3, <2>4
<1>3. QED BY <1>1, <1>2, Inductive, PTL DEF Spec, PairRunsDown
-----------------------------------------------------------------------------
\* The call implements Adjudication: the grounds are those of its context.

Abstract == INSTANCE Adjudication WITH
  grounds <- GroundsOf(ctx),
  verdict <- IF phase = "done" THEN Verdict(ctx) ELSE "pending"

\* A step that leaves context k behind forgets no ground.
Keeps(c, k) ==
  (c.failed => k.failed) /\ (c.unevaluated => k.unevaluated) /\ (c.required # {} => k.required # {})

\* No operation on a context forgets a ground.
LEMMA OperationsKeep ==
  ASSUME NEW c \in Context, NEW r \in Requirement, NEW direct \in BOOLEAN, NEW h,
         NEW v \in SUBSET Requirement
  PROVE  /\ Keeps(c, c) /\ Keeps(c, Report(c, v)) /\ Keeps(c, Unavailable(c, r, direct))
         /\ Keeps(c, LeaveUnevaluated(c)) /\ Keeps(c, Consume(c, h))
BY DEF Keeps, Context, ContextType, Report, Unavailable, LeaveUnevaluated, Consume

\* What forgets none has at least the same grounds.
LEMMA KeepsGrounds == ASSUME NEW c, NEW k, Keeps(c, k) PROVE GroundsOf(c) \subseteq GroundsOf(k)
BY DEF Keeps, GroundsOf

\* One after the other they forget none.
LEMMA KeepsOn == ASSUME NEW c, NEW k, NEW l, Keeps(c, k), Keeps(k, l) PROVE Keeps(c, l)
BY DEF Keeps

\* No step of the call but the last decides anything or forgets a ground.
LEMMA StepKeeps ==
  ASSUME Inv, CallStep, ~Conclude PROVE phase # "done" /\ phase' # "done" /\ Keeps(ctx, ctx')
<1>1. ctx \in Context BY DEF Inv, TypeOK, Context
<1>2. {"PROOF.RECEIPT_DIGEST", "PROOF.INPUT", "STRUCTURE", "VALIDATOR.STRUCTURED_ERRORS", "ARRAY.52"} \subseteq Requirement
  BY DEF Requirement
<1>3. Keeps(ctx, ctx) BY <1>1, OperationsKeep, <1>2
<1>4. \A r \in Requirement, direct \in BOOLEAN :
        Unavailable(ctx, r, direct) \in Context /\ Keeps(ctx, Unavailable(ctx, r, direct))
  BY <1>1, UnavailableFacts, OperationsKeep DEF Onward
<1>5. \A v \in SUBSET Requirement : Report(ctx, v) \in Context /\ Keeps(ctx, Report(ctx, v))
  BY <1>1, <1>2, ReportFacts, OperationsKeep DEF Onward
<1>6. \A h \in Operand : Consume(ctx, h) \in Context /\ Keeps(ctx, Consume(ctx, h))
  BY <1>1, <1>2, ConsumeFacts, OperationsKeep DEF Onward
<1>7. CASE RequireCompleted
  <2>1. "receipt" \in Operand BY DEF Operand
  <2> DEFINE c == Consume(ctx, "receipt")   u == Unavailable(ctx, "PROOF.RECEIPT_DIGEST", FALSE)
  <2>2. Keeps(ctx, Unavailable(c, "PROOF.RECEIPT_DIGEST", TRUE))
    BY <1>2, <1>6, <2>1, OperationsKeep, KeepsOn
  <2>3. Keeps(ctx, Unavailable(u, "PROOF.RECEIPT_DIGEST", TRUE))
    BY <1>2, <1>4, OperationsKeep, KeepsOn
  <2>4. Keeps(ctx, c) BY <1>6, <2>1
  <2>5. QED BY <1>7, <2>2, <2>3, <2>4 DEF RequireCompleted, Go, Leave
<1>8. CASE ShapeDelivery
  <2>1. Refused \in Context /\ Keeps(ctx, Refused) /\ Unanswered \in Context /\ Keeps(ctx, Unanswered)
    BY <1>2, <1>4, <1>5 DEF Refused, Unanswered
  <2>2. Keeps(ctx, LeaveUnevaluated(Refused)) /\ Keeps(ctx, LeaveUnevaluated(Unanswered))
    BY <1>2, <2>1, OperationsKeep, KeepsOn
  <2>3. QED BY <1>3, <1>8, <2>2 DEF ShapeDelivery, ValidateShape, Go, Leave
<1>9. CASE RequireInput
  <2>1. "delivery" \in Operand BY DEF Operand
  <2>2. Keeps(ctx, Consume(ctx, "delivery")) /\ Keeps(ctx, Unavailable(ctx, "PROOF.INPUT", FALSE))
    BY <1>2, <1>4, <1>6, <2>1
  <2>3. QED BY <1>9, <2>2 DEF RequireInput, Go
<1>10. CASE CheckCanonicalArrays
  <2> DEFINE v == IF delivery.ordered THEN {} ELSE {"ARRAY.52"}
  <2>1. v \in SUBSET Requirement BY <1>2
  <2>2. Keeps(ctx, Report(ctx, v)) BY <1>5, <2>1
  <2>3. QED BY <1>10, <2>2 DEF CheckCanonicalArrays, Go, Leave
<1>11. CASE ShapeReceipt
  <2>1. Keeps(ctx, Refused) /\ Keeps(ctx, Unanswered) BY <1>2, <1>4, <1>5 DEF Refused, Unanswered
  <2>2. QED BY <1>3, <1>11, <2>1 DEF ShapeReceipt, ValidateShape, Go, Leave
<1>12. CASE Compare
  <2>1. Keeps(ctx, Report(ctx, Violations(delivery, receipt))) BY <1>5, ViolationsType
  <2>2. QED BY <1>12, <2>1 DEF Compare, Leave
<1>13. CASE RecheckHandle BY <1>2, <1>3, <1>4, <1>13 DEF RecheckHandle
<1>14. QED BY <1>7, <1>8, <1>9, <1>10, <1>11, <1>12, <1>13 DEF CallStep

\* A step of the call observes or decides.
LEMMA StepAdjudicates ==
  ASSUME Inv, [Next]_vars
  PROVE  [Abstract!Next]_(<<GroundsOf(ctx), IF phase = "done" THEN Verdict(ctx) ELSE "pending">>)
<1> DEFINE verdict == IF phase = "done" THEN Verdict(ctx) ELSE "pending"
<1>1. CASE CallStep /\ ~Conclude
  <2>1. phase # "done" /\ phase' # "done" /\ GroundsOf(ctx) \subseteq GroundsOf(ctx')
    BY <1>1, StepKeeps, KeepsGrounds
  <2>2. GroundsOf(ctx') \subseteq Abstract!Grounds BY DEF GroundsOf, Abstract!Grounds
  <2>3. GroundsOf(ctx') \in {GroundsOf(ctx) \cup more : more \in SUBSET Abstract!Grounds}
    BY <2>1, <2>2
  <2>4. GroundsOf(ctx)' = GroundsOf(ctx') BY DEF GroundsOf
  <2>5. Abstract!Observe BY <2>1, <2>3, <2>4 DEF Abstract!Observe
  <2>6. QED BY <2>5 DEF Abstract!Next
<1>2. CASE Conclude
  <2>1. phase = "recheck" /\ phase' = "done" /\ ctx' = ctx BY <1>2 DEF Conclude
  <2>2. GroundsOf(ctx)' = GroundsOf(ctx) /\ Verdict(ctx)' = Verdict(ctx) BY <2>1 DEF GroundsOf, Verdict
  <2>3. Verdict(ctx) = Abstract!Judgement(GroundsOf(ctx)) BY DEF Verdict, Abstract!Judgement, GroundsOf
  <2>4. Abstract!Decide BY <2>1, <2>2, <2>3 DEF Abstract!Decide
  <2>5. QED BY <2>4 DEF Abstract!Next
<1>3. CASE ~CallStep
  <2>1. ctx' = ctx /\ phase' = phase
    BY <1>3 DEF Next, ValidateReceipt, ChangeReceipt, ChangeDelivery, vars
  <2>2. GroundsOf(ctx)' = GroundsOf(ctx) /\ verdict' = verdict BY <2>1 DEF GroundsOf, Verdict
  <2>3. QED BY <2>2
<1>4. QED BY <1>1, <1>2, <1>3

\* A delivery call adjudicates: nothing that it finds or leaves open on its way
\* is forgotten, nothing is decided before the end, and the verdict is the one
\* that the grounds call for (validate_delivery_pair_static, _finish_result).
THEOREM PairAdjudicates == Spec => Abstract!Spec
<1>1. Init => Abstract!Init BY DEF Init, Abstract!Init, NewContext, GroundsOf
<1>2. Inv /\ [Next]_vars
        => [Abstract!Next]_(<<GroundsOf(ctx), IF phase = "done" THEN Verdict(ctx) ELSE "pending">>)
  BY StepAdjudicates
<1>3. QED BY <1>1, <1>2, Inductive, PTL DEF Spec, Abstract!Spec
=============================================================================
