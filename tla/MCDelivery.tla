----------------------------- MODULE MCDelivery -----------------------------
(***************************************************************************)
(* Receipts and delivery results for DeliveryPair: a right pair, and pairs *)
(* that differ from it in one point.                                       *)
(***************************************************************************)
EXTENDS DeliveryPair

Finalized ==
  [id |-> 1, digest |-> "d1", finishedAt |-> 2, shaped |-> TRUE, scope |-> "execution-receipt",
   result |-> Result(NewContext)]
ModelReceipts ==
  {Finalized, [Finalized EXCEPT !.digest = "d2"], [Finalized EXCEPT !.finishedAt = 3],
   [Finalized EXCEPT !.scope = "task-contract"], [Finalized EXCEPT !.shaped = FALSE],
   [Finalized EXCEPT !.result = Result(Report(NewContext, {"violation"}))],
   [Finalized EXCEPT !.result = Result(LeaveUnevaluated(NewContext))]}

Sent == [receiptId |-> 1, receiptDigest |-> "d1", attemptedAt |-> 2, shaped |-> TRUE, ordered |-> TRUE]
ModelDeliveries ==
  {Sent, [Sent EXCEPT !.receiptDigest = "d2"], [Sent EXCEPT !.receiptId = 2], [Sent EXCEPT !.attemptedAt = 1],
   [Sent EXCEPT !.shaped = FALSE], [Sent EXCEPT !.ordered = FALSE]}

=============================================================================
