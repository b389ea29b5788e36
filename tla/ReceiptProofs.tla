---------------------------- MODULE ReceiptProofs ----------------------------
(***************************************************************************)
(* Proofs about ReceiptValidation, for any submissions and any answers     *)
(* that stay out.  Four inductive invariants, one after the other:         *)
(*   Inv           which proofs a call without a dent holds, and what its  *)
(*                 bindings are worth, at each stage;                      *)
(*   RulesAreKept  such a call has found no rule of the stages it left     *)
(*                 behind to be violated;                                  *)
(*   Chronicle     what the chronology was computed from, whatever else    *)
(*                 was found;                                              *)
(*   Innocent      a call for a submission that breaks no rule has found   *)
(*                 nothing, and whoever left something open is named.      *)
(* From the first follow which proofs acceptance rests on and in which     *)
(* order they are asked for; from the second what an accepted history is   *)
(* like, by way of facts about any lawful submission; from the third that  *)
(* the derived displays are true; from the fourth that silence refutes     *)
(* nothing.                                                                *)
(***************************************************************************)
EXTENDS ReceiptProps, WellFoundedInduction, FiniteSetTheorems, TLAPS

StageSet == {"shape", "input", "sequences", "presence", "contract", "source", "prefix",
             "prefix chronology", "evidence digest", "remaining", "postconditions",
             "chronology", "finalization", "receipt digest", "finish", "over"}

\* A context as the operations of _ValidationContext leave it.
Well(c) == \E U : c \in ContextType(U, Handles)

\* k is c after more of the call, with no new handle outside H.
Moves(c, k, H) ==
  /\ Well(k)
  /\ c.failed => k.failed
  /\ Untainted(k) => Untainted(c)
  /\ c.required \subseteq k.required
  /\ \A g \in Handles : Holds(c, g) => Holds(k, g)
  /\ \A g \in Handles \ H : Holds(k, g) => Holds(c, g)

LEMMA Stays == ASSUME NEW c, Well(c), NEW H PROVE Moves(c, c, H)
BY DEF Moves

LEMMA MovesOn ==
  ASSUME NEW c, NEW k, NEW m, NEW H, NEW G, Moves(c, k, H), Moves(k, m, G)
  PROVE  Moves(c, m, H \cup G)
BY DEF Moves

LEMMA NewFacts == Well(NewContext) /\ Untainted(NewContext) /\ \A g \in Handles : ~Holds(NewContext, g)
<1>1. NewContext.proofs = << >> BY DEF NewContext
<1>2. DOMAIN << >> = {} OBVIOUS
<1>3. \A g \in Handles : ~Holds(NewContext, g) BY <1>1, <1>2 DEF Holds
<1>4. NewContext \in ContextType({}, Handles) BY DEF NewContext, ContextType
<1>5. QED BY <1>3, <1>4 DEF NewContext, Well, Untainted

LEMMA ReportFacts ==
  ASSUME NEW c, Well(c), NEW v
  PROVE  /\ Moves(c, Report(c, v), {})
         /\ Report(c, v).failed <=> c.failed \/ v # {}
         /\ Report(c, v).required = c.required
         /\ Report(c, v).proofs = c.proofs
<1>1. PICK U : c \in ContextType(U, Handles) BY DEF Well
<1>2. Report(c, v) \in ContextType(U \cup v, Handles) BY <1>1 DEF Report, ContextType
<1>3. Well(Report(c, v)) BY <1>2 DEF Well
<1>4. QED BY <1>1, <1>3 DEF Report, ContextType, Moves, Holds, Untainted

LEMMA UnavailableFacts ==
  ASSUME NEW c, Well(c), NEW q, NEW direct \in BOOLEAN
  PROVE  /\ Moves(c, Unavailable(c, q, direct), {})
         /\ Unavailable(c, q, direct).failed = c.failed
         /\ Unavailable(c, q, direct).proofs = c.proofs
         /\ ~Untainted(Unavailable(c, q, direct))
<1>1. PICK U : c \in ContextType(U, Handles) BY DEF Well
<1>2. Unavailable(c, q, direct) \in ContextType(U \cup {q}, Handles) BY <1>1 DEF Unavailable, ContextType
<1>3. Well(Unavailable(c, q, direct)) BY <1>2 DEF Well
<1>4. QED BY <1>1, <1>3 DEF Unavailable, ContextType, Moves, Holds, Untainted

LEMMA LeaveFacts ==
  ASSUME NEW c, Well(c)
  PROVE  /\ Moves(c, LeaveUnevaluated(c), {})
         /\ LeaveUnevaluated(c).failed = c.failed
         /\ LeaveUnevaluated(c).proofs = c.proofs
         /\ ~Untainted(LeaveUnevaluated(c))
<1>1. PICK U : c \in ContextType(U, Handles) BY DEF Well
<1>2. LeaveUnevaluated(c) \in ContextType(U, Handles) BY <1>1 DEF LeaveUnevaluated, ContextType
<1>3. Well(LeaveUnevaluated(c)) BY <1>2 DEF Well
<1>4. QED BY <1>1, <1>3 DEF LeaveUnevaluated, ContextType, Moves, Holds, Untainted

LEMMA ConsumeFacts ==
  ASSUME NEW c, Well(c), NEW h \in Handles
  PROVE  /\ Moves(c, Consume(c, h), {h})
         /\ Holds(Consume(c, h), h)
         /\ Consume(c, h).failed = c.failed
<1> DEFINE k == Consume(c, h)
<1>1. PICK U : c \in ContextType(U, Handles) BY DEF Well
<1>2. c.proofs \in Seq(Handles) /\ Append(c.proofs, h) \in Seq(Handles) BY <1>1 DEF ContextType
<1>a. /\ k \in ContextType(U, Handles) /\ k.proofs = Append(c.proofs, h)
      /\ k.required = c.required /\ k.failed = c.failed /\ k.unevaluated = c.unevaluated
  BY <1>1, <1>2 DEF Consume, ContextType
<1>3. Well(k) BY <1>a DEF Well
<1> HIDE DEF k
<1>4. /\ DOMAIN c.proofs = 1 .. Len(c.proofs) /\ Len(c.proofs) \in Nat
      /\ DOMAIN Append(c.proofs, h) = 1 .. Len(c.proofs) + 1
      /\ \A i \in 1 .. Len(c.proofs) : Append(c.proofs, h)[i] = c.proofs[i]
      /\ Append(c.proofs, h)[Len(c.proofs) + 1] = h
  BY <1>2
<1>5. k.proofs = Append(c.proofs, h) BY <1>a
<1>6. Holds(k, h) BY <1>4, <1>5 DEF Holds
<1>7. \A g \in Handles : Holds(c, g) => Holds(k, g) BY <1>4, <1>5 DEF Holds
<1>8. \A g \in Handles \ {h} : Holds(k, g) => Holds(c, g) BY <1>4, <1>5 DEF Holds
<1>9. Moves(c, k, {h}) BY <1>3, <1>7, <1>8, <1>a DEF Moves, Untainted
<1>10. QED BY <1>6, <1>9, <1>a DEF k

\* A handle that was asked for is there, or the context shows that it is not.
LEMMA AskedFacts ==
  ASSUME NEW c, Well(c), NEW q, NEW h \in Handles, NEW k \in Asked(c, q, h)
  PROVE  /\ Moves(c, k, {h})
         /\ k.failed = c.failed
         /\ Untainted(k) => Holds(k, h)
<1>1. CASE k = Consume(c, h) BY <1>1, ConsumeFacts
<1>2. CASE k = Unavailable(c, q, FALSE)
  <2>1. Moves(c, k, {}) /\ k.failed = c.failed /\ ~Untainted(k) BY <1>2, UnavailableFacts
  <2>2. QED BY <2>1 DEF Moves
<1>3. QED BY <1>1, <1>2 DEF Asked, If

LEMMA ComparedFacts ==
  ASSUME NEW c, Well(c), NEW q, NEW h
  PROVE  /\ Moves(c, Compared(c, q, h), {})
         /\ Compared(c, q, h).required = c.required
         /\ Holds(c, h) /\ Untainted(Compared(c, q, h)) => h \notin submission.mismatched
<1>1. CASE Holds(c, h) /\ h \in submission.mismatched
  <2>1. Compared(c, q, h) = Report(c, {q}) BY <1>1 DEF Compared
  <2>2. QED BY <2>1, ReportFacts DEF Untainted
<1>2. CASE ~(Holds(c, h) /\ h \in submission.mismatched)
  <2>1. Compared(c, q, h) = c BY <1>2 DEF Compared
  <2>2. QED BY <1>2, <2>1, Stays
<1>3. QED BY <1>1, <1>2

\* A report that does not fail found every rule to hold.
LEMMA AllHold ==
  ASSUME NEW R, Violated(R) = {}
  PROVE  \A x \in R : x[2]
<1>1. \A x \in R : ~x[2] => x[1] \in Violated(R) BY DEF Violated
<1>2. QED BY <1>1

\* A set of positions has a last one.
LEMMA LastIsIn ==
  ASSUME NEW n \in Nat, NEW S, S \subseteq 1 .. n, S # {}
  PROVE  LastOf(S) \in S /\ \A j \in S : j <= LastOf(S)
<1> DEFINE T == {n - i : i \in S}
<1>1. T \subseteq Nat
  <2>1. \A i \in S : n - i \in Nat OBVIOUS
  <2>2. QED BY <2>1
<1>2. T # {} OBVIOUS
<1>3. \A y, x \in Nat : y < x => <<y, x>> \in OpToRel(<, Nat)
  BY DEF OpToRel
<1> HIDE DEF T
<1>4. PICK x \in T : \A y \in T : ~(<<y, x>> \in OpToRel(<, Nat))
  BY <1>1, <1>2, NatLessThanWellFounded, WFMin
<1>5. \A y \in T : ~(y < x) BY <1>1, <1>3, <1>4
<1>6. \A y \in T : x <= y BY <1>1, <1>5
<1> USE DEF T
<1>7. PICK i \in S : x = n - i OBVIOUS
<1>8. \A j \in S : j <= i
  <2>1. TAKE j \in S
  <2>2. n - j \in T /\ i \in Nat /\ j \in Nat OBVIOUS
  <2>3. n - i <= n - j BY <1>6, <1>7, <2>2
  <2>4. QED BY <2>2, <2>3
<1>9. QED BY <1>8 DEF LastOf

-----------------------------------------------------------------------------
\* The inductive invariant.

Early == {"shape", "input", "sequences", "presence"}
Late == {"contract", "source", "prefix", "prefix chronology", "evidence digest", "remaining",
         "postconditions", "chronology", "finalization", "receipt digest"}
AfterSource == (Late \ {"contract", "source"}) \cup {"finish", "over"}
AfterEvidence == AfterSource \ {"prefix", "prefix chronology", "evidence digest"}

\* The handles a call without a dent holds when it has come to a stage.
Due(stage) ==
  (IF stage \in {"shape", "input"} THEN {} ELSE {"input"})
    \cup (IF Issued(receipt) /\ stage \in AfterSource \cup {"source"}
          THEN {"completed", "contract digest"} ELSE {})
    \cup (IF Leased /\ stage \in AfterSource THEN {"source digest"} ELSE {})
    \cup (IF ~Issued(receipt) /\ stage \in AfterEvidence THEN {"evidence digest"} ELSE {})
    \cup (IF stage \in {"finish", "over"} THEN {"receipt digest"} ELSE {})

StateTypes ==
  /\ submission \in Submissions /\ bindings.receipt = submission.receipt
  /\ at \in StageSet /\ Well(ctx) /\ identityValid \in BOOLEAN

HandlesAreDue ==
  Untainted(ctx) =>
    /\ \A g \in Handles : Holds(ctx, g) <=> g \in Due(at)
    /\ submission.mismatched \cap Due(at) = {}

\* What the presence rules establish of the lease and the contract.
LeaseIsBound ==
  at \in Late /\ ~ctx.failed /\ Stable(bindings) # "unknown" => (Leased <=> Stable(bindings) = "lease")
ContractIsBound == at \in Late /\ Untainted(ctx) /\ Issued(receipt) => Bound(bindings)

\* Identities are lost only with a dent, and without them the prefix is not reached.
IdentityIsValid ==
  /\ at \in Early \cup {"contract"} => identityValid
  /\ at \in {"source", "prefix chronology", "evidence digest"} /\ Untainted(ctx) => identityValid
SourceIsBound ==
  at \in {"prefix", "prefix chronology", "evidence digest"} =>
    /\ Stable(bindings) # "unknown"
    /\ Stable(bindings) = "lease" => Holds(ctx, "source digest")

ControllerIsThere ==
  receipt.origin.controller \in {receipt.checks[i].id : i \in Of(receipt, {receipt.origin.checkpoint})}
ControllerIsFound ==
  at \in {"prefix chronology", "evidence digest"} /\ ~ctx.failed /\ ~Issued(receipt) => ControllerIsThere

ResultIsOfContext == result = IF at = "over" THEN Result(ctx) ELSE Pending

Inv ==
  /\ StateTypes /\ HandlesAreDue /\ LeaseIsBound /\ ContractIsBound
  /\ IdentityIsValid /\ SourceIsBound /\ ControllerIsFound /\ ResultIsOfContext

LEMMA InitInv == Init => Inv
<1>1. SUFFICES ASSUME Init PROVE Inv OBVIOUS
<1>2. /\ Well(ctx) /\ Untainted(ctx) /\ \A g \in Handles : ~Holds(ctx, g)
      /\ at = "shape" /\ bindings = submission /\ submission \in Submissions
  BY <1>1, NewFacts DEF Init
<1>3. StateTypes BY <1>1, <1>2 DEF Init, StateTypes, StageSet
<1>4. Due(at) = {} BY <1>2 DEF Due, AfterSource, AfterEvidence, Late
<1>5. HandlesAreDue BY <1>2, <1>4 DEF HandlesAreDue
<1>6. QED BY <1>1, <1>2, <1>3, <1>5
  DEF Init, Inv, LeaseIsBound, ContractIsBound, IdentityIsValid, SourceIsBound, ControllerIsFound,
      ResultIsOfContext, Late, Early

-----------------------------------------------------------------------------
\* Each step of the call keeps the invariant.

\* A step consumes no handle outside H.
Gains(H) == \A g \in Handles \ H : Holds(ctx, g)' => Holds(ctx, g)

\* What a stage that goes on with the same bindings owes the invariant.
LEMMA GoOn ==
  ASSUME Inv, NEW k, NEW stage \in StageSet, NEW H, Go(stage, k), Moves(ctx, k, H),
         at # "over", stage # "over", bindings' = bindings,
         identityValid' \in BOOLEAN,
         Untainted(k) => /\ \A g \in H \cap Handles : Holds(k, g)
                         /\ Due(stage) = Due(at) \cup (H \cap Handles)
                         /\ submission.mismatched \cap H = {},
         stage \in Late => at \in Late,
         stage \in Early \cup {"contract"} => identityValid',
         stage \in {"source", "prefix chronology", "evidence digest"} /\ Untainted(k) => identityValid',
         stage \in {"prefix", "prefix chronology", "evidence digest"} =>
           /\ Stable(bindings) # "unknown"
           /\ Stable(bindings) = "lease" => Holds(k, "source digest"),
         stage \in {"prefix chronology", "evidence digest"} /\ ~k.failed /\ ~Issued(receipt) =>
           ControllerIsThere
  PROVE  Inv' /\ Gains(H)
<1>1. /\ ctx' = k /\ at' = stage /\ submission' = submission /\ result' = result
      /\ Issued(receipt)' = Issued(receipt) /\ Leased' = Leased /\ Due(stage)' = Due(stage)
  BY DEF Go, receipt, Issued, Leased, Due
<1>2. StateTypes' BY <1>1 DEF Inv, StateTypes, Moves
<1>3. HandlesAreDue'
  <2>1. SUFFICES ASSUME Untainted(k)
                 PROVE  /\ \A g \in Handles : Holds(k, g) <=> g \in Due(stage)
                        /\ submission.mismatched \cap Due(stage) = {}
    BY <1>1 DEF HandlesAreDue
  <2>2. Untainted(ctx) BY <2>1 DEF Moves
  <2>3. /\ \A g \in Handles : Holds(ctx, g) <=> g \in Due(at)
        /\ submission.mismatched \cap Due(at) = {}
    BY <2>2 DEF Inv, HandlesAreDue
  <2>4. QED BY <2>1, <2>3 DEF Moves
<1>4. LeaseIsBound' BY <1>1 DEF Inv, LeaseIsBound, Moves, receipt, Stable, Bound, Issued, Leased
<1>5. ContractIsBound' BY <1>1 DEF Inv, ContractIsBound, Moves, receipt, Bound, Issued
<1>6. IdentityIsValid' /\ SourceIsBound'
  BY <1>1 DEF IdentityIsValid, SourceIsBound, Stable, Bound, Issued
<1>7. ControllerIsFound' BY <1>1 DEF ControllerIsFound, ControllerIsThere, receipt, Of, Issued
<1>8. ResultIsOfContext' BY <1>1 DEF Inv, ResultIsOfContext
<1>9. Gains(H) BY <1>1 DEF Gains, Moves, Holds
<1>10. QED BY <1>9, <1>2, <1>3, <1>4, <1>5, <1>6, <1>7, <1>8 DEF Inv

\* A call that leaves early keeps its dent, and need keep no other promise.
LEMMA LeaveDented ==
  ASSUME Inv, NEW k, Go("finish", k), Moves(ctx, k, {}), ~Untainted(k), at # "over",
         bindings' = bindings, identityValid' = identityValid
  PROVE  Inv' /\ Gains({})
<1>1. "finish" \in StageSet /\ identityValid' \in BOOLEAN BY DEF StageSet, Inv, StateTypes
<1>2. QED BY <1>1, GoOn DEF Late, Early

\* A stage that asks for nothing and decides nothing.
LEMMA PlainStep ==
  ASSUME Inv, NEW k, NEW stage \in {"postconditions", "chronology", "finalization", "receipt digest"},
         Go(stage, k), Moves(ctx, k, {}), bindings' = bindings, identityValid' = identityValid,
         at \in {"remaining", "postconditions", "chronology", "finalization"}
  PROVE  Inv' /\ Gains({})
<1>1. stage \in StageSet /\ identityValid' \in BOOLEAN BY DEF StageSet, Inv, StateTypes
<1>2. Due(stage) = Due(at) BY DEF Due, AfterSource, AfterEvidence, Late
<1>3. QED BY <1>1, <1>2, GoOn DEF Late, Early

LEMMA ValidateShapeInv == Inv /\ ValidateShape => Inv' /\ Gains({})
<1>1. SUFFICES ASSUME Inv, ValidateShape PROVE Inv' /\ Gains({}) OBVIOUS
<1>2. Well(ctx) /\ at = "shape" /\ identityValid' = identityValid /\ bindings' = bindings /\ identityValid
  BY <1>1 DEF ValidateShape, Here, Bindings, Inv, StateTypes, IdentityIsValid, Early
<1>3. CASE Go("input", ctx)
  <2>1. Moves(ctx, ctx, {}) /\ "input" \in StageSet /\ Due("input") = Due(at)
    BY <1>2, Stays DEF StageSet, Due, AfterSource, AfterEvidence, Late
  <2>2. QED BY <1>1, <1>2, <1>3, <2>1, GoOn DEF Late, Early
<1>4. CASE Go("finish", LeaveUnevaluated(Report(ctx, {"VALIDATOR.STRUCTURED_ERRORS"})))
  <2> DEFINE c == Report(ctx, {"VALIDATOR.STRUCTURED_ERRORS"})
  <2>1. Moves(ctx, c, {}) BY <1>2, ReportFacts
  <2>2. Moves(c, LeaveUnevaluated(c), {}) /\ ~Untainted(LeaveUnevaluated(c)) BY <2>1, LeaveFacts DEF Moves
  <2>3. Moves(ctx, LeaveUnevaluated(c), {}) BY <2>1, <2>2 DEF Moves
  <2>4. QED BY <1>1, <1>2, <1>4, <2>2, <2>3, LeaveDented
<1>5. CASE Go("finish", Unavailable(ctx, "VALIDATOR.STRUCTURED_ERRORS", TRUE))
  BY <1>1, <1>2, <1>5, UnavailableFacts, LeaveDented
<1>6. QED BY <1>1, <1>3, <1>4, <1>5 DEF ValidateShape

LEMMA RequireInputInv == Inv /\ RequireInput => Inv' /\ Gains({"input"})
<1>1. SUFFICES ASSUME Inv, RequireInput PROVE Inv' /\ Gains({"input"}) OBVIOUS
<1>2. /\ Well(ctx) /\ at = "input" /\ identityValid' = identityValid /\ bindings' = bindings /\ identityValid
      /\ submission \in Submissions
  BY <1>1 DEF RequireInput, Here, Bindings, Inv, StateTypes, IdentityIsValid, Early
<1>3. PICK c \in Asked(ctx, "PROOF.INPUT", "input") : Go("sequences", c) BY <1>1 DEF RequireInput
<1>4. Moves(ctx, c, {"input"}) /\ (Untainted(c) => Holds(c, "input")) BY <1>2, AskedFacts DEF Handles
<1>5. Due("sequences") = Due(at) \cup {"input"} /\ "sequences" \in StageSet
  BY <1>2 DEF StageSet, Due, AfterSource, AfterEvidence, Late
<1>6. submission.mismatched \cap {"input"} = {} BY <1>2, ReceiptAssumption DEF Digests
<1>7. QED BY <1>1, <1>2, <1>3, <1>4, <1>5, <1>6, GoOn DEF Late, Early, Handles

LEMMA PrepareInv == Inv /\ PrepareSequenceSelectors => Inv' /\ Gains({})
<1>1. SUFFICES ASSUME Inv, PrepareSequenceSelectors PROVE Inv' /\ Gains({}) OBVIOUS
<1>2. Well(ctx) /\ at = "sequences" /\ identityValid' = identityValid /\ bindings' = bindings /\ identityValid
  BY <1>1 DEF PrepareSequenceSelectors, Here, Bindings, Inv, StateTypes, IdentityIsValid, Early
<1>3. CASE Go("presence", ctx)
  <2>1. Moves(ctx, ctx, {}) /\ "presence" \in StageSet /\ Due("presence") = Due(at)
    BY <1>2, Stays DEF StageSet, Due, AfterSource, AfterEvidence, Late
  <2>2. QED BY <1>1, <1>2, <1>3, <2>1, GoOn DEF Late, Early
<1>4. CASE Go("finish", Report(ctx, {"ARRAY.46"}))
  <2>1. Moves(ctx, Report(ctx, {"ARRAY.46"}), {}) /\ ~Untainted(Report(ctx, {"ARRAY.46"}))
    BY <1>2, ReportFacts DEF Untainted
  <2>2. QED BY <1>1, <1>2, <1>4, <2>1, LeaveDented
<1>5. QED BY <1>1, <1>3, <1>4 DEF PrepareSequenceSelectors

\* However the contract is read: without one that is bound the context has a dent.
LEMMA ReadingFacts ==
  ASSUME Well(ctx), submission \in Submissions, NEW reading \in ContractReadings
  PROVE  /\ Moves(ctx, reading.c, {})
         /\ reading.view.receipt = submission.receipt
         /\ Untainted(reading.c) => reading.view = submission
         /\ Untainted(reading.c) /\ Issued(receipt) =>
              Bound(reading.view) /\ contract # Absent /\ contract.shaped
<1> DEFINE bound == [submission EXCEPT !.contract = Absent]
           missing == [view |-> bound, c |-> Unavailable(ctx, "PROOF.CONTRACT_BINDING", TRUE)]
           refused == [view |-> bound, c |-> Report(ctx, {"VALIDATOR.STRUCTURED_ERRORS"})]
           unread  == [view |-> bound, c |-> Unavailable(ctx, "VALIDATOR.STRUCTURED_ERRORS", TRUE)]
           read    == [view |-> submission, c |-> ctx]
           gap     == [view |-> submission, c |-> LeaveUnevaluated(Unavailable(ctx, "ARRAY.01", FALSE))]
<1>1. bound.receipt = submission.receipt BY ReceiptAssumption
<1>2. Moves(ctx, ctx, {}) BY Stays
<1> HIDE DEF bound
<1>3. CASE reading = missing
  <2>1. reading.view = bound /\ reading.c = Unavailable(ctx, "PROOF.CONTRACT_BINDING", TRUE) BY <1>3
  <2>2. Moves(ctx, reading.c, {}) /\ ~Untainted(reading.c) BY <2>1, UnavailableFacts
  <2>3. QED BY <1>1, <2>1, <2>2
<1>u. CASE reading = unread
  <2>1. reading.view = bound /\ reading.c = Unavailable(ctx, "VALIDATOR.STRUCTURED_ERRORS", TRUE) BY <1>u
  <2>2. Moves(ctx, reading.c, {}) /\ ~Untainted(reading.c) BY <2>1, UnavailableFacts
  <2>3. QED BY <1>1, <2>1, <2>2
<1>4. CASE reading = refused
  <2>1. Moves(ctx, reading.c, {}) /\ ~Untainted(reading.c) BY <1>4, ReportFacts DEF Untainted
  <2>2. QED BY <1>1, <1>4, <2>1
<1>5. CASE reading = gap
  <2> DEFINE u == Unavailable(ctx, "ARRAY.01", FALSE)
  <2>1. reading.c = LeaveUnevaluated(u) /\ reading.view = submission BY <1>5
  <2> HIDE DEF gap
  <2>2. Moves(ctx, u, {}) BY UnavailableFacts
  <2> HIDE DEF u
  <2>3. Moves(u, LeaveUnevaluated(u), {}) /\ ~Untainted(LeaveUnevaluated(u)) BY <2>2, LeaveFacts DEF Moves
  <2>4. Moves(ctx, LeaveUnevaluated(u), {}) BY <2>2, <2>3 DEF Moves
  <2>5. QED BY <2>1, <2>3, <2>4
<1>6. CASE reading = read /\ (Issued(receipt) => submission.contract # Absent /\ submission.contract.shaped)
  BY <1>2, <1>6 DEF Bound, receipt, contract
<1>7. QED
  <2> USE DEF bound
  <2>1. CASE ~Issued(receipt) BY <1>6, <2>1 DEF ContractReadings
  <2>2. CASE Issued(receipt) /\ submission.contract = Absent BY <1>3, <2>2 DEF ContractReadings
  <2>3. CASE Issued(receipt) /\ submission.contract # Absent
    BY <1>u, <1>4, <1>5, <1>6, <2>3 DEF ContractReadings, If
  <2>4. QED BY <2>1, <2>2, <2>3

LEMMA PresenceFacts ==
  ASSUME NEW s, Violated(PresenceRules(s)) = {}, Stable(s) # "unknown"
  PROVE  s.receipt.binding # Absent <=> Stable(s) = "lease"
<1>1. <<"AI14", s.receipt.binding # Absent <=> Stable(s) = "lease">> \in PresenceRules(s)
  BY DEF PresenceRules, If
<1>2. <<"AI14", s.receipt.binding # Absent <=> Stable(s) = "lease">>[2] BY <1>1, AllHold
<1>3. QED BY <1>2

LEMMA PresenceInv == Inv /\ CheckReceiptPresence => Inv' /\ Gains({})
<1>1. SUFFICES ASSUME Inv, CheckReceiptPresence PROVE Inv' /\ Gains({}) OBVIOUS
<1>2. /\ Well(ctx) /\ submission \in Submissions /\ at = "presence" /\ identityValid
      /\ identityValid' = identityValid
  BY <1>1 DEF CheckReceiptPresence, Here, Inv, StateTypes, IdentityIsValid, Early
<1>3. PICK reading \in ContractReadings :
        LET c == Report(reading.c, Violated(PresenceRules(reading.view)))
            open == Unavailable(c, "VALIDATOR.STRUCTURED_ERRORS", TRUE)
        IN /\ \E d \in {c} \cup If(Fails("validator") /\ submission.sources # << >>, {open}) :
                Go(IF d.failed THEN "receipt digest" ELSE "contract", d)
           /\ bindings' = reading.view
  BY <1>1 DEF CheckReceiptPresence
<1> DEFINE view == reading.view
           c == Report(reading.c, Violated(PresenceRules(view)))
           open == Unavailable(c, "VALIDATOR.STRUCTURED_ERRORS", TRUE)
<1>4. PICK d \in {c, open} : Go(IF d.failed THEN "receipt digest" ELSE "contract", d) BY <1>3 DEF If
<1>5. /\ Moves(ctx, reading.c, {}) /\ view.receipt = submission.receipt
      /\ Untainted(reading.c) /\ Issued(receipt) => Bound(view)
  BY <1>2, ReadingFacts
<1>6. Moves(reading.c, c, {}) /\ (~c.failed => Violated(PresenceRules(view)) = {})
  BY <1>5, ReportFacts DEF Moves
<1>7. Moves(c, d, {}) /\ (~d.failed => ~c.failed)
  <2>1. Well(c) BY <1>6 DEF Moves
  <2> HIDE DEF c
  <2>2. CASE d = c BY <2>1, <2>2, Stays
  <2>3. CASE d = open BY <2>1, <2>3, UnavailableFacts
  <2>4. QED BY <2>2, <2>3
<1> HIDE DEF c, open
<1>8. Moves(ctx, d, {}) BY <1>5, <1>6, <1>7 DEF Moves
<1>9. /\ ctx' = d /\ at' = (IF d.failed THEN "receipt digest" ELSE "contract")
      /\ submission' = submission /\ result' = result /\ receipt' = receipt /\ bindings' = view
  BY <1>3, <1>4 DEF Go, receipt
<1>10. StateTypes' BY <1>2, <1>5, <1>8, <1>9 DEF StateTypes, StageSet, Moves, Inv
<1>11. HandlesAreDue'
  <2>1. SUFFICES ASSUME Untainted(d) PROVE HandlesAreDue' BY <1>9 DEF HandlesAreDue
  <2>2. Untainted(ctx) /\ at' = "contract" BY <2>1, <1>8, <1>9 DEF Moves, Untainted
  <2>3. Due(at)' = Due(at) BY <1>2, <1>9, <2>2 DEF Due, Issued, Leased, AfterSource, AfterEvidence, Late
  <2>4. QED BY <1>1, <1>8, <1>9, <2>2, <2>3 DEF Inv, HandlesAreDue, Moves
<1>12. LeaseIsBound'
  <2>1. SUFFICES ASSUME ~d.failed, Stable(view) # "unknown" PROVE Leased <=> Stable(view) = "lease"
    BY <1>9 DEF LeaseIsBound, Leased, Stable, Bound, Issued
  <2>2. QED BY <2>1, <1>5, <1>6, <1>7, PresenceFacts DEF Leased, receipt
<1>13. ContractIsBound'
  <2>1. SUFFICES ASSUME Untainted(d), Issued(receipt) PROVE Bound(view)
    BY <1>9 DEF ContractIsBound, Bound, Issued
  <2>2. QED BY <2>1, <1>5, <1>6, <1>7 DEF Moves
<1>14. IdentityIsValid' /\ SourceIsBound' /\ ControllerIsFound' /\ ResultIsOfContext'
  BY <1>1, <1>2, <1>9 DEF Inv, IdentityIsValid, SourceIsBound, ControllerIsFound, ResultIsOfContext
<1>15. Gains({}) BY <1>8, <1>9 DEF Gains, Moves, Holds
<1>16. QED BY <1>15, <1>10, <1>11, <1>12, <1>13, <1>14 DEF Inv

LEMMA BindContractInv == Inv /\ BindContract => Inv' /\ Gains({"completed", "contract digest"})
<1>1. SUFFICES ASSUME Inv, BindContract PROVE Inv' /\ Gains({"completed", "contract digest"}) OBVIOUS
<1>2. /\ Well(ctx) /\ submission \in Submissions /\ at = "contract" /\ identityValid
      /\ bindings' = bindings /\ "source" \in StageSet
      /\ submission.mismatched \subseteq Digests
  BY <1>1, ReceiptAssumption DEF BindContract, Here, Inv, StateTypes, IdentityIsValid, Early, StageSet
<1> DEFINE Bind(c) == Go("source", c) /\ identityValid' = (identityValid /\ Clean(c))
           H == {"completed", "contract digest"}
<1>3. Due("source") = Due(at) \cup (IF Issued(receipt) THEN H ELSE {})
  BY <1>2 DEF Due, AfterSource, AfterEvidence, Late
<1>4. \A c : Untainted(c) /\ Moves(ctx, c, H) => Clean(c) BY DEF Untainted, Moves, Clean
<1>5. CASE ~Issued(receipt) /\ Bind(ctx)
  <2>1. Moves(ctx, ctx, {}) BY <1>2, Stays
  <2>2. identityValid' \in BOOLEAN /\ (Untainted(ctx) => identityValid') BY <1>2, <1>5 DEF Clean, Untainted
  <2>3. Inv' /\ Gains({}) BY <1>1, <1>2, <1>3, <1>5, <2>1, <2>2, GoOn DEF Late, Early
  <2>4. QED BY <2>3 DEF Gains
<1>6. CASE Issued(receipt) /\ ~Bound(bindings) /\ Go("source", ctx) /\ identityValid' = FALSE
  <2>1. Moves(ctx, ctx, {}) BY <1>2, Stays
  <2>2. ~Untainted(ctx) BY <1>1, <1>2, <1>6 DEF Inv, ContractIsBound, Late
  <2>3. Inv' /\ Gains({}) BY <1>1, <1>2, <1>6, <2>1, <2>2, GoOn DEF Late, Early
  <2>4. QED BY <2>3 DEF Gains
<1>7. ASSUME NEW c, Bind(c), Moves(ctx, c, H), Issued(receipt),
             Untainted(c) => /\ \A g \in H : Holds(c, g)
                             /\ "contract digest" \notin submission.mismatched
      PROVE  Inv' /\ Gains({"completed", "contract digest"})
  <2>1. identityValid' \in BOOLEAN /\ (Untainted(c) => identityValid')
    BY <1>2, <1>4, <1>7 DEF Clean
  <2>2. "completed" \notin submission.mismatched BY <1>2 DEF Digests
  <2>3. H \cap Handles = H BY DEF Handles, Digests
  <2>4. QED BY <1>1, <1>2, <1>3, <1>7, <2>1, <2>2, <2>3, GoOn DEF Late, Early
<1>8. ASSUME Issued(receipt), NEW c \in Asked(ctx, "PROOF.CONTRACT_BINDING", "completed"),
             IF ~Holds(c, "completed") THEN Bind(c)
             ELSE \/ /\ Fails("complete")
                     /\ Bind(Unavailable(c, "PROOF.CONTRACT_BINDING", TRUE))
                  \/ \E d \in Asked(c, "RC02", "contract digest") :
                       IF ~Holds(d, "contract digest") THEN Bind(d)
                       ELSE Bind(Report(Compared(d, "RC02", "contract digest"),
                                        Violated(ContractRules(bindings))))
      PROVE  Inv' /\ Gains({"completed", "contract digest"})
  <2>h. "completed" \in Handles /\ "contract digest" \in Handles BY DEF Handles, Digests
  <2>1. Moves(ctx, c, {"completed"}) /\ (Untainted(c) => Holds(c, "completed"))
    BY <1>2, <2>h, <1>8, AskedFacts
  <2>2. Well(c) /\ Moves(ctx, c, H) BY <2>1 DEF Moves
  <2> HIDE DEF Bind, H
  <2>3. CASE ~Holds(c, "completed") /\ Bind(c)
    <3>1. ~Untainted(c) BY <2>1, <2>3
    <3>2. QED BY <1>7, <1>8, <2>2, <2>3, <3>1
  <2>4. CASE Bind(Unavailable(c, "PROOF.CONTRACT_BINDING", TRUE))
    <3> DEFINE k == Unavailable(c, "PROOF.CONTRACT_BINDING", TRUE)
    <3>1. Moves(c, k, {}) /\ ~Untainted(k) BY <2>2, UnavailableFacts
    <3>2. Bind(k) BY <2>4
    <3> HIDE DEF k
    <3>3. Moves(ctx, k, H) BY <2>2, <3>1 DEF Moves
    <3>4. QED BY <1>7, <1>8, <3>1, <3>2, <3>3
  <2>5. ASSUME Holds(c, "completed"), NEW d \in Asked(c, "RC02", "contract digest"),
               IF ~Holds(d, "contract digest") THEN Bind(d)
               ELSE Bind(Report(Compared(d, "RC02", "contract digest"), Violated(ContractRules(bindings))))
        PROVE  Inv' /\ Gains({"completed", "contract digest"})
    <3>1. Moves(c, d, {"contract digest"}) /\ (Untainted(d) => Holds(d, "contract digest"))
      BY <2>2, <2>h, <2>5, AskedFacts
    <3>2. Moves(ctx, d, H) /\ Holds(d, "completed") /\ Well(d)
      BY <2>1, <2>5, <2>h, <3>1, MovesOn DEF Moves, H
    <3>3. CASE ~Holds(d, "contract digest") /\ Bind(d)
      <4>1. ~Untainted(d) BY <3>1, <3>3
      <4>2. QED BY <1>7, <1>8, <3>2, <3>3, <4>1
    <3>4. CASE Holds(d, "contract digest") /\
               Bind(Report(Compared(d, "RC02", "contract digest"), Violated(ContractRules(bindings))))
      <4> DEFINE e == Compared(d, "RC02", "contract digest")
                 k == Report(e, Violated(ContractRules(bindings)))
      <4>1. Moves(d, e, {}) /\ (Untainted(e) => "contract digest" \notin submission.mismatched)
        BY <3>2, <3>4, ComparedFacts
      <4>2. Bind(k) BY <3>4
      <4> HIDE DEF e
      <4>3. Moves(e, k, {}) BY <4>1, ReportFacts DEF Moves
      <4> HIDE DEF k
      <4>4. Moves(ctx, k, H) BY <3>2, <4>1, <4>3 DEF Moves
      <4>5. \A g \in H : Holds(k, g) BY <3>2, <3>4, <4>1, <4>3, <2>h DEF Moves, H
      <4>6. Untainted(k) => "contract digest" \notin submission.mismatched BY <4>1, <4>3 DEF Moves
      <4>7. QED BY <1>7, <1>8, <4>2, <4>4, <4>5, <4>6
    <3>5. QED BY <2>5, <3>3, <3>4
  <2>6. QED BY <1>8, <2>3, <2>4, <2>5
<1>9. QED BY <1>1, <1>5, <1>6, <1>8 DEF BindContract

LEMMA BindSourceInv == Inv /\ BindSource => Inv' /\ Gains({"source digest"})
<1>1. SUFFICES ASSUME Inv, BindSource PROVE Inv' /\ Gains({"source digest"}) OBVIOUS
<1>2. /\ Well(ctx) /\ submission \in Submissions /\ at = "source" /\ identityValid \in BOOLEAN
      /\ bindings' = bindings /\ {"prefix", "receipt digest"} \subseteq StageSet
  BY <1>1 DEF BindSource, Here, Inv, StateTypes, StageSet
<1> DEFINE Bind(c, valid) ==
             LET identity == identityValid /\ valid /\ ~c.failed
             IN /\ identityValid' = identity
                /\ IF identity THEN Go("prefix", c) ELSE Go("receipt digest", LeaveUnevaluated(c))
           H == {"source digest"}
<1>3. ASSUME NEW c, NEW valid \in BOOLEAN, Bind(c, valid), Moves(ctx, c, H),
             valid => /\ Stable(bindings) # "unknown"
                      /\ Stable(bindings) = "lease" => Holds(c, "source digest"),
             valid /\ Untainted(c) =>
                      /\ Leased => "source digest" \notin submission.mismatched
                      /\ Holds(c, "source digest") <=> Leased
      PROVE  Inv' /\ Gains({"source digest"})
  <2>1. CASE identityValid /\ valid /\ ~c.failed
    <3>1. Go("prefix", c) /\ identityValid' BY <1>3, <2>1
    <3>2. Due("prefix") = Due(at) \cup (IF Leased THEN H ELSE {})
      BY <1>2 DEF Due, AfterSource, AfterEvidence, Late
    <3>3. H \cap Handles = H BY DEF Handles, Digests
    <3>4. CASE Leased
      BY <1>1, <1>2, <1>3, <2>1, <3>1, <3>2, <3>3, <3>4, GoOn DEF Late, Early
    <3>5. CASE ~Leased
      <4>1. HandlesAreDue' => Inv'
        BY <1>1, <1>2, <1>3, <2>1, <3>1, <3>3
        DEF Go, Inv, StateTypes, Moves, LeaseIsBound, ContractIsBound, IdentityIsValid, SourceIsBound,
            ControllerIsFound, ResultIsOfContext, Late, Early, receipt, Issued, Leased, Stable, Bound
      <4>2. HandlesAreDue'
        <5>1. SUFFICES ASSUME Untainted(c)
                       PROVE  /\ \A g \in Handles : Holds(c, g) <=> g \in Due(at)
                              /\ submission.mismatched \cap Due(at) = {}
          <6>1. at' = "prefix" /\ ctx' = c /\ submission' = submission /\ bindings' = bindings
            BY <1>2, <1>3, <3>1 DEF Go, Moves, Bind
          <6>2. Due(at)' = Due("prefix") BY <6>1 DEF Due, Issued, Leased, receipt
          <6>3. Due(at)' = Due(at) BY <3>2, <3>5, <6>2
          <6>4. QED BY <6>1, <6>3 DEF HandlesAreDue, Holds
        <5>2. "source digest" \notin Due(at) BY <1>2 DEF Due, AfterSource, AfterEvidence, Late
        <5>3. QED BY <1>1, <1>3, <2>1, <3>5, <5>1, <5>2 DEF Inv, HandlesAreDue, Moves
      <4>3. Gains(H) BY <1>3, <3>1 DEF Go, Gains, Moves, Holds
      <4>4. QED BY <4>1, <4>2, <4>3
    <3>6. QED BY <3>4, <3>5
  <2>2. CASE ~(identityValid /\ valid /\ ~c.failed)
    <3>1. Go("receipt digest", LeaveUnevaluated(c)) /\ identityValid' \in BOOLEAN BY <1>3, <2>2
    <3>2. Moves(c, LeaveUnevaluated(c), {}) /\ ~Untainted(LeaveUnevaluated(c))
      BY <1>3, LeaveFacts DEF Moves
    <3>3. Moves(ctx, LeaveUnevaluated(c), H) BY <1>3, <3>2 DEF Moves
    <3>4. QED BY <1>1, <1>2, <3>1, <3>2, <3>3, GoOn DEF Late, Early
  <2>3. QED BY <2>1, <2>2
<1>4. CASE Stable(bindings) # "lease" /\ Bind(ctx, Stable(bindings) # "unknown")
  <2>1. Moves(ctx, ctx, H) BY <1>2, Stays
  <2>a. "source digest" \in Handles /\ "source digest" \notin Due(at)
    BY <1>2 DEF Due, AfterSource, AfterEvidence, Late, Handles, Digests
  <2>2. Untainted(ctx) => ~Holds(ctx, "source digest") BY <1>1, <2>a DEF Inv, HandlesAreDue
  <2>3. Untainted(ctx) /\ Stable(bindings) # "unknown" => ~Leased
    BY <1>1, <1>2, <1>4 DEF Inv, LeaseIsBound, Late, Untainted
  <2>4. QED BY <1>3, <1>4, <2>1, <2>2, <2>3
<1>5. ASSUME Stable(bindings) = "lease", NEW c \in Asked(ctx, "PROOF.SOURCE_DIGEST", "source digest"),
             IF ~Holds(c, "source digest") THEN Bind(c, FALSE)
             ELSE Bind(Report(Compared(c, "AI19", "source digest"), Violated(SourceRules(bindings))), TRUE)
      PROVE  Inv' /\ Gains({"source digest"})
  <2>1. Moves(ctx, c, H) /\ Well(c) /\ "source digest" \in Handles
    BY <1>2, AskedFacts DEF Handles, Digests, Moves
  <2>2. CASE ~Holds(c, "source digest") BY <1>3, <1>5, <2>1, <2>2
  <2>3. CASE Holds(c, "source digest")
    <3> DEFINE e == Compared(c, "AI19", "source digest")
               k == Report(e, Violated(SourceRules(bindings)))
    <3>1. Moves(c, e, {}) /\ (Untainted(e) => "source digest" \notin submission.mismatched)
      BY <2>1, <2>3, ComparedFacts
    <3>2. Bind(k, TRUE) BY <1>5, <2>3
    <3> HIDE DEF e
    <3>3. Moves(e, k, {}) BY <3>1, ReportFacts DEF Moves
    <3> HIDE DEF k, Bind
    <3>4. Moves(ctx, k, H) /\ Holds(k, "source digest") BY <2>1, <2>3, <3>1, <3>3 DEF Moves
    <3>5. Untainted(k) => "source digest" \notin submission.mismatched BY <3>1, <3>3 DEF Moves
    <3>6. Untainted(k) => Leased
      <4>1. Untainted(k) => ~ctx.failed BY <3>4 DEF Moves, Untainted
      <4>2. QED BY <1>1, <1>2, <1>5, <4>1 DEF Inv, LeaseIsBound, Late
    <3>7. QED BY <1>3, <1>5, <3>2, <3>4, <3>5, <3>6
  <2>4. QED BY <2>2, <2>3
<1>6. CASE Bind(Unavailable(ctx, "VALIDATOR.STRUCTURED_ERRORS", TRUE), FALSE)
  <2> DEFINE k == Unavailable(ctx, "VALIDATOR.STRUCTURED_ERRORS", TRUE)
  <2>1. Moves(ctx, k, {}) BY <1>2, UnavailableFacts
  <2>2. Bind(k, FALSE) BY <1>6
  <2> HIDE DEF k, Bind
  <2>3. Moves(ctx, k, H) BY <2>1 DEF Moves
  <2>4. QED BY <1>3, <2>2, <2>3
<1>7. QED BY <1>1, <1>4, <1>5, <1>6 DEF BindSource

\* A controller that breaks no rule is a check of the denying checkpoint.
LEMMA ControllerFacts ==
  ASSUME submission \in Submissions, bindings.receipt = submission.receipt,
         Controllers(receipt) # {}, Violated(ControllerRules(bindings)) = {}
  PROVE  ControllerIsThere
<1> DEFINE found == LastOf(Controllers(receipt))
           equal == receipt.origin.controller = Controller(receipt).id
<1>1. DOMAIN receipt.checks = 1 .. Len(receipt.checks) /\ Len(receipt.checks) \in Nat
  BY ReceiptAssumption DEF receipt
<1>2. Controllers(receipt) \subseteq 1 .. Len(receipt.checks) BY <1>1 DEF Controllers, Of
<1>3. found \in Controllers(receipt) BY <1>1, <1>2, LastIsIn
<1>4. <<"DP05", bindings.receipt.origin.controller = Controller(bindings.receipt).id>> \in ControllerRules(bindings)
  BY DEF ControllerRules
<1>5. <<"DP05", bindings.receipt.origin.controller = Controller(bindings.receipt).id>>[2] BY <1>4, AllHold
<1>6. equal BY <1>5 DEF receipt
<1>7. found \in Of(receipt, {receipt.origin.checkpoint}) BY <1>3 DEF Controllers
<1>8. receipt.origin.controller = receipt.checks[found].id BY <1>6 DEF Controller
<1>9. QED BY <1>7, <1>8 DEF ControllerIsThere

LEMMA PrefixInv == Inv /\ CheckPrefixAndController => Inv' /\ Gains({})
<1>1. SUFFICES ASSUME Inv, CheckPrefixAndController PROVE Inv' /\ Gains({}) OBVIOUS
<1>2. /\ Well(ctx) /\ submission \in Submissions /\ at = "prefix" /\ bindings.receipt = submission.receipt
      /\ bindings' = bindings /\ "prefix chronology" \in StageSet
  BY <1>1 DEF CheckPrefixAndController, Here, Inv, StateTypes, StageSet
<1> DEFINE prerequisites == IF Issued(receipt) THEN {} ELSE PrerequisiteRules(bindings)
           controlling == IF Issued(receipt) \/ Controllers(receipt) = {} THEN {} ELSE ControllerRules(bindings)
           found == PrefixRules(bindings) \cup prerequisites \cup controlling
           k == Report(ctx, Violated(found))
<1>3. Go("prefix chronology", k) /\ identityValid' = (Issued(receipt) \/ ~k.failed)
  BY <1>1 DEF CheckPrefixAndController
<1>4. Moves(ctx, k, {}) /\ (~k.failed => Violated(found) = {}) BY <1>2, ReportFacts
<1>5. ~k.failed /\ ~Issued(receipt) => ControllerIsThere
  <2>1. SUFFICES ASSUME ~k.failed, ~Issued(receipt) PROVE ControllerIsThere OBVIOUS
  <2>2. Violated(found) = {} BY <2>1, <1>4
  <2> HIDE DEF k
  <2>3. Violated(prerequisites) = {} /\ Violated(controlling) = {} BY <2>2 DEF Violated
  <2>4. Controllers(receipt) # {}
    <3>1. <<"DP05", Controllers(bindings.receipt) # {}>> \in PrerequisiteRules(bindings) BY DEF PrerequisiteRules
    <3>2. Violated(PrerequisiteRules(bindings)) = {} BY <2>1, <2>3
    <3>3. <<"DP05", Controllers(bindings.receipt) # {}>>[2] BY <3>1, <3>2, AllHold
    <3>4. QED BY <3>3, <1>2 DEF receipt
  <2>5. QED BY <1>2, <2>1, <2>3, <2>4, ControllerFacts
<1> HIDE DEF k
<1>6. identityValid' \in BOOLEAN /\ (Untainted(k) => identityValid')
  <2>1. k.failed \in BOOLEAN BY <1>4 DEF Moves, Well, ContextType
  <2>2. QED BY <1>3, <2>1 DEF Untainted
<1>7. Due("prefix chronology") = Due(at) BY <1>2 DEF Due, AfterSource, AfterEvidence, Late
<1>8. /\ Stable(bindings) # "unknown"
      /\ Stable(bindings) = "lease" => Holds(k, "source digest")
  BY <1>1, <1>2, <1>4 DEF Inv, SourceIsBound, Moves, Handles, Digests
<1>9. QED BY <1>1, <1>2, <1>3, <1>4, <1>5, <1>6, <1>7, <1>8, GoOn DEF Late, Early

LEMMA PrefixChronologyInv == Inv /\ CheckPrefixChronology => Inv' /\ Gains({})
<1>1. SUFFICES ASSUME Inv, CheckPrefixChronology PROVE Inv' /\ Gains({}) OBVIOUS
<1> DEFINE k == Report(ctx, Violated(PrefixRelations(bindings)))
<1>2. /\ Well(ctx) /\ at = "prefix chronology" /\ bindings' = bindings /\ "evidence digest" \in StageSet
      /\ identityValid' = identityValid /\ identityValid \in BOOLEAN /\ Go("evidence digest", k)
  BY <1>1 DEF CheckPrefixChronology, Relate, Bindings, Here, Inv, StateTypes, StageSet
<1>3. Moves(ctx, k, {}) BY <1>2, ReportFacts
<1> HIDE DEF k
<1>4. Due("evidence digest") = Due(at) BY <1>2 DEF Due, AfterSource, AfterEvidence, Late
<1>5. /\ Stable(bindings) # "unknown"
      /\ Stable(bindings) = "lease" => Holds(k, "source digest")
  BY <1>1, <1>2, <1>3 DEF Inv, SourceIsBound, Moves, Handles, Digests
<1>6. /\ ~k.failed /\ ~Issued(receipt) => ControllerIsThere
      /\ Untainted(k) => identityValid'
  BY <1>1, <1>2, <1>3 DEF Inv, ControllerIsFound, IdentityIsValid, Moves
<1>7. QED BY <1>1, <1>2, <1>3, <1>4, <1>5, <1>6, GoOn DEF Late, Early

LEMMA EvidenceInv == Inv /\ CheckEvidenceDigest => Inv' /\ Gains({"evidence digest"})
<1>1. SUFFICES ASSUME Inv, CheckEvidenceDigest PROVE Inv' /\ Gains({"evidence digest"}) OBVIOUS
<1>2. /\ Well(ctx) /\ at = "evidence digest" /\ bindings' = bindings /\ "remaining" \in StageSet
      /\ identityValid' = identityValid /\ identityValid \in BOOLEAN /\ "evidence digest" \in Handles
  BY <1>1 DEF CheckEvidenceDigest, Bindings, Here, Inv, StateTypes, StageSet, Handles, Digests
<1>3. Due("remaining") = Due(at) \cup (IF Issued(receipt) THEN {} ELSE {"evidence digest"})
  BY <1>2 DEF Due, AfterSource, AfterEvidence, Late
<1>4. CASE (Issued(receipt) \/ ~identityValid \/ ctx.failed) /\ Go("remaining", ctx)
  <2>1. Moves(ctx, ctx, {}) BY <1>2, Stays
  <2>2. Untainted(ctx) => Issued(receipt) BY <1>1, <1>2, <1>4 DEF Inv, IdentityIsValid, Untainted
  <2>3. Inv' /\ Gains({}) BY <1>1, <1>2, <1>3, <1>4, <2>1, <2>2, GoOn DEF Late, Early
  <2>4. QED BY <2>3 DEF Gains
<1>5. ASSUME ~Issued(receipt), NEW c \in Asked(ctx, "PROOF.DENIAL_DIGEST", "evidence digest"),
             Go("remaining", Compared(c, "PROOF.DENIAL_DIGEST", "evidence digest"))
      PROVE  Inv' /\ Gains({"evidence digest"})
  <2> DEFINE k == Compared(c, "PROOF.DENIAL_DIGEST", "evidence digest")
             H == {"evidence digest"}
  <2>1. Moves(ctx, c, H) /\ Well(c) /\ (Untainted(c) => Holds(c, "evidence digest"))
    BY <1>2, AskedFacts DEF Moves
  <2>2. /\ Moves(c, k, {})
        /\ Holds(c, "evidence digest") /\ Untainted(k) => "evidence digest" \notin submission.mismatched
    BY <2>1, ComparedFacts
  <2>3. Go("remaining", k) BY <1>5
  <2> HIDE DEF k
  <2>4. Moves(ctx, k, H) BY <2>1, <2>2 DEF Moves
  <2>5. Untainted(k) => Holds(k, "evidence digest") /\ submission.mismatched \cap H = {}
    BY <1>2, <2>1, <2>2 DEF Moves
  <2>6. QED BY <1>1, <1>2, <1>3, <1>5, <2>3, <2>4, <2>5, GoOn DEF Late, Early
<1>6. QED BY <1>1, <1>4, <1>5 DEF CheckEvidenceDigest

LEMMA RemainingInv == Inv /\ CheckReceiptRemaining => Inv' /\ Gains({})
<1>1. SUFFICES ASSUME Inv, CheckReceiptRemaining PROVE Inv' /\ Gains({}) OBVIOUS
<1> DEFINE c == Report(ctx, Violated(ExecutionRules(receipt)))
           carried == Report(c, Violated(CarrierRules(bindings)))
           requirement == IF Holds(c, "input") THEN "D10.path-proof-unavailable" ELSE "PROOF.INPUT"
           Scoped(open) == Report(IF open = {} THEN carried ELSE Unavailable(carried, requirement, TRUE),
                                  Violated(ScopeRules(bindings, open)))
<1>2. Well(ctx) /\ at = "remaining" /\ bindings' = bindings /\ identityValid' = identityValid
  BY <1>1 DEF CheckReceiptRemaining, Bindings, Here, Inv, StateTypes
<1>3. \/ Go("postconditions", ctx) \/ Go("postconditions", carried)
      \/ \E open \in OpenPaths(c, Carried(receipt) \cup receipt.changed) : Go("postconditions", Scoped(open))
  BY <1>1 DEF CheckReceiptRemaining
<1>4. Moves(ctx, c, {}) BY <1>2, ReportFacts
<1> HIDE DEF c
<1>5. Moves(c, carried, {}) BY <1>4, ReportFacts DEF Moves
<1> HIDE DEF carried
<1>6. ASSUME NEW open PROVE Moves(carried, Scoped(open), {})
  <2> DEFINE k == IF open = {} THEN carried ELSE Unavailable(carried, requirement, TRUE)
  <2>1. Moves(carried, k, {})
    <3>1. Well(carried) BY <1>5 DEF Moves
    <3> HIDE DEF requirement
    <3>2. CASE open = {} BY <3>1, <3>2, Stays
    <3>3. CASE open # {} BY <3>1, <3>3, UnavailableFacts
    <3>4. QED BY <3>2, <3>3
  <2>2. Scoped(open) = Report(k, Violated(ScopeRules(bindings, open))) OBVIOUS
  <2> HIDE DEF k, Scoped
  <2>3. Moves(k, Scoped(open), {}) BY <2>1, <2>2, ReportFacts DEF Moves
  <2>4. QED BY <2>1, <2>3 DEF Moves
<1> HIDE DEF Scoped
<1>7. Moves(ctx, ctx, {}) /\ Moves(ctx, carried, {}) /\ \A open : Moves(ctx, Scoped(open), {})
  <2>1. Moves(ctx, ctx, {}) BY <1>2, Stays
  <2>2. Moves(ctx, carried, {}) BY <1>4, <1>5 DEF Moves
  <2>3. ASSUME NEW open PROVE Moves(ctx, Scoped(open), {}) BY <1>6, <2>2 DEF Moves
  <2>4. QED BY <2>1, <2>2, <2>3
<1>8. PICK k : Go("postconditions", k) /\ Moves(ctx, k, {}) BY <1>3, <1>7
<1>9. QED BY <1>1, <1>2, <1>8, PlainStep

LEMMA PostconditionsInv == Inv /\ CheckPostconditionBindings => Inv' /\ Gains({})
<1>1. SUFFICES ASSUME Inv, CheckPostconditionBindings PROVE Inv' /\ Gains({}) OBVIOUS
<1> DEFINE k == IF Issued(receipt) THEN Report(ctx, Violated(PostconditionRules(bindings))) ELSE ctx
<1>2. Well(ctx) /\ at = "postconditions" /\ bindings' = bindings /\ identityValid' = identityValid
      /\ Go("chronology", k)
  BY <1>1 DEF CheckPostconditionBindings, Bindings, Here, Inv, StateTypes
<1>3. Moves(ctx, k, {}) BY <1>2, ReportFacts, Stays
<1> HIDE DEF k
<1>4. QED BY <1>1, <1>2, <1>3, PlainStep

LEMMA ChronologyInv == Inv /\ CheckRemainingChronology => Inv' /\ Gains({})
<1>1. SUFFICES ASSUME Inv, CheckRemainingChronology PROVE Inv' /\ Gains({}) OBVIOUS
<1> DEFINE k == Report(ctx, Violated(RemainingRelations(bindings)))
<1>2. Well(ctx) /\ at = "chronology" /\ bindings' = bindings /\ identityValid' = identityValid
      /\ Go("finalization", k)
  BY <1>1 DEF CheckRemainingChronology, Relate, Bindings, Here, Inv, StateTypes
<1>3. Moves(ctx, k, {}) BY <1>2, ReportFacts
<1> HIDE DEF k
<1>4. QED BY <1>1, <1>2, <1>3, PlainStep

LEMMA FinalizationInv == Inv /\ CheckOutcomeAndFinalization => Inv' /\ Gains({})
<1>1. SUFFICES ASSUME Inv, CheckOutcomeAndFinalization PROVE Inv' /\ Gains({}) OBVIOUS
<1> DEFINE k == Report(ctx, Violated(FinalizationRules(bindings)))
<1>2. Well(ctx) /\ at = "finalization" /\ bindings' = bindings /\ identityValid' = identityValid
      /\ Go("receipt digest", k)
  BY <1>1 DEF CheckOutcomeAndFinalization, Bindings, Here, Inv, StateTypes
<1>3. Moves(ctx, k, {}) BY <1>2, ReportFacts
<1> HIDE DEF k
<1>4. QED BY <1>1, <1>2, <1>3, PlainStep

LEMMA ReceiptDigestInv == Inv /\ CheckReceiptDigest => Inv' /\ Gains({"receipt digest"})
<1>1. SUFFICES ASSUME Inv, CheckReceiptDigest PROVE Inv' /\ Gains({"receipt digest"}) OBVIOUS
<1>2. /\ Well(ctx) /\ at = "receipt digest" /\ bindings' = bindings /\ "finish" \in StageSet
      /\ identityValid' = identityValid /\ identityValid \in BOOLEAN /\ "receipt digest" \in Handles
  BY <1>1 DEF CheckReceiptDigest, Bindings, Here, Inv, StateTypes, StageSet, Handles, Digests
<1>3. Due("finish") = Due(at) \cup {"receipt digest"}
  BY <1>2 DEF Due, AfterSource, AfterEvidence, Late
<1>4. CASE ~Untainted(ctx) /\ Go("finish", ctx)
  <2>1. Moves(ctx, ctx, {}) BY <1>2, Stays
  <2>2. Inv' /\ Gains({}) BY <1>1, <1>2, <1>4, <2>1, LeaveDented
  <2>3. QED BY <2>2 DEF Gains
<1>5. ASSUME NEW c \in Asked(ctx, "PROOF.RECEIPT_DIGEST", "receipt digest"),
             Go("finish", Compared(c, "PROOF.RECEIPT_DIGEST", "receipt digest"))
      PROVE  Inv' /\ Gains({"receipt digest"})
  <2> DEFINE k == Compared(c, "PROOF.RECEIPT_DIGEST", "receipt digest")
             H == {"receipt digest"}
  <2>1. Moves(ctx, c, H) /\ Well(c) /\ (Untainted(c) => Holds(c, "receipt digest"))
    BY <1>2, AskedFacts DEF Moves
  <2>2. /\ Moves(c, k, {})
        /\ Holds(c, "receipt digest") /\ Untainted(k) => "receipt digest" \notin submission.mismatched
    BY <2>1, ComparedFacts
  <2>3. Go("finish", k) BY <1>5
  <2> HIDE DEF k
  <2>4. Moves(ctx, k, H) BY <2>1, <2>2 DEF Moves
  <2>5. Untainted(k) => Holds(k, "receipt digest") /\ submission.mismatched \cap H = {}
    BY <1>2, <2>1, <2>2 DEF Moves
  <2>6. QED BY <1>1, <1>2, <1>3, <2>3, <2>4, <2>5, GoOn DEF Late, Early
<1>6. QED BY <1>1, <1>4, <1>5 DEF CheckReceiptDigest

LEMMA FinishInv == Inv /\ FinishResult => Inv' /\ Gains({})
<1>1. SUFFICES ASSUME Inv, FinishResult PROVE Inv' /\ Gains({}) OBVIOUS
<1> DEFINE open == Unavailable(ctx, "PROOF.INPUT", FALSE)
<1>a. \E c \in {ctx} \cup If(Fails("continuity") /\ ctx.proofs # << >>, {open}) : ctx' = c /\ result' = Result(c)
  BY <1>1 DEF FinishResult
<1> HIDE DEF open
<1>b. If(Fails("continuity") /\ ctx.proofs # << >>, {open}) \subseteq {open} BY DEF If
<1>2. PICK c \in {ctx, open} : ctx' = c /\ result' = Result(c) BY <1>a, <1>b
<1>3. /\ Well(ctx) /\ at = "finish" /\ at' = "over" /\ "over" \in StageSet
      /\ submission' = submission /\ bindings' = bindings /\ identityValid' = identityValid
  BY <1>1 DEF FinishResult, Bindings, Here, Inv, StateTypes, StageSet
<1>4. Moves(ctx, c, {}) BY <1>2, <1>3, UnavailableFacts, Stays DEF open
<1>5. StateTypes' BY <1>1, <1>2, <1>3, <1>4 DEF Inv, StateTypes, Moves
<1>6. HandlesAreDue'
  <2>1. Due(at)' = Due(at) BY <1>3 DEF Due, receipt, Issued, Leased, AfterSource, AfterEvidence, Late
  <2>2. SUFFICES ASSUME Untainted(c) PROVE HandlesAreDue' BY <1>2 DEF HandlesAreDue
  <2>3. QED BY <1>1, <1>2, <1>3, <1>4, <2>1, <2>2 DEF Inv, HandlesAreDue, Moves
<1>7. Gains({}) BY <1>2, <1>4 DEF Gains, Moves, Holds
<1>8. QED BY <1>7, <1>1, <1>2, <1>3, <1>5, <1>6
  DEF Inv, LeaseIsBound, ContractIsBound, IdentityIsValid, SourceIsBound, ControllerIsFound,
      ResultIsOfContext, Late, Early

LEMMA NextInv == Inv /\ [Next]_vars => Inv'
<1>1. CASE UNCHANGED vars
  <2>1. UNCHANGED vars BY <1>1
  <2>2. /\ UNCHANGED <<Leased, Due(at)>> /\ Issued(receipt)' = Issued(receipt)
    BY <2>1 DEF vars, Due, receipt, Leased, Issued
  <2>3. (Stable(bindings))' = Stable(bindings) /\ (Bound(bindings))' = Bound(bindings)
    BY <2>1 DEF vars, Bound, Stable
  <2>4. Inv => HandlesAreDue' BY <2>1, <2>2 DEF Inv, vars, HandlesAreDue
  <2>5. Inv => LeaseIsBound' /\ ContractIsBound' /\ IdentityIsValid'
    BY <2>1, <2>2, <2>3 DEF Inv, vars, LeaseIsBound, ContractIsBound, IdentityIsValid
  <2>6. QED
    BY <2>1, <2>4, <2>5
    DEF vars, Inv, StateTypes, SourceIsBound, ControllerIsFound, ControllerIsThere, ResultIsOfContext,
        receipt, Leased, Issued, Bound, Stable
<1>2. CASE Next
  BY <1>2, ValidateShapeInv, RequireInputInv, PrepareInv, PresenceInv, BindContractInv, BindSourceInv,
     PrefixInv, PrefixChronologyInv, EvidenceInv, RemainingInv, PostconditionsInv, ChronologyInv,
     FinalizationInv, ReceiptDigestInv, FinishInv
  DEF Next
<1>3. QED BY <1>1, <1>2

LEMMA Inductive == Spec => []Inv
BY InitInv, NextInv, PTL DEF Spec

-----------------------------------------------------------------------------
\* Acceptance rests on every proof the submission calls for, on digests that are
\* the ones it states and on no proof beyond, whoever stays out
\* (_require_proof and _proof as the stages call them, _finish_result).
THEOREM AcceptanceProven == Spec => []AcceptanceIsProven
<1>1. Inv => AcceptanceIsProven
  <2>1. SUFFICES ASSUME Inv, Accepted
        PROVE  /\ \A handle \in Handles : Holds(ctx, handle) <=> handle \in Needed
               /\ submission.mismatched \cap Needed = {}
    BY DEF AcceptanceIsProven
  <2>2. result = Result(ctx) /\ at = "over"
    BY <2>1 DEF Inv, ResultIsOfContext, Accepted, Pending
  <2>3. Untainted(ctx) BY <2>1, <2>2 DEF Accepted, Result, Verdict, Untainted
  <2>4. Due(at) = Needed BY <2>2 DEF Due, Needed, AfterSource, AfterEvidence, Late
  <2>5. QED BY <2>1, <2>3, <2>4 DEF Inv, HandlesAreDue
<1>2. QED BY <1>1, Inductive, PTL

\* The digest of a denial's evidence, asked for after the source and the
\* controller.
LEMMA EvidenceInOrder ==
  ASSUME Inv, CheckEvidenceDigest, Holds(ctx, "evidence digest")', ~Holds(ctx, "evidence digest")
  PROVE  ~ctx.failed /\ (Leased => Holds(ctx, "source digest")) /\ ControllerIsThere
<1>1. at = "evidence digest" BY DEF CheckEvidenceDigest, Here
<1>2. ~Issued(receipt) /\ identityValid /\ ~ctx.failed
  <2>1. SUFFICES ASSUME Issued(receipt) \/ ~identityValid \/ ctx.failed PROVE FALSE
    BY DEF Inv, StateTypes
  <2>2. ctx' = ctx BY <2>1 DEF CheckEvidenceDigest, Go
  <2>3. QED BY <2>2 DEF Holds
<1>3. ControllerIsThere BY <1>1, <1>2 DEF Inv, ControllerIsFound
<1>4. /\ Stable(bindings) # "unknown"
      /\ Stable(bindings) = "lease" => Holds(ctx, "source digest")
  BY <1>1 DEF Inv, SourceIsBound
<1>5. Leased => Stable(bindings) = "lease" BY <1>1, <1>2, <1>4 DEF Inv, LeaseIsBound, Late
<1>6. QED BY <1>2, <1>3, <1>4, <1>5

\* The digest of the receipt, asked for after everything else.
LEMMA ReceiptInOrder ==
  ASSUME Inv, CheckReceiptDigest, Holds(ctx, "receipt digest")', ~Holds(ctx, "receipt digest")
  PROVE  Untainted(ctx) /\ \A handle \in Needed \ {"receipt digest"} : Holds(ctx, handle)
<1>1. at = "receipt digest" BY DEF CheckReceiptDigest, Here
<1>2. Untainted(ctx)
  <2>1. SUFFICES ASSUME ~Untainted(ctx) PROVE FALSE OBVIOUS
  <2>2. ctx' = ctx BY <2>1 DEF CheckReceiptDigest, Go
  <2>3. QED BY <2>2 DEF Holds
<1>3. Needed \ {"receipt digest"} = Due(at)
  BY <1>1 DEF Due, Needed, AfterSource, AfterEvidence, Late
<1>4. Needed \subseteq Handles BY DEF Needed, Handles, Digests
<1>5. QED BY <1>2, <1>3, <1>4 DEF Inv, HandlesAreDue

\* The proofs nest in the right order: no step consumes the digest of a denial's
\* evidence before the source and the controller are settled, nor the digest of
\* the receipt before everything else is (_check_receipt_digest is the last stage,
\* and runs on a context without a dent).
THEOREM ProofsAreOrdered == Spec => ProofsInOrder
<1> DEFINE Evidence == Holds(ctx, "evidence digest")' /\ ~Holds(ctx, "evidence digest") =>
                         /\ ~ctx.failed
                         /\ Leased => Holds(ctx, "source digest")
                         /\ receipt.origin.controller \in
                              {receipt.checks[i].id : i \in Of(receipt, {receipt.origin.checkpoint})}
           Receipt == Holds(ctx, "receipt digest")' /\ ~Holds(ctx, "receipt digest") =>
                        Untainted(ctx) /\ \A handle \in Needed \ {"receipt digest"} : Holds(ctx, handle)
<1>1. Inv /\ [Next]_vars => [Evidence /\ Receipt]_vars
  <2>1. SUFFICES ASSUME Inv, Next PROVE Evidence /\ Receipt OBVIOUS
  <2>h. "evidence digest" \in Handles /\ "receipt digest" \in Handles BY DEF Handles, Digests
  <2>2. ASSUME NEW H, Gains(H), "evidence digest" \notin H PROVE Evidence BY <2>2, <2>h DEF Gains
  <2>3. ASSUME NEW H, Gains(H), "receipt digest" \notin H PROVE Receipt BY <2>3, <2>h DEF Gains
  <2>4. CASE CheckEvidenceDigest
    <3>1. Evidence BY <2>1, <2>4, EvidenceInOrder DEF ControllerIsThere
    <3>2. Gains({"evidence digest"}) BY <2>1, <2>4, EvidenceInv
    <3>3. QED BY <2>3, <3>1, <3>2
  <2>5. CASE CheckReceiptDigest
    <3>1. Receipt BY <2>1, <2>5, ReceiptInOrder
    <3>2. Gains({"receipt digest"}) BY <2>1, <2>5, ReceiptDigestInv
    <3>3. QED BY <2>2, <3>1, <3>2
  <2>6. CASE ~CheckEvidenceDigest /\ ~CheckReceiptDigest
    <3>1. \/ Gains({}) \/ Gains({"input"}) \/ Gains({"completed", "contract digest"})
          \/ Gains({"source digest"})
      BY <2>1, <2>6, ValidateShapeInv, RequireInputInv, PrepareInv, PresenceInv, BindContractInv,
         BindSourceInv, PrefixInv, PrefixChronologyInv, RemainingInv, PostconditionsInv,
         ChronologyInv, FinalizationInv, FinishInv
      DEF Next
    <3>2. QED BY <2>2, <2>3, <3>1
  <2>7. QED BY <2>4, <2>5, <2>6
<1>2. QED BY <1>1, Inductive, PTL DEF Spec, ProofsInOrder

\* The stages that settle something and that a call has left behind.
Past(stage) ==
  (IF stage = "shape" THEN {} ELSE {"shape"})
    \cup (IF stage \in {"shape", "input", "sequences"} THEN {} ELSE {"sequences"})
    \cup (IF stage \in Early THEN {} ELSE {"presence"})
    \cup (IF stage \in AfterSource THEN {"source"} ELSE {})
    \cup (IF stage \in AfterSource \ {"prefix"} THEN {"prefix"} ELSE {})
    \cup (IF stage \in AfterSource \ {"prefix", "prefix chronology"} THEN {"prefix chronology"} ELSE {})
    \cup (IF stage \in AfterEvidence \ {"remaining"} THEN {"remaining"} ELSE {})
    \cup (IF stage \in AfterEvidence \ {"remaining", "postconditions"} THEN {"postconditions"} ELSE {})
    \cup (IF stage \in {"finalization", "receipt digest", "finish", "over"} THEN {"chronology"} ELSE {})
    \cup (IF stage \in {"receipt digest", "finish", "over"} THEN {"finalization"} ELSE {})

\* The rules of the controller and its prerequisites, which a denial is held to.
DenialRules(s) == PrerequisiteRules(s) \cup ControllerRules(s)
RemainingRules(s) ==
  ExecutionRules(s.receipt) \cup CarrierRules(s) \cup If(ScopeDue(s), ScopeRules(s, {}))

\* What a call has found of its submission when it leaves a stage without a dent.
Settled(stage) ==
  CASE stage = "shape"     -> Shaped(receipt)
    [] stage = "sequences" -> Sequenced(receipt)
    [] stage = "presence"  -> /\ Violated(PresenceRules(submission)) = {}
                              /\ Issued(receipt) => contract # Absent /\ contract.shaped
    [] stage = "source"    -> Stable(submission) = "lease" => Violated(SourceRules(submission)) = {}
    [] stage = "prefix"    -> /\ Violated(PrefixRules(submission)) = {}
                              /\ ~Issued(receipt) => Violated(DenialRules(submission)) = {}
    [] stage = "prefix chronology" -> Violated(PrefixRelations(submission)) = {}
    [] stage = "remaining"      -> Issued(receipt) => Violated(RemainingRules(submission)) = {}
    [] stage = "postconditions" -> Issued(receipt) => Violated(PostconditionRules(submission)) = {}
    [] stage = "chronology"     -> Violated(RemainingRelations(submission)) = {}
    [] stage = "finalization"   -> Violated(FinalizationRules(submission)) = {}
    [] OTHER -> TRUE

RulesAreKept ==
  Untainted(ctx) => /\ bindings = submission
                    /\ \A stage \in Past(at) : Settled(stage)

\* A step that settles the stage it leaves, or dents the context, keeps the rules.
LEMMA Settling ==
  ASSUME Inv, RulesAreKept, NEW k, NEW stage \in StageSet, Go(stage, k),
         Untainted(k) => /\ Untainted(ctx) /\ bindings' = submission
                         /\ Settled(at) /\ Past(stage) \subseteq Past(at) \cup {at}
  PROVE  RulesAreKept'
<1>1. ctx' = k /\ at' = stage /\ submission' = submission BY DEF Go
<1>2. SUFFICES ASSUME Untainted(k), NEW p \in Past(stage)
               PROVE  Settled(p)'
  BY <1>1 DEF RulesAreKept
<1>3. Settled(p) BY <1>2 DEF RulesAreKept
<1>4. QED BY <1>1, <1>3 DEF Settled, receipt, contract

\* The stages that ask for a proof, or for nothing.
LEMMA Passing ==
  ASSUME Inv, RulesAreKept, NEW k, NEW H, NEW stage \in StageSet, Go(stage, k), Moves(ctx, k, H),
         bindings' = bindings, Settled(at), Past(stage) \subseteq Past(at) \cup {at}
  PROVE  RulesAreKept'
<1>1. Untainted(k) => Untainted(ctx) /\ bindings' = submission BY DEF Moves, RulesAreKept
<1>2. QED BY <1>1, Settling

\* A stage that reports the rules it finds violated.
LEMMA Reporting ==
  ASSUME Inv, RulesAreKept, NEW rules, NEW stage \in StageSet,
         Go(stage, Report(ctx, Violated(rules))), bindings' = bindings,
         bindings = submission /\ Violated(rules) = {} => Settled(at), Past(stage) \subseteq Past(at) \cup {at}
  PROVE  RulesAreKept'
<1> DEFINE k == Report(ctx, Violated(rules))
<1>1. Well(ctx) BY DEF Inv, StateTypes
<1>2. Moves(ctx, k, {}) /\ (k.failed <=> ctx.failed \/ Violated(rules) # {}) BY <1>1, ReportFacts
<1>3. Go(stage, k) OBVIOUS
<1> HIDE DEF k
<1>4. Untainted(k) => Untainted(ctx) /\ bindings = submission /\ Violated(rules) = {}
  BY <1>2 DEF Moves, Untainted, RulesAreKept
<1>5. QED BY <1>3, <1>4, Settling

LEMMA InitRules == Init => RulesAreKept
BY DEF Init, RulesAreKept, Past, Early, AfterSource, AfterEvidence, Late

LEMMA ValidateShapeRules == Inv /\ RulesAreKept /\ ValidateShape => RulesAreKept'
<1>1. SUFFICES ASSUME Inv, RulesAreKept, ValidateShape PROVE RulesAreKept' OBVIOUS
<1>2. Well(ctx) /\ at = "shape" /\ bindings' = bindings /\ {"input", "finish"} \subseteq StageSet
  BY <1>1 DEF ValidateShape, Here, Bindings, Inv, StateTypes, StageSet
<1>3. CASE Shaped(receipt) /\ Go("input", ctx)
  <2>1. Settled(at) BY <1>2, <1>3 DEF Settled
  <2>2. Past("input") \subseteq Past(at) \cup {at} BY <1>2 DEF Past, Early, Late, AfterSource, AfterEvidence
  <2>3. QED BY <1>1, <1>2, <1>3, <2>1, <2>2, Stays, Passing
<1>4. ASSUME NEW k, Go("finish", k), ~Untainted(k) PROVE RulesAreKept' BY <1>4, <1>1, <1>2, Settling
<1>5. CASE Go("finish", LeaveUnevaluated(Report(ctx, {"VALIDATOR.STRUCTURED_ERRORS"})))
  <2>1. Well(Report(ctx, {"VALIDATOR.STRUCTURED_ERRORS"})) BY <1>2, ReportFacts DEF Moves
  <2>2. QED BY <1>4, <1>5, <2>1, LeaveFacts
<1>6. CASE Go("finish", Unavailable(ctx, "VALIDATOR.STRUCTURED_ERRORS", TRUE))
  BY <1>2, <1>4, <1>6, UnavailableFacts
<1>7. QED BY <1>1, <1>3, <1>5, <1>6 DEF ValidateShape

LEMMA RequireInputRules == Inv /\ RulesAreKept /\ RequireInput => RulesAreKept'
<1>1. SUFFICES ASSUME Inv, RulesAreKept, RequireInput PROVE RulesAreKept' OBVIOUS
<1>2. Well(ctx) /\ at = "input" /\ bindings' = bindings /\ "sequences" \in StageSet /\ "input" \in Handles
  BY <1>1 DEF RequireInput, Here, Bindings, Inv, StateTypes, StageSet, Handles
<1>3. PICK c \in Asked(ctx, "PROOF.INPUT", "input") : Go("sequences", c) BY <1>1 DEF RequireInput
<1>4. Settled(at) BY <1>2 DEF Settled
<1>p. Past("sequences") \subseteq Past(at) \cup {at} BY <1>2 DEF Past, Early, Late, AfterSource, AfterEvidence
<1>5. QED BY <1>1, <1>2, <1>3, <1>4, <1>p, AskedFacts, Passing

LEMMA PrepareRules == Inv /\ RulesAreKept /\ PrepareSequenceSelectors => RulesAreKept'
<1>1. SUFFICES ASSUME Inv, RulesAreKept, PrepareSequenceSelectors PROVE RulesAreKept' OBVIOUS
<1>2. Well(ctx) /\ at = "sequences" /\ bindings' = bindings /\ {"presence", "finish"} \subseteq StageSet
  BY <1>1 DEF PrepareSequenceSelectors, Here, Bindings, Inv, StateTypes, StageSet
<1>3. CASE Sequenced(receipt) /\ Go("presence", ctx)
  <2>1. Settled(at) BY <1>2, <1>3 DEF Settled
  <2>2. Past("presence") \subseteq Past(at) \cup {at} BY <1>2 DEF Past, Early, Late, AfterSource, AfterEvidence
  <2>3. QED BY <1>1, <1>2, <1>3, <2>1, <2>2, Stays, Passing
<1>4. CASE Go("finish", Report(ctx, {"ARRAY.46"}))
  <2>1. ~Untainted(Report(ctx, {"ARRAY.46"})) BY <1>2, ReportFacts DEF Untainted
  <2>2. QED BY <1>1, <1>2, <1>4, <2>1, Settling
<1>5. QED BY <1>1, <1>3, <1>4 DEF PrepareSequenceSelectors

LEMMA PresenceRulesKept == Inv /\ RulesAreKept /\ CheckReceiptPresence => RulesAreKept'
<1>1. SUFFICES ASSUME Inv, RulesAreKept, CheckReceiptPresence PROVE RulesAreKept' OBVIOUS
<1>2. Well(ctx) /\ submission \in Submissions /\ at = "presence" /\ {"contract", "receipt digest"} \subseteq StageSet
  BY <1>1 DEF CheckReceiptPresence, Here, Inv, StateTypes, StageSet
<1>3. PICK reading \in ContractReadings :
        LET c == Report(reading.c, Violated(PresenceRules(reading.view)))
            open == Unavailable(c, "VALIDATOR.STRUCTURED_ERRORS", TRUE)
        IN /\ \E d \in {c} \cup If(Fails("validator") /\ submission.sources # << >>, {open}) :
                Go(IF d.failed THEN "receipt digest" ELSE "contract", d)
           /\ bindings' = reading.view
  BY <1>1 DEF CheckReceiptPresence
<1> DEFINE view == reading.view
           c == Report(reading.c, Violated(PresenceRules(view)))
           open == Unavailable(c, "VALIDATOR.STRUCTURED_ERRORS", TRUE)
<1>4. PICK d \in {c, open} : Go(IF d.failed THEN "receipt digest" ELSE "contract", d) BY <1>3 DEF If
<1>5. /\ Moves(ctx, reading.c, {})
      /\ Untainted(reading.c) => view = submission
      /\ Untainted(reading.c) /\ Issued(receipt) => contract # Absent /\ contract.shaped
  BY <1>2, ReadingFacts
<1>6. Moves(reading.c, c, {}) /\ (~c.failed => Violated(PresenceRules(view)) = {})
  BY <1>5, ReportFacts DEF Moves
<1>7. Untainted(d) => d = c
  <2>1. Well(c) BY <1>6 DEF Moves
  <2> HIDE DEF c
  <2>2. ~Untainted(open) BY <2>1, UnavailableFacts
  <2>3. QED BY <2>2
<1> HIDE DEF c, open
<1>8. Untainted(d) => Untainted(ctx) /\ view = submission /\ Settled("presence")
  <2>1. SUFFICES ASSUME Untainted(d) PROVE Untainted(ctx) /\ view = submission /\ Settled("presence")
    OBVIOUS
  <2>2. Untainted(reading.c) /\ Untainted(ctx) /\ ~c.failed BY <2>1, <1>5, <1>6, <1>7 DEF Moves, Untainted
  <2>3. QED BY <2>2, <1>5, <1>6 DEF Settled
<1>9. Untainted(d) => ~d.failed BY DEF Untainted
<1>10. Past("contract") \subseteq Past("presence") \cup {"presence"}
  BY DEF Past, Early, Late, AfterSource, AfterEvidence
<1>11. QED BY <1>1, <1>2, <1>3, <1>4, <1>8, <1>9, <1>10, Settling

LEMMA BindContractRules == Inv /\ RulesAreKept /\ BindContract => RulesAreKept'
<1>1. SUFFICES ASSUME Inv, RulesAreKept, BindContract PROVE RulesAreKept' OBVIOUS
<1>2. /\ Well(ctx) /\ at = "contract" /\ bindings' = bindings /\ "source" \in StageSet
      /\ "completed" \in Handles /\ "contract digest" \in Handles
  BY <1>1 DEF BindContract, Here, Inv, StateTypes, StageSet, Handles, Digests
<1>3. Settled(at) BY <1>2 DEF Settled
<1>p. Past("source") \subseteq Past(at) \cup {at} BY <1>2 DEF Past, Early, Late, AfterSource, AfterEvidence
<1>4. ASSUME NEW k, NEW H, Go("source", k), Moves(ctx, k, H) PROVE RulesAreKept'
  BY <1>1, <1>2, <1>3, <1>p, <1>4, Passing
<1>5. CASE Go("source", ctx) BY <1>2, <1>4, <1>5, Stays
<1>6. ASSUME NEW c \in Asked(ctx, "PROOF.CONTRACT_BINDING", "completed"),
             \/ Go("source", c)
             \/ Go("source", Unavailable(c, "PROOF.CONTRACT_BINDING", TRUE))
             \/ \E d \in Asked(c, "RC02", "contract digest") :
                  \/ Go("source", d)
                  \/ Go("source", Report(Compared(d, "RC02", "contract digest"),
                                         Violated(ContractRules(bindings))))
      PROVE  RulesAreKept'
  <2>1. Moves(ctx, c, {"completed"}) /\ Well(c) BY <1>2, <1>6, AskedFacts DEF Moves
  <2>2. CASE Go("source", c) BY <1>4, <2>1, <2>2
  <2>3. CASE Go("source", Unavailable(c, "PROOF.CONTRACT_BINDING", TRUE))
    BY <1>4, <2>1, <2>3, UnavailableFacts, MovesOn
  <2>4. ASSUME NEW d \in Asked(c, "RC02", "contract digest"),
               \/ Go("source", d)
               \/ Go("source", Report(Compared(d, "RC02", "contract digest"),
                                      Violated(ContractRules(bindings))))
        PROVE  RulesAreKept'
    <3>1. Moves(c, d, {"contract digest"}) /\ Well(d) BY <1>2, <2>1, <2>4, AskedFacts DEF Moves
    <3>2. Moves(ctx, d, {"completed"} \cup {"contract digest"}) BY <2>1, <3>1, MovesOn
    <3> DEFINE e == Compared(d, "RC02", "contract digest")
    <3>3. Moves(d, e, {}) /\ Well(e) BY <3>1, ComparedFacts DEF Moves
    <3>4. CASE Go("source", d) BY <1>4, <3>2, <3>4
    <3>5. CASE Go("source", Report(e, Violated(ContractRules(bindings))))
      <4> DEFINE k == Report(e, Violated(ContractRules(bindings)))
      <4>1. Go("source", k) BY <3>5
      <4> HIDE DEF e
      <4>2. Moves(e, k, {}) BY <3>3, ReportFacts
      <4> HIDE DEF k
      <4>3. Moves(ctx, k, {"completed", "contract digest"}) BY <3>2, <3>3, <4>2 DEF Moves
      <4>4. QED BY <1>4, <4>1, <4>3
    <3>6. QED BY <2>4, <3>4, <3>5
  <2>5. QED BY <1>6, <2>2, <2>3, <2>4
<1>7. QED BY <1>1, <1>5, <1>6 DEF BindContract

LEMMA BindSourceRules == Inv /\ RulesAreKept /\ BindSource => RulesAreKept'
<1>1. SUFFICES ASSUME Inv, RulesAreKept, BindSource PROVE RulesAreKept' OBVIOUS
<1>2. /\ Well(ctx) /\ at = "source" /\ bindings' = bindings /\ {"prefix", "receipt digest"} \subseteq StageSet
      /\ "source digest" \in Handles
  BY <1>1 DEF BindSource, Here, Inv, StateTypes, StageSet, Handles, Digests
<1>p. Past("prefix") \subseteq Past(at) \cup {at} BY <1>2 DEF Past, Early, Late, AfterSource, AfterEvidence
<1>3. ASSUME NEW k, Well(k), Untainted(k) => Untainted(ctx),
             Go("receipt digest", LeaveUnevaluated(k)) \/
               (Go("prefix", k) /\ (Untainted(k) /\ bindings = submission => Settled(at)))
      PROVE  RulesAreKept'
  <2>1. CASE Go("receipt digest", LeaveUnevaluated(k)) BY <1>1, <1>2, <1>3, <2>1, LeaveFacts, Settling
  <2>2. CASE Go("prefix", k) /\ (Untainted(k) /\ bindings = submission => Settled(at))
    BY <1>1, <1>2, <1>p, <1>3, <2>2, Settling DEF RulesAreKept
  <2>3. QED BY <1>3, <2>1, <2>2
<1> DEFINE Gone(k) == Go("receipt digest", LeaveUnevaluated(k)) \/ Go("prefix", k)
<1>4. CASE Stable(bindings) # "lease" /\ Gone(ctx)
  <2>1. bindings = submission => Settled(at) BY <1>2, <1>4 DEF Settled
  <2>2. QED BY <1>2, <1>3, <1>4, <2>1
<1>5. ASSUME NEW c \in Asked(ctx, "PROOF.SOURCE_DIGEST", "source digest"),
             \/ Go("receipt digest", LeaveUnevaluated(c))
             \/ Gone(Report(Compared(c, "AI19", "source digest"), Violated(SourceRules(bindings))))
      PROVE  RulesAreKept'
  <2>1. Moves(ctx, c, {"source digest"}) /\ Well(c) BY <1>2, <1>5, AskedFacts DEF Moves
  <2>2. CASE Go("receipt digest", LeaveUnevaluated(c)) BY <1>3, <2>1, <2>2 DEF Moves
  <2> DEFINE e == Compared(c, "AI19", "source digest")
             k == Report(e, Violated(SourceRules(bindings)))
  <2>3. CASE Gone(k)
    <3>1. Moves(c, e, {}) /\ Well(e) BY <2>1, ComparedFacts DEF Moves
    <3> HIDE DEF e
    <3>2. Moves(e, k, {}) /\ Well(k) /\ (~k.failed => Violated(SourceRules(bindings)) = {})
      BY <3>1, ReportFacts DEF Moves
    <3> HIDE DEF k
    <3>3. Untainted(k) => Untainted(ctx) BY <2>1, <3>1, <3>2 DEF Moves
    <3>4. Untainted(k) /\ bindings = submission => Settled(at) BY <1>2, <3>2 DEF Settled, Untainted
    <3>5. QED BY <1>3, <2>3, <3>2, <3>3, <3>4
  <2>4. QED BY <1>5, <2>2, <2>3
<1>6. CASE Go("receipt digest", LeaveUnevaluated(Unavailable(ctx, "VALIDATOR.STRUCTURED_ERRORS", TRUE)))
  <2>1. Moves(ctx, Unavailable(ctx, "VALIDATOR.STRUCTURED_ERRORS", TRUE), {}) BY <1>2, UnavailableFacts
  <2>2. QED BY <1>3, <1>6, <2>1 DEF Moves
<1>7. QED BY <1>1, <1>4, <1>5, <1>6 DEF BindSource

LEMMA PrefixRulesKept == Inv /\ RulesAreKept /\ CheckPrefixAndController => RulesAreKept'
<1>1. SUFFICES ASSUME Inv, RulesAreKept, CheckPrefixAndController PROVE RulesAreKept' OBVIOUS
<1>2. at = "prefix" /\ bindings' = bindings /\ "prefix chronology" \in StageSet
  BY <1>1 DEF CheckPrefixAndController, Here, StageSet
<1> DEFINE prerequisites == IF Issued(receipt) THEN {} ELSE PrerequisiteRules(bindings)
           controlling == IF Issued(receipt) \/ Controllers(receipt) = {} THEN {} ELSE ControllerRules(bindings)
           found == PrefixRules(bindings) \cup prerequisites \cup controlling
<1>3. Go("prefix chronology", Report(ctx, Violated(found))) BY <1>1 DEF CheckPrefixAndController
<1>4. ASSUME bindings = submission, Violated(found) = {} PROVE Settled(at)
  <2>1. Violated(PrefixRules(submission)) = {} /\ Violated(prerequisites) = {} /\ Violated(controlling) = {}
    BY <1>4 DEF Violated
  <2>2. ASSUME ~Issued(receipt) PROVE Violated(DenialRules(submission)) = {}
    <3>1. Violated(PrerequisiteRules(submission)) = {} BY <1>4, <2>1, <2>2
    <3>2. <<"DP05", Controllers(receipt) # {}>> \in PrerequisiteRules(submission)
      BY DEF PrerequisiteRules, receipt
    <3>3. <<"DP05", Controllers(receipt) # {}>>[2] BY <3>1, <3>2, AllHold
    <3>4. Violated(ControllerRules(submission)) = {} BY <1>4, <2>1, <2>2, <3>3
    <3>5. QED BY <3>1, <3>4 DEF DenialRules, Violated
  <2>3. QED BY <1>2, <2>1, <2>2 DEF Settled
<1>5. Past("prefix chronology") \subseteq Past(at) \cup {at} BY <1>2 DEF Past, Early, Late, AfterSource, AfterEvidence
<1> HIDE DEF found
<1>6. QED BY <1>1, <1>2, <1>3, <1>4, <1>5, Reporting

LEMMA PrefixChronologyRules == Inv /\ RulesAreKept /\ CheckPrefixChronology => RulesAreKept'
<1>1. SUFFICES ASSUME Inv, RulesAreKept, CheckPrefixChronology PROVE RulesAreKept' OBVIOUS
<1>2. /\ at = "prefix chronology" /\ bindings' = bindings /\ "evidence digest" \in StageSet
      /\ Go("evidence digest", Report(ctx, Violated(PrefixRelations(bindings))))
  BY <1>1 DEF CheckPrefixChronology, Here, Relate, Bindings, StageSet
<1>3. bindings = submission /\ Violated(PrefixRelations(bindings)) = {} => Settled(at) BY <1>2 DEF Settled
<1>4. Past("evidence digest") \subseteq Past(at) \cup {at} BY <1>2 DEF Past, Early, Late, AfterSource, AfterEvidence
<1>5. QED BY <1>1, <1>2, <1>3, <1>4, Reporting

LEMMA EvidenceRules == Inv /\ RulesAreKept /\ CheckEvidenceDigest => RulesAreKept'
<1>1. SUFFICES ASSUME Inv, RulesAreKept, CheckEvidenceDigest PROVE RulesAreKept' OBVIOUS
<1>2. /\ Well(ctx) /\ at = "evidence digest" /\ bindings' = bindings /\ "remaining" \in StageSet
      /\ "evidence digest" \in Handles
  BY <1>1 DEF CheckEvidenceDigest, Here, Bindings, Inv, StateTypes, StageSet, Handles, Digests
<1>p. Past("remaining") \subseteq Past(at) \cup {at} BY <1>2 DEF Past, Early, Late, AfterSource, AfterEvidence
<1>s. Settled(at) BY <1>2 DEF Settled
<1>3. ASSUME NEW k, NEW H, Go("remaining", k), Moves(ctx, k, H) PROVE RulesAreKept'
  BY <1>1, <1>2, <1>p, <1>s, <1>3, Passing
<1>4. CASE Go("remaining", ctx) BY <1>2, <1>3, <1>4, Stays
<1>5. ASSUME NEW c \in Asked(ctx, "PROOF.DENIAL_DIGEST", "evidence digest"),
             Go("remaining", Compared(c, "PROOF.DENIAL_DIGEST", "evidence digest"))
      PROVE  RulesAreKept'
  <2>1. Moves(ctx, c, {"evidence digest"}) /\ Well(c) BY <1>2, <1>5, AskedFacts DEF Moves
  <2>2. QED BY <1>3, <1>5, <2>1, ComparedFacts, MovesOn
<1>6. QED BY <1>1, <1>4, <1>5 DEF CheckEvidenceDigest

LEMMA RemainingRulesKept == Inv /\ RulesAreKept /\ CheckReceiptRemaining => RulesAreKept'
<1>1. SUFFICES ASSUME Inv, RulesAreKept, CheckReceiptRemaining PROVE RulesAreKept' OBVIOUS
<1> DEFINE c == Report(ctx, Violated(ExecutionRules(receipt)))
           carried == Report(c, Violated(CarrierRules(bindings)))
           requirement == IF Holds(c, "input") THEN "D10.path-proof-unavailable" ELSE "PROOF.INPUT"
           Gap(open) == IF open = {} THEN carried ELSE Unavailable(carried, requirement, TRUE)
           Scoped(open) == Report(Gap(open), Violated(ScopeRules(bindings, open)))
<1>2. Well(ctx) /\ at = "remaining" /\ bindings' = bindings /\ "postconditions" \in StageSet
  BY <1>1 DEF CheckReceiptRemaining, Bindings, Here, Inv, StateTypes, StageSet
<1>3. \/ ~Issued(receipt) /\ Go("postconditions", ctx)
      \/ Issued(receipt) /\ ~ScopeDue(bindings) /\ Go("postconditions", carried)
      \/ \E open : Go("postconditions", Scoped(open))
  BY <1>1 DEF CheckReceiptRemaining
<1>p. Past("postconditions") \subseteq Past(at) \cup {at} BY <1>2 DEF Past, Early, Late, AfterSource, AfterEvidence
<1>4. ASSUME NEW k, Go("postconditions", k), Untainted(k) => Untainted(ctx),
             Untainted(k) /\ bindings = submission /\ Issued(receipt) => Violated(RemainingRules(submission)) = {}
      PROVE  RulesAreKept'
  <2>1. Untainted(k) => bindings' = submission /\ Settled(at) BY <1>1, <1>2, <1>4 DEF Settled, RulesAreKept
  <2>2. QED BY <1>1, <1>2, <1>4, <1>p, <2>1, Settling
<1>5. Moves(ctx, c, {}) /\ (~c.failed => Violated(ExecutionRules(receipt)) = {}) BY <1>2, ReportFacts
<1> HIDE DEF c
<1>6. Moves(c, carried, {}) /\ (~carried.failed => Violated(CarrierRules(bindings)) = {})
  BY <1>5, ReportFacts DEF Moves
<1>7. ASSUME bindings = submission, Untainted(carried)
      PROVE  Violated(ExecutionRules(submission.receipt)) = {} /\ Violated(CarrierRules(submission)) = {}
  BY <1>5, <1>6, <1>7 DEF Moves, Untainted, receipt
<1> HIDE DEF carried
<1>8. CASE ~Issued(receipt) /\ Go("postconditions", ctx) BY <1>4, <1>8
<1>9. CASE Issued(receipt) /\ ~ScopeDue(bindings) /\ Go("postconditions", carried)
  <2>1. ASSUME bindings = submission, Untainted(carried) PROVE Violated(RemainingRules(submission)) = {}
    BY <1>7, <1>9, <2>1 DEF RemainingRules, If, Violated
  <2>2. QED BY <1>4, <1>5, <1>6, <1>9, <2>1 DEF Moves
<1>10. ASSUME NEW open, Go("postconditions", Scoped(open)) PROVE RulesAreKept'
  <2> DEFINE gap == Gap(open)
             k == Scoped(open)
  <2>1. Moves(carried, gap, {}) /\ (Untainted(gap) => open = {})
    <3>1. Well(carried) BY <1>6 DEF Moves
    <3> HIDE DEF requirement
    <3>2. CASE open = {} BY <3>1, <3>2, Stays
    <3>3. CASE open # {} BY <3>1, <3>3, UnavailableFacts
    <3>4. QED BY <3>2, <3>3
  <2> HIDE DEF Gap
  <2>2. Moves(gap, k, {}) /\ (~k.failed => Violated(ScopeRules(bindings, open)) = {})
    BY <2>1, ReportFacts DEF Moves
  <2>3. Go("postconditions", k) BY <1>10
  <2> HIDE DEF Scoped
  <2>4. Untainted(k) => Untainted(ctx) /\ Untainted(carried) /\ open = {} /\ ~k.failed
    BY <1>5, <1>6, <2>1, <2>2 DEF Moves, Untainted
  <2>5. ASSUME bindings = submission, Untainted(k) PROVE Violated(RemainingRules(submission)) = {}
    <3>1. Violated(ScopeRules(submission, {})) = {} BY <2>2, <2>4, <2>5
    <3>2. QED BY <1>7, <2>4, <2>5, <3>1 DEF RemainingRules, If, Violated
  <2>6. QED BY <1>4, <2>3, <2>4, <2>5
<1>11. QED BY <1>3, <1>8, <1>9, <1>10

LEMMA PostconditionRulesKept == Inv /\ RulesAreKept /\ CheckPostconditionBindings => RulesAreKept'
<1>1. SUFFICES ASSUME Inv, RulesAreKept, CheckPostconditionBindings PROVE RulesAreKept' OBVIOUS
<1>2. /\ Well(ctx) /\ at = "postconditions" /\ bindings' = bindings /\ "chronology" \in StageSet
  BY <1>1 DEF CheckPostconditionBindings, Here, Bindings, StageSet, Inv, StateTypes
<1>p. Past("chronology") \subseteq Past(at) \cup {at} BY <1>2 DEF Past, Early, Late, AfterSource, AfterEvidence
<1>3. CASE Issued(receipt) /\ Go("chronology", Report(ctx, Violated(PostconditionRules(bindings))))
  <2>1. bindings = submission /\ Violated(PostconditionRules(bindings)) = {} => Settled(at) BY <1>2 DEF Settled
  <2>2. QED BY <1>1, <1>2, <1>3, <1>p, <2>1, Reporting
<1>4. CASE ~Issued(receipt) /\ Go("chronology", ctx)
  <2>1. Settled(at) BY <1>2, <1>4 DEF Settled
  <2>2. QED BY <1>1, <1>2, <1>4, <1>p, <2>1, Stays, Passing
<1>5. QED BY <1>1, <1>3, <1>4 DEF CheckPostconditionBindings

LEMMA ChronologyRules == Inv /\ RulesAreKept /\ CheckRemainingChronology => RulesAreKept'
<1>1. SUFFICES ASSUME Inv, RulesAreKept, CheckRemainingChronology PROVE RulesAreKept' OBVIOUS
<1>2. /\ at = "chronology" /\ bindings' = bindings /\ "finalization" \in StageSet
      /\ Go("finalization", Report(ctx, Violated(RemainingRelations(bindings))))
  BY <1>1 DEF CheckRemainingChronology, Here, Relate, Bindings, StageSet
<1>3. bindings = submission /\ Violated(RemainingRelations(bindings)) = {} => Settled(at) BY <1>2 DEF Settled
<1>4. Past("finalization") \subseteq Past(at) \cup {at} BY <1>2 DEF Past, Early, Late, AfterSource, AfterEvidence
<1>5. QED BY <1>1, <1>2, <1>3, <1>4, Reporting

LEMMA FinalizationRulesKept == Inv /\ RulesAreKept /\ CheckOutcomeAndFinalization => RulesAreKept'
<1>1. SUFFICES ASSUME Inv, RulesAreKept, CheckOutcomeAndFinalization PROVE RulesAreKept' OBVIOUS
<1>2. /\ at = "finalization" /\ bindings' = bindings /\ "receipt digest" \in StageSet
      /\ Go("receipt digest", Report(ctx, Violated(FinalizationRules(bindings))))
  BY <1>1 DEF CheckOutcomeAndFinalization, Here, Bindings, StageSet
<1>3. bindings = submission /\ Violated(FinalizationRules(bindings)) = {} => Settled(at) BY <1>2 DEF Settled
<1>4. Past("receipt digest") \subseteq Past(at) \cup {at} BY <1>2 DEF Past, Early, Late, AfterSource, AfterEvidence
<1>5. QED BY <1>1, <1>2, <1>3, <1>4, Reporting

LEMMA ReceiptDigestRules == Inv /\ RulesAreKept /\ CheckReceiptDigest => RulesAreKept'
<1>1. SUFFICES ASSUME Inv, RulesAreKept, CheckReceiptDigest PROVE RulesAreKept' OBVIOUS
<1>2. /\ Well(ctx) /\ at = "receipt digest" /\ bindings' = bindings /\ "finish" \in StageSet
      /\ "receipt digest" \in Handles
  BY <1>1 DEF CheckReceiptDigest, Here, Bindings, Inv, StateTypes, StageSet, Handles, Digests
<1>p. Past("finish") \subseteq Past(at) \cup {at} BY <1>2 DEF Past, Early, Late, AfterSource, AfterEvidence
<1>s. Settled(at) BY <1>2 DEF Settled
<1>3. ASSUME NEW k, NEW H, Go("finish", k), Moves(ctx, k, H) PROVE RulesAreKept'
  BY <1>1, <1>2, <1>p, <1>s, <1>3, Passing
<1>4. CASE Go("finish", ctx) BY <1>2, <1>3, <1>4, Stays
<1>5. ASSUME NEW c \in Asked(ctx, "PROOF.RECEIPT_DIGEST", "receipt digest"),
             Go("finish", Compared(c, "PROOF.RECEIPT_DIGEST", "receipt digest"))
      PROVE  RulesAreKept'
  <2>1. Moves(ctx, c, {"receipt digest"}) /\ Well(c) BY <1>2, <1>5, AskedFacts DEF Moves
  <2>2. QED BY <1>3, <1>5, <2>1, ComparedFacts, MovesOn
<1>6. QED BY <1>1, <1>4, <1>5 DEF CheckReceiptDigest

LEMMA FinishRules == Inv /\ RulesAreKept /\ FinishResult => RulesAreKept'
<1>1. SUFFICES ASSUME Inv, RulesAreKept, FinishResult PROVE RulesAreKept' OBVIOUS
<1> DEFINE open == Unavailable(ctx, "PROOF.INPUT", FALSE)
<1>2. /\ Well(ctx) /\ at = "finish" /\ at' = "over"
      /\ submission' = submission /\ bindings' = bindings
  BY <1>1 DEF FinishResult, Bindings, Here, Inv, StateTypes
<1>3. ctx' = ctx \/ ctx' = open BY <1>1 DEF FinishResult, If
<1>4. ~Untainted(open) BY <1>2, UnavailableFacts
<1> HIDE DEF open
<1>5. Past(at') \subseteq Past(at) BY <1>2 DEF Past, Early, Late, AfterSource, AfterEvidence
<1>6. SUFFICES ASSUME ctx' = ctx, Untainted(ctx), NEW p \in Past(at') PROVE Settled(p)'
  BY <1>1, <1>2, <1>3, <1>4 DEF RulesAreKept
<1>7. Settled(p) BY <1>1, <1>5, <1>6 DEF RulesAreKept
<1>8. QED BY <1>2, <1>7 DEF Settled, receipt, contract

LEMMA NextRules == Inv /\ RulesAreKept /\ [Next]_vars => RulesAreKept'
<1>1. CASE UNCHANGED vars
  BY <1>1 DEF vars, RulesAreKept, Settled, receipt, contract
<1>2. CASE Next
  BY <1>2, ValidateShapeRules, RequireInputRules, PrepareRules, PresenceRulesKept, BindContractRules,
     BindSourceRules, PrefixRulesKept, PrefixChronologyRules, EvidenceRules, RemainingRulesKept,
     PostconditionRulesKept, ChronologyRules, FinalizationRulesKept, ReceiptDigestRules, FinishRules
  DEF Next
<1>3. QED BY <1>1, <1>2

LEMMA RulesInductive == Spec => []RulesAreKept
BY InitRules, NextRules, Inductive, PTL DEF Spec

-----------------------------------------------------------------------------
\* What an accepted submission obeys, in words of the receipt.

Lawful == submission \in Submissions /\ \A stage \in Past("over") : Settled(stage)

LEMMA AcceptedIsLawful == ASSUME Inv, RulesAreKept, Accepted PROVE Lawful
<1>1. result = Result(ctx) /\ at = "over" BY DEF Inv, ResultIsOfContext, Accepted, Pending
<1>2. Untainted(ctx) BY <1>1 DEF Accepted, Result, Verdict, Untainted
<1>3. QED BY <1>1, <1>2 DEF Lawful, RulesAreKept, Inv, StateTypes

LEMMA LawfulIs ==
  ASSUME Lawful
  PROVE  /\ submission \in Submissions /\ Shaped(receipt) /\ Sequenced(receipt)
         /\ Violated(PresenceRules(submission)) = {}
         /\ Issued(receipt) => contract # Absent /\ contract.shaped
         /\ Stable(submission) = "lease" => Violated(SourceRules(submission)) = {}
         /\ Violated(PrefixRules(submission)) = {}
         /\ ~Issued(receipt) => Violated(DenialRules(submission)) = {}
         /\ Violated(PrefixRelations(submission)) = {}
         /\ Issued(receipt) => /\ Violated(RemainingRules(submission)) = {}
                               /\ Violated(PostconditionRules(submission)) = {}
         /\ Violated(RemainingRelations(submission)) = {}
         /\ Violated(FinalizationRules(submission)) = {}
<1>1. Past("over") = {"shape", "sequences", "presence", "source", "prefix", "prefix chronology",
                      "remaining", "postconditions", "chronology", "finalization"}
  BY DEF Past, Early, Late, AfterSource, AfterEvidence
<1> DEFINE Found(stage) == Settled(stage)
<1>2. /\ Found("shape") /\ Found("sequences") /\ Found("presence") /\ Found("source") /\ Found("prefix")
      /\ Found("prefix chronology") /\ Found("remaining") /\ Found("postconditions")
      /\ Found("chronology") /\ Found("finalization")
  BY <1>1 DEF Lawful
<1>3. Shaped(receipt) BY <1>2 DEF Settled
<1>4. Sequenced(receipt) BY <1>2 DEF Settled
<1>5. Violated(PresenceRules(submission)) = {} /\ (Issued(receipt) => contract # Absent /\ contract.shaped)
  BY <1>2 DEF Settled
<1>6. Stable(submission) = "lease" => Violated(SourceRules(submission)) = {} BY <1>2 DEF Settled
<1>7. Violated(PrefixRules(submission)) = {} /\ (~Issued(receipt) => Violated(DenialRules(submission)) = {})
  BY <1>2 DEF Settled
<1>8. Violated(PrefixRelations(submission)) = {} BY <1>2 DEF Settled
<1>9. Issued(receipt) => Violated(RemainingRules(submission)) = {} BY <1>2 DEF Settled
<1>10. Issued(receipt) => Violated(PostconditionRules(submission)) = {} BY <1>2 DEF Settled
<1>11. Violated(RemainingRelations(submission)) = {} BY <1>2 DEF Settled
<1>12. Violated(FinalizationRules(submission)) = {} BY <1>2 DEF Settled
<1>13. submission \in Submissions BY DEF Lawful
<1>14. QED BY <1>3, <1>4, <1>5, <1>6, <1>7, <1>8, <1>9, <1>10, <1>11, <1>12, <1>13

\* A rule of a report that found none violated holds.
LEMMA Obeyed == ASSUME NEW R, Violated(R) = {}, NEW id, NEW holds, <<id, holds>> \in R PROVE holds
<1>1. <<id, holds>>[2] BY AllHold
<1>2. QED BY <1>1

Count == Len(receipt.checks)

LEMMA Positions ==
  ASSUME submission \in Submissions
  PROVE  /\ Count \in Nat /\ DOMAIN receipt.checks = 1 .. Count
         /\ \A i \in 1 .. Count : Kind(i) \in Ordinary \cup {"L", "F"} /\ Time(i) \in Nat
         /\ \A S : Of(receipt, S) = {i \in 1 .. Count : Kind(i) \in S}
BY ReceiptAssumption DEF Count, receipt, Kind, Time, Of

\* The only check of a type.
LEMMA OnlyOne ==
  ASSUME submission \in Submissions, NEW type, One(receipt, type)
  PROVE  \E i \in 1 .. Count : Of(receipt, {type}) = {i} /\ Only(receipt, type) = receipt.checks[i]
<1> DEFINE S == Of(receipt, {type})
<1>1. Count \in Nat /\ S \subseteq 1 .. Count BY Positions
<1>2. IsFiniteSet(S)
  <2>1. 1 \in Int /\ Count \in Int BY <1>1
  <2>2. IsFiniteSet(1 .. Count) BY <2>1, FS_Interval
  <2>3. QED BY <1>1, <2>2, FS_Subset
<1>3. PICK i : S = {i} BY <1>2, FS_Singleton DEF One
<1>4. LastOf({i}) = i BY <1>1, <1>3, LastIsIn
<1>5. QED BY <1>1, <1>3, <1>4 DEF Only

LEMMA SomeIs ==
  ASSUME submission \in Submissions, NEW type
  PROVE  Some(receipt, type) <=> \E i \in 1 .. Count : Kind(i) = type
<1>1. Of(receipt, {type}) = {i \in 1 .. Count : Kind(i) \in {type}} BY Positions
<1>2. QED BY <1>1 DEF Some

\* The last position as the properties have it.
LEMMA FinalIsLast ==
  ASSUME submission \in Submissions, NEW S, S \subseteq 1 .. Count, S # {}
  PROVE  Final(S) = LastOf(S) /\ LastOf(S) \in S /\ \A i \in S : i <= LastOf(S)
<1>1. Count \in Nat BY Positions
<1>2. LastOf(S) \in S /\ \A i \in S : i <= LastOf(S) BY <1>1, LastIsIn
<1>3. ASSUME NEW i \in S, S \subseteq 1 .. i PROVE i = LastOf(S)
  <2>1. LastOf(S) \in 1 .. i /\ i <= LastOf(S) BY <1>2, <1>3
  <2>2. \A j \in S : j \in Nat BY <1>1
  <2>3. i \in Nat /\ LastOf(S) \in Nat BY <1>2, <2>2
  <2>4. QED BY <2>1, <2>3
<1>4. S \subseteq 1 .. LastOf(S) BY <1>1, <1>2
<1>5. Final(S) \in S /\ S \subseteq 1 .. Final(S)
  <2>1. \E i \in S : S \subseteq 1 .. i BY <1>2, <1>4
  <2>2. QED BY <2>1 DEF Final
<1>6. QED BY <1>2, <1>3, <1>5

\* The contract, the lease and who must be there (_check_receipt_presence).
LEMMA PresenceIs ==
  ASSUME Lawful
  PROVE  /\ Stable(submission) \in {"lease", "free"}
         /\ Issued(receipt) => /\ contract # Absent
                               /\ Stable(submission) = IF contract.allowWrite THEN "lease" ELSE "free"
                               /\ {contract.checkpointAt, contract.issuedAt, contract.expiresAt} \subseteq Nat
                               /\ contract.allowWrite \in BOOLEAN
         /\ ~Issued(receipt) => contract = Absent
         /\ Leased <=> Stable(submission) = "lease"
         /\ Some(receipt, "L") <=> Leased
         /\ Leased => One(receipt, "A")
         /\ Issued(receipt) => /\ \A g \in Gates : Some(receipt, g)
                               /\ One(receipt, "I")
                               /\ One(receipt, IF Leased THEN "R" ELSE "N")
                               /\ Of(receipt, IF Leased THEN {"N"} ELSE {"A", "R"}) = {}
<1>1. /\ submission \in Submissions /\ Violated(PresenceRules(submission)) = {}
      /\ Issued(receipt) => contract # Absent
  BY LawfulIs
<1>2. /\ Stable(submission) \in {"lease", "free"}
      /\ Issued(receipt) => Stable(submission) = IF contract.allowWrite THEN "lease" ELSE "free"
  BY <1>1 DEF Stable, Bound, receipt, contract
<1> DEFINE s == submission
           lease == Stable(s) = "lease"
<1>3. /\ <<"RECEIPT.DENIAL_MATRIX", Issued(receipt) \/ contract = Absent>> \in PresenceRules(s)
      /\ <<"AI14", receipt.binding # Absent <=> lease>> \in PresenceRules(s)
      /\ <<"RF01/RF02", Some(receipt, "L") <=> lease>> \in PresenceRules(s)
      /\ lease => <<"AI03", One(receipt, "A")>> \in PresenceRules(s)
  BY <1>2 DEF PresenceRules, If, receipt, contract
<1>4. Issued(receipt) =>
        /\ <<"AI01", \A g \in Gates : Some(receipt, g)>> \in PresenceRules(s)
        /\ <<"AI07", One(receipt, "I")>> \in PresenceRules(s)
        /\ <<"AI05/AI06", One(receipt, IF lease THEN "R" ELSE "N")>> \in PresenceRules(s)
        /\ <<"AI09", Of(receipt, IF lease THEN {"N"} ELSE {"A", "R"}) = {}>> \in PresenceRules(s)
  BY <1>1 DEF PresenceRules, If, receipt, contract, Bound
<1>5. Issued(receipt) \/ contract = Absent BY <1>1, <1>3, Obeyed
<1>6. receipt.binding # Absent <=> lease BY <1>1, <1>3, Obeyed
<1>7. Some(receipt, "L") <=> lease BY <1>1, <1>3, Obeyed
<1>8. lease => One(receipt, "A") BY <1>1, <1>3, Obeyed
<1>9. ASSUME Issued(receipt)
      PROVE  /\ \A g \in Gates : Some(receipt, g)
             /\ One(receipt, "I")
             /\ One(receipt, IF lease THEN "R" ELSE "N")
             /\ Of(receipt, IF lease THEN {"N"} ELSE {"A", "R"}) = {}
  <2>1. \A g \in Gates : Some(receipt, g) BY <1>1, <1>4, <1>9, Obeyed
  <2>2. One(receipt, "I") BY <1>1, <1>4, <1>9, Obeyed
  <2>3. One(receipt, IF lease THEN "R" ELSE "N") BY <1>1, <1>4, <1>9, Obeyed
  <2>4. Of(receipt, IF lease THEN {"N"} ELSE {"A", "R"}) = {} BY <1>1, <1>4, <1>9, Obeyed
  <2>5. QED BY <2>1, <2>2, <2>3, <2>4
<1>10. Leased <=> lease BY <1>6 DEF Leased
<1>11. Issued(receipt) => /\ {contract.checkpointAt, contract.issuedAt, contract.expiresAt} \subseteq Nat
                          /\ contract.allowWrite \in BOOLEAN
  BY <1>1, ReceiptAssumption DEF receipt, contract
<1>12. QED BY <1>1, <1>2, <1>5, <1>7, <1>8, <1>9, <1>10, <1>11

\* The acquisition source and the checks under the lease (_check_contract_source_bindings).
LEMMA SourceIs ==
  ASSUME Lawful, Leased
  PROVE  /\ Only(receipt, "A").outcome = "passed"
         /\ \A i \in Of(receipt, {"A", "R", "L"}) : receipt.checks[i].lease = submission.sources[1].checkId
<1>1. submission \in Submissions /\ Violated(SourceRules(submission)) = {} BY PresenceIs, LawfulIs
<1> DEFINE s == submission
           Refer(type) == \A i \in Of(receipt, {type}) : receipt.checks[i].lease = receipt.binding.checkId
<1>2. /\ <<"AI17", s.sources[1].checkId = receipt.binding.checkId>> \in SourceRules(s)
      /\ <<"AI04", Only(receipt, "A").outcome = "passed">> \in SourceRules(s)
      /\ <<"AI22", Refer("A")>> \in SourceRules(s)
      /\ <<"AI23", Refer("R")>> \in SourceRules(s)
      /\ <<"RF12", Refer("L")>> \in SourceRules(s)
  BY DEF SourceRules, receipt
<1>3. s.sources[1].checkId = receipt.binding.checkId BY <1>1, <1>2, Obeyed
<1>4. Only(receipt, "A").outcome = "passed" BY <1>1, <1>2, Obeyed
<1>5. Refer("A") BY <1>1, <1>2, Obeyed
<1>6. Refer("R") BY <1>1, <1>2, Obeyed
<1>7. Refer("L") BY <1>1, <1>2, Obeyed
<1>8. Of(receipt, {"A", "R", "L"}) = Of(receipt, {"A"}) \cup Of(receipt, {"R"}) \cup Of(receipt, {"L"})
  BY DEF Of
<1>9. QED BY <1>3, <1>4, <1>5, <1>6, <1>7, <1>8

\* The order of the issuance prefix (_check_prefix_and_controller).
LEMMA PrefixIs ==
  ASSUME Lawful
  PROVE  /\ Issued(receipt) => /\ All(receipt, Of(receipt, Gates), "passed")
                               /\ All(receipt, Of(receipt, {"R", "N", "I"}), "passed")
                               /\ Precede(Of(receipt, {"R", "N"}), Of(receipt, {"I"}))
                               /\ Precede(Of(receipt, {"I"}), Of(receipt, {"P"}))
         /\ Issued(receipt) /\ ~Leased => Precede(Of(receipt, Gates), Of(receipt, {"N"}))
         /\ Leased => /\ Precede(Of(receipt, Gates), Of(receipt, {"A"}))
                      /\ Precede(Of(receipt, {"A"}), Of(receipt, {"R"}))
<1> DEFINE s == submission
           lease == Stable(s) = "lease"
<1>1. Violated(PrefixRules(s)) = {} BY LawfulIs
<1>2. (Leased <=> lease) /\ Stable(s) \in {"lease", "free"} BY PresenceIs
<1>3. Issued(receipt) =>
        /\ <<"AI02", All(receipt, Of(receipt, Gates), "passed")>> \in PrefixRules(s)
        /\ <<"AI08", All(receipt, Of(receipt, {"R", "N", "I"}), "passed")>> \in PrefixRules(s)
        /\ <<"AI12", Precede(Of(receipt, {"R", "N"}), Of(receipt, {"I"}))>> \in PrefixRules(s)
        /\ <<"AI13", Precede(Of(receipt, {"I"}), Of(receipt, {"P"}))>> \in PrefixRules(s)
  BY DEF PrefixRules, If, receipt
<1>4. lease \/ (Issued(receipt) /\ Stable(s) = "free") =>
        <<"AI10", Precede(Of(receipt, Gates), Of(receipt, {IF lease THEN "A" ELSE "N"}))>> \in PrefixRules(s)
  BY DEF PrefixRules, If, receipt
<1>5. lease => <<"AI11", Precede(Of(receipt, {"A"}), Of(receipt, {"R"}))>> \in PrefixRules(s)
  BY DEF PrefixRules, If, receipt
<1>6. Issued(receipt) => All(receipt, Of(receipt, Gates), "passed") BY <1>1, <1>3, Obeyed
<1>7. Issued(receipt) => All(receipt, Of(receipt, {"R", "N", "I"}), "passed") BY <1>1, <1>3, Obeyed
<1>8. Issued(receipt) => Precede(Of(receipt, {"R", "N"}), Of(receipt, {"I"})) BY <1>1, <1>3, Obeyed
<1>9. Issued(receipt) => Precede(Of(receipt, {"I"}), Of(receipt, {"P"})) BY <1>1, <1>3, Obeyed
<1>10. lease \/ (Issued(receipt) /\ Stable(s) = "free") =>
         Precede(Of(receipt, Gates), Of(receipt, {IF lease THEN "A" ELSE "N"}))
  BY <1>1, <1>4, Obeyed
<1>11. lease => Precede(Of(receipt, {"A"}), Of(receipt, {"R"})) BY <1>1, <1>5, Obeyed
<1>12. QED BY <1>2, <1>6, <1>7, <1>8, <1>9, <1>10, <1>11

\* The denying checkpoint and what came before it (_check_prefix_and_controller).
LEMMA DenialIs ==
  ASSUME Lawful, ~Issued(receipt)
  PROVE  LET r == receipt
             last == LastOf(Controllers(r))
             members == Of(r, Prerequisites(submission))
         IN /\ receipt.origin.checkpoint \in Gates \cup {"N", "A", "R", "I"}
            /\ Controllers(r) = Of(r, {r.origin.checkpoint})
            /\ last \in Controllers(r)
            /\ \A type \in Prerequisites(submission) : Some(r, type)
            /\ All(r, members, "passed")
            /\ Of(r, Ordinary) \subseteq members \cup Controllers(r)
            /\ Precede(members, {last})
            /\ r.checks[last].outcome \in {"failed", "indeterminate"}
            /\ All(r, Controllers(r) \ {last}, "passed")
            /\ Precede(Of(r, Ordinary) \ {last}, {last})
            /\ r.origin.checkpoint = "A" => One(r, "A")
            /\ r.origin.checkpoint = "I" => One(r, "I")
<1> DEFINE s == submission
           r == receipt
           last == LastOf(Controllers(r))
           members == Of(r, Prerequisites(s))
           outcome == Controller(r).outcome
<1>1. s \in Submissions /\ Violated(DenialRules(s)) = {} BY LawfulIs
<1>2. r.origin.checkpoint \in Gates \cup {"N", "A", "R", "I"} BY <1>1, ReceiptAssumption DEF receipt
<1>3. /\ <<"DP01", \A type \in Prerequisites(s) : Some(r, type)>> \in DenialRules(s)
      /\ <<"DP02", All(r, members, "passed")>> \in DenialRules(s)
      /\ <<"DP03", Of(r, Ordinary) \subseteq members \cup Controllers(r)>> \in DenialRules(s)
      /\ <<"DP05", Controllers(r) # {}>> \in DenialRules(s)
  BY DEF DenialRules, PrerequisiteRules, receipt
<1>4. /\ <<"DP04", Precede(members, {last})>> \in DenialRules(s)
      /\ <<"DP06", outcome \in {"failed", "indeterminate"}>> \in DenialRules(s)
      /\ <<"DP09", All(r, Controllers(r) \ {last}, "passed")>> \in DenialRules(s)
      /\ <<"RECEIPT.DENIAL_MATRIX", Precede(Of(r, Ordinary) \ {last}, {last})>> \in DenialRules(s)
  BY DEF DenialRules, ControllerRules, receipt
<1>5. /\ r.origin.checkpoint = "A" => <<"DP10", One(r, "A")>> \in DenialRules(s)
      /\ r.origin.checkpoint = "I" => <<"DP11", One(r, "I")>> \in DenialRules(s)
  BY DEF DenialRules, ControllerRules, If, receipt
<1>6. \A type \in Prerequisites(s) : Some(r, type) BY <1>1, <1>3, Obeyed
<1>7. All(r, members, "passed") BY <1>1, <1>3, Obeyed
<1>8. Of(r, Ordinary) \subseteq members \cup Controllers(r) BY <1>1, <1>3, Obeyed
<1>9. Controllers(r) # {} BY <1>1, <1>3, Obeyed
<1>10. Precede(members, {last}) BY <1>1, <1>4, Obeyed
<1>11. outcome \in {"failed", "indeterminate"}
  <2> HIDE DEF outcome
  <2>1. <<"DP06", outcome \in {"failed", "indeterminate"}>> \in DenialRules(s) BY <1>4
  <2>2. <<"DP06", outcome \in {"failed", "indeterminate"}>>[2] BY <1>1, <2>1, AllHold
  <2>3. QED BY <2>2
<1>12. All(r, Controllers(r) \ {last}, "passed") BY <1>1, <1>4, Obeyed
<1>13. Precede(Of(r, Ordinary) \ {last}, {last}) BY <1>1, <1>4, Obeyed
<1>14. r.origin.checkpoint = "A" => One(r, "A") BY <1>1, <1>5, Obeyed
<1>15. r.origin.checkpoint = "I" => One(r, "I") BY <1>1, <1>5, Obeyed
<1>16. last \in Controllers(r)
  <2>1. Controllers(r) \subseteq 1 .. Count /\ Count \in Nat BY <1>1, Positions DEF Controllers
  <2>2. QED BY <1>9, <2>1, LastIsIn
<1>17. Controllers(r) = Of(r, {r.origin.checkpoint}) /\ r.checks[last].outcome = outcome
  BY DEF Controllers, Controller
<1> HIDE DEF outcome, last, members
<1>18. QED BY <1>2, <1>6, <1>7, <1>8, <1>10, <1>11, <1>12, <1>13, <1>14, <1>15, <1>16, <1>17 DEF last, members

\* Pre-action checks, execution and verification (_check_receipt_remaining).
LEMMA ExecutionIs ==
  ASSUME Lawful, Issued(receipt)
  PROVE  LET p == Of(receipt, {"P"})
             e == Of(receipt, {"E"})
             v == Of(receipt, {"V"})
         IN /\ Attempted(receipt) => All(receipt, p, "passed")
            /\ All(receipt, {i \in e : i # LastOf(e)}, "succeeded")
            /\ e # {} => receipt.checks[LastOf(e)].outcome = receipt.execution
            /\ receipt.verification = "passed" => All(receipt, v, "passed")
            /\ p # {} => Precede({LastOf(p)}, e)
            /\ Precede(e, v)
<1> DEFINE s == submission
           p == Of(receipt, {"P"})
           e == Of(receipt, {"E"})
           v == Of(receipt, {"V"})
<1>1. Violated(RemainingRules(s)) = {} BY LawfulIs
<1>2. /\ <<"RECEIPT.P_TERMINAL",
            All(receipt, IF Attempted(receipt) THEN p ELSE {i \in p : i # LastOf(p)}, "passed")>> \in RemainingRules(s)
      /\ <<"RECEIPT.E_TERMINAL", All(receipt, {i \in e : i # LastOf(e)}, "succeeded")>> \in RemainingRules(s)
      /\ <<"RECEIPT.FINAL_OUTCOMES",
            /\ e # {} => receipt.checks[LastOf(e)].outcome = receipt.execution
            /\ v # {} => receipt.checks[LastOf(v)].outcome = receipt.verification>> \in RemainingRules(s)
      /\ <<"RECEIPT.UNIVERSAL_V", receipt.verification = "passed" => All(receipt, v, "passed")>> \in RemainingRules(s)
      /\ <<"RECEIPT.PEV_SEQUENCE", (p # {} => Precede({LastOf(p)}, e)) /\ Precede(e, v)>> \in RemainingRules(s)
  BY DEF RemainingRules, ExecutionRules, receipt
<1>3. All(receipt, IF Attempted(receipt) THEN p ELSE {i \in p : i # LastOf(p)}, "passed") BY <1>1, <1>2, Obeyed
<1>4. All(receipt, {i \in e : i # LastOf(e)}, "succeeded")
  <2>1. <<"RECEIPT.E_TERMINAL", All(receipt, {i \in e : i # LastOf(e)}, "succeeded")>> \in RemainingRules(s)
    BY <1>2
  <2>2. QED BY <1>1, <2>1, Obeyed
<1>5. /\ e # {} => receipt.checks[LastOf(e)].outcome = receipt.execution
      /\ v # {} => receipt.checks[LastOf(v)].outcome = receipt.verification
  BY <1>1, <1>2, Obeyed
<1>6. receipt.verification = "passed" => All(receipt, v, "passed") BY <1>1, <1>2, Obeyed
<1>7. (p # {} => Precede({LastOf(p)}, e)) /\ Precede(e, v) BY <1>1, <1>2, Obeyed
<1> HIDE DEF p, e, v
<1>8. QED BY <1>3, <1>4, <1>5, <1>6, <1>7 DEF p, e, v

\* What was changed, and the postconditions that were checked.
LEMMA ChangesAre ==
  ASSUME Lawful, Issued(receipt)
  PROVE  /\ receipt.evidence # Absent <=> contract.allowWrite /\ Attempted(receipt)
         /\ contract.allowWrite \/ receipt.changed = {}
         /\ contract.allowWrite /\ Attempted(receipt) /\ receipt.verification = "passed" =>
              /\ receipt.evidence.operations \subseteq contract.capabilities
              /\ receipt.changed \subseteq contract.paths
         /\ Attempted(receipt) => contract.posts \subseteq Posts(receipt)
<1> DEFINE s == submission
           required == contract.allowWrite /\ Attempted(receipt)
           checks == {i \in Of(receipt, {"V"}) : receipt.checks[i].post = "scope-contained"}
           operations == IF receipt.evidence = Absent THEN {} ELSE receipt.evidence.operations
<1>1. Violated(RemainingRules(s)) = {} /\ Violated(PostconditionRules(s)) = {} BY LawfulIs
<1>2. <<"RECEIPT.CARRIER_BIND", /\ receipt.evidence # Absent <=> required
                                /\ contract.allowWrite \/ receipt.changed = {}>> \in RemainingRules(s)
  BY DEF RemainingRules, CarrierRules, receipt, contract
<1>3. required /\ receipt.verification = "passed" =>
        <<"RECEIPT.SCOPE",
          /\ operations \subseteq contract.capabilities
          /\ (Carried(receipt) \cup receipt.changed) \ {} \subseteq contract.paths
          /\ checks # {} /\ receipt.checks[LastOf(checks)].outcome = "passed">> \in RemainingRules(s)
  BY DEF RemainingRules, ScopeRules, ScopeDue, If, receipt, contract
<1>4. <<"PB05", Attempted(receipt) => contract.posts \subseteq Posts(receipt)>> \in PostconditionRules(s)
  BY DEF PostconditionRules, receipt, contract
<1>5. /\ receipt.evidence # Absent <=> required
      /\ contract.allowWrite \/ receipt.changed = {}
  BY <1>1, <1>2, Obeyed
<1>6. required /\ receipt.verification = "passed" =>
        /\ operations \subseteq contract.capabilities
        /\ (Carried(receipt) \cup receipt.changed) \ {} \subseteq contract.paths
        /\ checks # {} /\ receipt.checks[LastOf(checks)].outcome = "passed"
  BY <1>1, <1>3, Obeyed
<1>7. Attempted(receipt) => contract.posts \subseteq Posts(receipt) BY <1>1, <1>4, Obeyed
<1> HIDE DEF checks
<1>8. QED BY <1>5, <1>6, <1>7

\* The instants of the prefix (_check_prefix_chronology).
LEMMA PrefixTimes ==
  ASSUME Lawful, Leased
  PROVE  /\ NotLater(receipt, Of(receipt, Gates), Of(receipt, {"A"}))
         /\ NotLater(receipt, Of(receipt, {"A"}), Of(receipt, {"R"}))
<1> DEFINE s == submission
<1>1. Violated(PrefixRelations(s)) = {} /\ Stable(s) = "lease" /\ One(receipt, "A")
  BY LawfulIs, PresenceIs
<1>2. /\ <<"CH08", NotLater(receipt, Of(receipt, Gates), Of(receipt, {"A"}))>> \in PrefixRelations(s)
      /\ <<"CH10", NotLater(receipt, Of(receipt, {"A"}), Of(receipt, {"R"}))>> \in PrefixRelations(s)
  BY <1>1 DEF PrefixRelations, If, receipt
<1>3. NotLater(receipt, Of(receipt, Gates), Of(receipt, {"A"})) BY <1>1, <1>2, Obeyed
<1>4. NotLater(receipt, Of(receipt, {"A"}), Of(receipt, {"R"})) BY <1>1, <1>2, Obeyed
<1>5. QED BY <1>3, <1>4

\* The window of the contract (_check_remaining_chronology).
LEMMA WindowIs ==
  ASSUME Lawful, Issued(receipt)
  PROVE  LET r == receipt
             c == contract
             p == Of(r, {"P"})
         IN /\ c.checkpointAt <= c.issuedAt
            /\ \A i \in p : r.checks[i].outcome = "passed" => Time(i) < c.expiresAt
            /\ ~Leased => /\ NotLater(r, Of(r, Gates), Of(r, {"N"}))
                          /\ Only(r, "N").observedAt <= c.checkpointAt
            /\ Leased => Only(r, "R").observedAt <= c.checkpointAt
            /\ c.issuedAt <= Only(r, "I").observedAt
            /\ NotLater(r, Of(r, {"I"}), p)
            /\ Attempted(r) /\ p # {} => NotLater(r, {LastOf(p)}, Of(r, {"E"}))
            /\ Attempted(r) => NotLater(r, Of(r, {"E"}), Of(r, {"V"}))
<1> DEFINE s == submission
           r == receipt
           c == contract
           p == Of(r, {"P"})
           R == RemainingRelations(s)
<1>1. /\ Violated(R) = {} /\ Bound(s) /\ Bound(submission)
      /\ Leased <=> c.allowWrite
      /\ One(r, "I") /\ One(r, IF Leased THEN "R" ELSE "N")
  BY LawfulIs, PresenceIs DEF Bound, receipt, contract
<1> DEFINE always == {<<"CH03", \A i \in DOMAIN r.checks : r.startedAt <= r.checks[i].observedAt>>,
                      <<"CH04", \A i \in NonF(r) : r.checks[i].observedAt <= r.sanitizedAt>>,
                      <<"CH17", \A i \in Of(r, {"F"}) : r.sanitizedAt <= r.checks[i].observedAt>>,
                      <<"CH18", \A i \in Of(r, {"F"}) : r.checks[i].observedAt <= r.finishedAt>>}
           bound == {<<"CH01", c.checkpointAt <= c.issuedAt>>,
                     <<"CH02", c.issuedAt < c.expiresAt>>,
                     <<"CH05", \A i \in p : r.checks[i].outcome = "passed" => r.checks[i].observedAt < c.expiresAt>>}
           free == {<<"CH09", NotLater(r, Of(r, Gates), Of(r, {"N"}))>>,
                    <<"CH12", Only(r, "N").observedAt <= c.checkpointAt>>}
           leased == {<<"CH11", Only(r, "R").observedAt <= c.checkpointAt>>}
           issued == {<<"CH13", c.issuedAt <= Only(r, "I").observedAt>>,
                      <<"CH14", NotLater(r, Of(r, {"I"}), p)>>}
           checked == {<<"CH06", NotLater(r, {LastOf(p)}, Of(r, {"E"}))>>}
           attempted == {<<"CH07", NotLater(r, Of(r, {"E"}), Of(r, {"V"}))>>}
           release == {<<"CH15/CH16", NotLater(r, BeforeRelease(r), Of(r, {"L"}))>>,
                       <<"CH20", \A i, j \in Of(r, {"L"}) : i < j => r.checks[i].observedAt <= r.checks[j].observedAt>>}
<1>a. R = always \cup If(Bound(s), bound \cup If(~c.allowWrite /\ One(r, "N"), free)
                                        \cup If(c.allowWrite /\ One(r, "R"), leased)
                                        \cup If(One(r, "I"), issued)
                                        \cup If(Attempted(r) /\ p # {}, checked)
                                        \cup If(Attempted(r), attempted))
                 \cup If(Stable(s) = "lease", release)
  BY DEF RemainingRelations, receipt, contract
<1>b. /\ bound \subseteq R /\ issued \subseteq R
      /\ ~Leased => free \subseteq R
      /\ Leased => leased \subseteq R
      /\ Attempted(r) /\ p # {} => checked \subseteq R
      /\ Attempted(r) => attempted \subseteq R
  <2> HIDE DEF r, c, p, s, R, always, bound, free, leased, issued, checked, attempted, release
  <2>1. QED BY <1>1, <1>a DEF If
<1>2. /\ <<"CH01", c.checkpointAt <= c.issuedAt>> \in R
      /\ <<"CH05", \A i \in p : r.checks[i].outcome = "passed" => r.checks[i].observedAt < c.expiresAt>> \in R
  <2> HIDE DEF r, c, p, R
  <2>1. QED BY <1>b
<1>3. ~Leased => /\ <<"CH09", NotLater(r, Of(r, Gates), Of(r, {"N"}))>> \in R
                 /\ <<"CH12", Only(r, "N").observedAt <= c.checkpointAt>> \in R
  <2> HIDE DEF r, c, R
  <2>1. QED BY <1>b
<1>4. Leased => <<"CH11", Only(r, "R").observedAt <= c.checkpointAt>> \in R
  <2> HIDE DEF r, c, R
  <2>1. QED BY <1>b
<1>5. /\ <<"CH13", c.issuedAt <= Only(r, "I").observedAt>> \in R
      /\ <<"CH14", NotLater(r, Of(r, {"I"}), p)>> \in R
  <2> HIDE DEF r, c, p, R
  <2>1. QED BY <1>b
<1>6. Attempted(r) /\ p # {} => <<"CH06", NotLater(r, {LastOf(p)}, Of(r, {"E"}))>> \in R
  <2> HIDE DEF r, p, R
  <2>1. QED BY <1>b
<1>7. Attempted(r) => <<"CH07", NotLater(r, Of(r, {"E"}), Of(r, {"V"}))>> \in R
  <2> HIDE DEF r, R
  <2>1. QED BY <1>b
<1> HIDE DEF always, bound, free, leased, issued, checked, attempted, release
<1>8. c.checkpointAt <= c.issuedAt
  <2>1. <<"CH01", c.checkpointAt <= c.issuedAt>>[2] BY <1>1, <1>2, AllHold
  <2>2. QED BY <2>1
<1>9. \A i \in p : r.checks[i].outcome = "passed" => r.checks[i].observedAt < c.expiresAt BY <1>1, <1>2, Obeyed
<1>10. ~Leased => NotLater(r, Of(r, Gates), Of(r, {"N"})) BY <1>1, <1>3, Obeyed
<1>11. ~Leased => Only(r, "N").observedAt <= c.checkpointAt
  <2>1. ~Leased => <<"CH12", Only(r, "N").observedAt <= c.checkpointAt>>[2] BY <1>1, <1>3, AllHold
  <2>2. QED BY <2>1
<1>12. Leased => Only(r, "R").observedAt <= c.checkpointAt
  <2>1. Leased => <<"CH11", Only(r, "R").observedAt <= c.checkpointAt>>[2] BY <1>1, <1>4, AllHold
  <2>2. QED BY <2>1
<1>13. c.issuedAt <= Only(r, "I").observedAt
  <2>1. <<"CH13", c.issuedAt <= Only(r, "I").observedAt>>[2] BY <1>1, <1>5, AllHold
  <2>2. QED BY <2>1
<1>14. NotLater(r, Of(r, {"I"}), p) BY <1>1, <1>5, Obeyed
<1>15. Attempted(r) /\ p # {} => NotLater(r, {LastOf(p)}, Of(r, {"E"})) BY <1>1, <1>6, Obeyed
<1>16. Attempted(r) => NotLater(r, Of(r, {"E"}), Of(r, {"V"})) BY <1>1, <1>7, Obeyed
<1>17. QED BY <1>8, <1>9, <1>10, <1>11, <1>12, <1>13, <1>14, <1>15, <1>16 DEF Time

\* The end: the release, the finalization and the outcome of the whole
\* (_check_outcome_and_finalization, and CH15/CH16).
LEMMA EndIs ==
  ASSUME Lawful
  PROVE  LET r == receipt
             l == Of(r, {"L"})
             last == r.checks[LastOf(l)]
         IN /\ \A f \in Of(r, {"F"}) : Precede(NonF(r), {f})
            /\ r.lifecycle = Lifecycle(r)
            /\ Leased => /\ l # {}
                         /\ r.release = IF last.outcome = "passed" THEN "succeeded" ELSE last.outcome
                         /\ last.outcome = "passed" \/
                              \E i \in DOMAIN r.warnings : r.warnings[i].related = last.id
                         /\ Precede(BeforeRelease(r), l)
                         /\ NotLater(r, BeforeRelease(r), l)
<1> DEFINE s == submission
           r == receipt
           l == Of(r, {"L"})
           last == r.checks[LastOf(l)]
           R == FinalizationRules(s)
<1>1. Violated(R) = {} /\ Violated(RemainingRelations(s)) = {} BY LawfulIs
<1>2. Leased => l # {} /\ Stable(s) = "lease" BY PresenceIs DEF Some
<1>3. /\ <<"RF08", \A f \in Of(r, {"F"}) : Precede(NonF(r), {f})>> \in R
      /\ <<"LIFECYCLE", r.lifecycle = Lifecycle(r)>> \in R
  BY DEF FinalizationRules, receipt
<1>4. l # {} =>
       /\ <<"RF03", r.release = IF last.outcome = "passed" THEN "succeeded" ELSE last.outcome>> \in R
       /\ <<"RF11", last.outcome = "passed" \/ \E i \in DOMAIN r.warnings : r.warnings[i].related = last.id>> \in R
       /\ <<"RF09/RF10", Precede(BeforeRelease(r), l)>> \in R
  BY DEF FinalizationRules, receipt
<1>5. Leased => <<"CH15/CH16", NotLater(r, BeforeRelease(r), l)>> \in RemainingRelations(s)
  BY <1>2 DEF RemainingRelations, If, receipt
<1>6. \A f \in Of(r, {"F"}) : Precede(NonF(r), {f}) BY <1>1, <1>3, Obeyed
<1>7. r.lifecycle = Lifecycle(r) BY <1>1, <1>3, Obeyed
<1>8. l # {} => r.release = IF last.outcome = "passed" THEN "succeeded" ELSE last.outcome BY <1>1, <1>4, Obeyed
<1>9. l # {} => last.outcome = "passed" \/ \E i \in DOMAIN r.warnings : r.warnings[i].related = last.id
  BY <1>1, <1>4, Obeyed
<1>10. l # {} => Precede(BeforeRelease(r), l) BY <1>1, <1>4, Obeyed
<1>11. Leased => NotLater(r, BeforeRelease(r), l) BY <1>1, <1>5, Obeyed
<1> HIDE DEF last, l
<1>12. QED BY <1>2, <1>6, <1>7, <1>8, <1>9, <1>10, <1>11 DEF last, l

Letters == {"N", "A", "R", "I", "P", "E", "V", "L", "F"}

LEMMA GatesAreOthers == Gates \cap Letters = {} /\ Ordinary = Gates \cup {"N", "A", "R", "I", "P", "E", "V"}
BY GatesAssumption DEF Letters, Ordinary

\* What the schema says of an accepted receipt (execution-receipt.schema.json).
LEMMA ShapeIs ==
  ASSUME Lawful
  PROVE  /\ Some(receipt, "F") /\ \A i \in Of(receipt, {"F"}) : receipt.checks[i].outcome = "passed"
         /\ \A i \in 1 .. Count :
              receipt.checks[i].outcome \in IF Kind(i) = "E"
                THEN {"succeeded", "failed", "cancelled", "indeterminate"}
                ELSE {"passed", "failed", "indeterminate"}
         /\ Leased => ~Some(receipt, "N") /\ Some(receipt, "R")
         /\ ~Attempted(receipt) => Of(receipt, {"E", "V"}) = {}
         /\ receipt.execution \in {"not-attempted", "succeeded", "failed", "cancelled", "indeterminate"}
         /\ receipt.verification \in {"not-performed", "passed", "failed", "indeterminate"}
         /\ Attempted(receipt) => receipt.verification # "not-performed"
         /\ Issued(receipt) /\ ~Leased => Of(receipt, LeaseTypes) = {}
         /\ Issued(receipt) /\ Attempted(receipt) =>
              Some(receipt, "P") /\ Some(receipt, "E") /\ Some(receipt, "V")
         /\ ~Issued(receipt) => Of(receipt, {"P", "E", "V"}) = {}
<1>1. /\ submission \in Submissions /\ DOMAIN receipt.checks = 1 .. Count
      /\ ShapeOfHistory(receipt) /\ ShapeOfOutcomes(receipt)
      /\ Issued(receipt) => ShapeOfIssued(receipt)
      /\ ~Issued(receipt) => ShapeOfDenial(receipt)
  BY LawfulIs, Positions DEF Shaped
<1>2. Some(receipt, "F") /\ \A i \in Of(receipt, {"F"}) : receipt.checks[i].outcome = "passed"
  <2>1. One(receipt, "F") /\ Only(receipt, "F").outcome = "passed" BY <1>1 DEF ShapeOfHistory
  <2>2. PICK i \in 1 .. Count : Of(receipt, {"F"}) = {i} /\ Only(receipt, "F") = receipt.checks[i]
    BY <1>1, <2>1, OnlyOne
  <2>3. QED BY <2>1, <2>2 DEF Some
<1>3. \A i \in 1 .. Count :
        receipt.checks[i].outcome \in IF Kind(i) = "E"
          THEN {"succeeded", "failed", "cancelled", "indeterminate"}
          ELSE {"passed", "failed", "indeterminate"}
  BY <1>1 DEF ShapeOfHistory, Kind
<1>4. Leased => ~Some(receipt, "N") /\ Some(receipt, "R") BY <1>1 DEF ShapeOfHistory, Leased
<1>5. /\ ~Attempted(receipt) => Of(receipt, {"E", "V"}) = {}
      /\ receipt.execution \in {"not-attempted", "succeeded", "failed", "cancelled", "indeterminate"}
      /\ receipt.verification \in {"not-performed", "passed", "failed", "indeterminate"}
      /\ Attempted(receipt) => receipt.verification # "not-performed"
  BY <1>1 DEF ShapeOfOutcomes
<1>6. /\ Issued(receipt) /\ ~Leased => Of(receipt, LeaseTypes) = {}
      /\ Issued(receipt) /\ Attempted(receipt) =>
           Some(receipt, "P") /\ Some(receipt, "E") /\ Some(receipt, "V")
  BY <1>1 DEF ShapeOfIssued, Leased
<1>7. ~Issued(receipt) => Of(receipt, {"P", "E", "V"}) = {} BY <1>1 DEF ShapeOfDenial
<1>8. QED BY <1>2, <1>3, <1>4, <1>5, <1>6, <1>7

\* Where a denial may have happened, with a lease and without.
LEMMA DenialLease ==
  ASSUME Lawful, ~Issued(receipt)
  PROVE  /\ Leased <=> receipt.origin.state = "acquired"
         /\ Leased => receipt.origin.checkpoint \in {"R", "I"}
         /\ receipt.origin.checkpoint = "R" => Leased
<1>1. ShapeOfDenial(receipt) BY LawfulIs DEF Shaped
<1>2. Leased <=> receipt.origin.state = "acquired" BY PresenceIs DEF Stable, receipt
<1>3. receipt.origin.state \in DenialStates(receipt.origin.checkpoint) BY <1>1 DEF ShapeOfDenial
<1>4. receipt.origin.checkpoint \in Gates \cup {"N", "A", "R", "I"} BY DenialIs
<1>5. CASE receipt.origin.checkpoint = "R" BY <1>2, <1>3, <1>5 DEF DenialStates
<1>6. CASE receipt.origin.checkpoint = "I" BY <1>2, <1>6
<1>7. CASE receipt.origin.checkpoint = "N" BY <1>2, <1>3, <1>7 DEF DenialStates
<1>8. CASE receipt.origin.checkpoint = "A" BY <1>2, <1>3, <1>8 DEF DenialStates
<1>9. CASE receipt.origin.checkpoint \in Gates
  <2>1. receipt.origin.checkpoint \notin {"N", "A", "R", "I"} BY <1>9, GatesAreOthers DEF Letters
  <2>2. receipt.origin.state \in {"not-required", "not-attempted"} BY <1>3, <2>1 DEF DenialStates
  <2>3. QED BY <1>2, <2>1, <2>2
<1>10. QED BY <1>4, <1>5, <1>6, <1>7, <1>8, <1>9

\* The types that have to be there before a denying checkpoint.
LEMMA PrerequisitesAre ==
  ASSUME Lawful, ~Issued(receipt)
  PROVE  LET checkpoint == receipt.origin.checkpoint
         IN /\ checkpoint \in {"N", "A"} => Prerequisites(submission) = Gates
            /\ checkpoint = "R" => Prerequisites(submission) = Gates \cup {"A"}
            /\ checkpoint = "I" =>
                 Prerequisites(submission) = Gates \cup IF Leased THEN {"A", "R"} ELSE {"N"}
            /\ \A k \in DOMAIN GTypes : checkpoint = GTypes[k] =>
                 Prerequisites(submission) = {GTypes[l] : l \in 1 .. k - 1}
<1> DEFINE checkpoint == submission.receipt.origin.checkpoint
<1>1. \A gate \in Gates : gate \notin {"N", "A", "R", "I"} BY GatesAreOthers DEF Letters
<1>2. Leased <=> Stable(submission) = "lease" BY PresenceIs
<1>3. checkpoint \in {"N", "A"} => Prerequisites(submission) = Gates BY <1>1 DEF Prerequisites
<1>4. checkpoint = "R" => Prerequisites(submission) = Gates \cup {"A"} BY <1>1 DEF Prerequisites
<1>5. checkpoint = "I" => Prerequisites(submission) = Gates \cup IF Leased THEN {"A", "R"} ELSE {"N"}
  BY <1>1, <1>2 DEF Prerequisites
<1>6. ASSUME NEW k \in DOMAIN GTypes, checkpoint = GTypes[k]
      PROVE  Prerequisites(submission) = {GTypes[l] : l \in 1 .. k - 1}
  <2>1. GTypes[k] \in Gates BY DEF Gates
  <2>2. (CHOOSE l \in DOMAIN GTypes : GTypes[l] = checkpoint) = k BY <1>6, GatesAssumption
  <2>3. checkpoint \in Gates /\ checkpoint \notin {"N", "A", "R"} BY <1>1, <1>6, <2>1
  <2> DEFINE first == CHOOSE l \in DOMAIN GTypes : GTypes[l] = checkpoint
  <2>4. Prerequisites(submission) = {GTypes[l] : l \in 1 .. first - 1} BY <2>3 DEF Prerequisites
  <2>5. QED BY <2>2, <2>4
<1>7. QED BY <1>3, <1>4, <1>5, <1>6 DEF receipt

-----------------------------------------------------------------------------
\* The phases follow one another.

Climbs(U, T) == \A i, j \in 1 .. Count : Kind(i) \in U /\ Kind(j) \in T => i < j

LEMMA PrecedeIsClimb ==
  ASSUME submission \in Submissions, NEW U, NEW T
  PROVE  Precede(Of(receipt, U), Of(receipt, T)) <=> Climbs(U, T)
BY Positions DEF Precede, Climbs

\* What comes before every check of a type comes before what follows them.
LEMMA Via ==
  ASSUME submission \in Submissions, NEW U, NEW t, NEW T, Climbs(U, {t}), Climbs({t}, T),
         (\E j \in 1 .. Count : Kind(j) \in T) => Some(receipt, t)
  PROVE  Climbs(U \cup {t}, T)
<1>1. SUFFICES ASSUME NEW i \in 1 .. Count, NEW j \in 1 .. Count, Kind(i) \in U, Kind(j) \in T
               PROVE  i < j
  BY DEF Climbs
<1>2. PICK k \in 1 .. Count : Kind(k) = t BY <1>1, SomeIs
<1>3. i < k /\ k < j BY <1>1, <1>2 DEF Climbs
<1>4. Count \in Nat BY Positions
<1>5. QED BY <1>3, <1>4

\* The order of the prefix, whichever route it took.
LEMMA PrefixClimbs ==
  ASSUME Lawful, Issued(receipt) \/ Leased
  PROVE  /\ Climbs(Gates, {"N", "A"})
         /\ Climbs(Gates \cup {"N", "A"}, {"R"})
         /\ Climbs(Gates \cup {"N", "A", "R"}, {"I"})
<1>1. submission \in Submissions BY LawfulIs
<1> USE PrecedeIsClimb
<1>2. CASE Leased
  <2>1. Climbs(Gates, {"A"}) /\ Climbs({"A"}, {"R"}) BY <1>1, <1>2, PrefixIs
  <2>2. ~Some(receipt, "N") /\ Some(receipt, "R") BY <1>2, ShapeIs
  <2>3. \A i \in 1 .. Count : Kind(i) # "N" BY <1>1, <2>2, SomeIs
  <2>4. Some(receipt, "A")
    <3>1. One(receipt, "A") BY <1>2, PresenceIs
    <3>2. QED BY <1>1, <3>1, OnlyOne DEF Some
  <2>5. Climbs(Gates \cup {"A"}, {"R"}) BY <1>1, <2>1, <2>4, Via
  <2>6. Climbs(Gates \cup {"A", "R"}, {"I"})
    <3>1. CASE Issued(receipt)
      <4>1. Climbs({"R", "N"}, {"I"}) BY <1>1, <3>1, PrefixIs
      <4>2. Climbs({"R"}, {"I"}) BY <4>1 DEF Climbs
      <4>3. Climbs((Gates \cup {"A"}) \cup {"R"}, {"I"}) BY <1>1, <2>2, <2>5, <4>2, Via
      <4>4. (Gates \cup {"A"}) \cup {"R"} = Gates \cup {"A", "R"} OBVIOUS
      <4>5. QED BY <4>3, <4>4
    <3>2. CASE ~Issued(receipt) /\ receipt.origin.checkpoint = "R"
      <4>1. Prerequisites(submission) = Gates \cup {"A"} BY <3>2, PrerequisitesAre
      <4>2. Of(receipt, Ordinary) \subseteq Of(receipt, Gates \cup {"A"}) \cup Of(receipt, {"R"})
        BY <3>2, <4>1, DenialIs
      <4>3. \A i \in 1 .. Count : Kind(i) # "I"
        <5>1. SUFFICES ASSUME NEW i \in 1 .. Count, Kind(i) = "I" PROVE FALSE OBVIOUS
        <5>2. i \in Of(receipt, Ordinary) BY <1>1, <5>1, Positions, GatesAreOthers
        <5>3. Kind(i) \in Gates \cup {"A", "R"} BY <1>1, <4>2, <5>2, Positions
        <5>4. QED BY <5>1, <5>3, GatesAreOthers DEF Letters
      <4>4. QED BY <4>3 DEF Climbs
    <3>3. CASE ~Issued(receipt) /\ receipt.origin.checkpoint = "I"
      <4> DEFINE last == LastOf(Controllers(receipt))
      <4>1. Prerequisites(submission) = Gates \cup {"A", "R"} BY <1>2, <3>3, PrerequisitesAre
      <4>2. /\ Precede(Of(receipt, Gates \cup {"A", "R"}), {last})
            /\ last \in Of(receipt, {"I"}) /\ One(receipt, "I")
        BY <3>3, <4>1, DenialIs
      <4>3. Of(receipt, {"I"}) = {last} BY <1>1, <4>2, OnlyOne
      <4>4. QED BY <1>1, <4>2, <4>3
    <3>4. QED BY <3>1, <3>2, <3>3, <1>2, DenialLease
  <2>7. QED BY <2>1, <2>3, <2>5, <2>6 DEF Climbs
<1>3. CASE Issued(receipt) /\ ~Leased
  <2>1. Climbs(Gates, {"N"}) /\ Climbs({"R", "N"}, {"I"}) BY <1>1, <1>3, PrefixIs
  <2>2. Of(receipt, {"A", "R"}) = {} /\ One(receipt, "N") BY <1>3, PresenceIs
  <2>3. \A i \in 1 .. Count : Kind(i) \notin {"A", "R"} BY <1>1, <2>2, Positions
  <2>4. Some(receipt, "N") BY <1>1, <2>2, OnlyOne DEF Some
  <2>5. Climbs({"N"}, {"I"}) BY <2>1 DEF Climbs
  <2>6. Climbs(Gates \cup {"N"}, {"I"}) BY <1>1, <2>1, <2>4, <2>5, Via
  <2>7. QED BY <2>1, <2>3, <2>6 DEF Climbs
<1>4. QED BY <1>2, <1>3

\* The order of what follows issuance.
LEMMA RestClimbs ==
  ASSUME Lawful, Issued(receipt) \/ Leased
  PROVE  /\ Climbs(Gates \cup {"N", "A", "R", "I"}, {"P"})
         /\ Climbs(Gates \cup {"N", "A", "R", "I", "P"}, {"E"})
         /\ Climbs(Gates \cup {"N", "A", "R", "I", "P", "E"}, {"V"})
         /\ Climbs(Ordinary, {"L"})
         /\ Climbs(Ordinary \cup {"L"}, {"F"})
<1> DEFINE upToI == Gates \cup {"N", "A", "R", "I"}
           upToP == Gates \cup {"N", "A", "R", "I", "P"}
           upToE == Gates \cup {"N", "A", "R", "I", "P", "E"}
<1>1. submission \in Submissions /\ Count \in Nat BY LawfulIs, Positions
<1>2. Climbs(upToI, {"P"}) /\ Climbs(upToP, {"E"}) /\ Climbs(upToE, {"V"})
  <2>1. CASE ~Issued(receipt)
    <3>1. Of(receipt, {"P", "E", "V"}) = {} BY <2>1, ShapeIs
    <3>2. \A i \in 1 .. Count : Kind(i) \notin {"P", "E", "V"} BY <1>1, <3>1, Positions
    <3>3. QED BY <3>2 DEF Climbs
  <2>2. CASE Issued(receipt)
    <3>1. Climbs(Gates \cup {"N", "A", "R"}, {"I"}) BY <2>2, PrefixClimbs
    <3>2. Climbs({"I"}, {"P"}) BY <1>1, <2>2, PrefixIs, PrecedeIsClimb
    <3>3. One(receipt, "I") BY <2>2, PresenceIs
    <3>4. Some(receipt, "I") BY <1>1, <3>3, OnlyOne DEF Some
    <3>5. Climbs((Gates \cup {"N", "A", "R"}) \cup {"I"}, {"P"}) BY <1>1, <3>1, <3>2, <3>4, Via
    <3>6. /\ (Gates \cup {"N", "A", "R"}) \cup {"I"} = upToI
          /\ upToI \cup {"P"} = upToP /\ upToP \cup {"E"} = upToE
      OBVIOUS
    <3>7. Climbs(upToI, {"P"}) BY <3>5, <3>6
    <3> DEFINE p == Of(receipt, {"P"})
    <3>8. Climbs({"P"}, {"E"})
      <4>1. SUFFICES ASSUME NEW i \in 1 .. Count, NEW j \in 1 .. Count, Kind(i) = "P", Kind(j) = "E"
                     PROVE  i < j
        BY DEF Climbs
      <4>2. i \in p /\ j \in Of(receipt, {"E"}) /\ p \subseteq 1 .. Count BY <1>1, <4>1, Positions
      <4>3. Precede({LastOf(p)}, Of(receipt, {"E"})) BY <2>2, <4>2, ExecutionIs
      <4>4. LastOf(p) < j BY <4>2, <4>3 DEF Precede
      <4>5. i <= LastOf(p) /\ LastOf(p) \in p BY <1>1, <4>2, LastIsIn
      <4>6. QED BY <1>1, <4>2, <4>4, <4>5
    <3>9. Climbs({"E"}, {"V"}) BY <1>1, <2>2, ExecutionIs, PrecedeIsClimb
    <3>10. (\E j \in 1 .. Count : Kind(j) \in {"E", "V"}) => Some(receipt, "P") /\ Some(receipt, "E")
      <4>1. SUFFICES ASSUME NEW j \in 1 .. Count, Kind(j) \in {"E", "V"} PROVE Attempted(receipt)
        BY <2>2, ShapeIs
      <4>2. Of(receipt, {"E", "V"}) # {} BY <1>1, <4>1, Positions
      <4>3. QED BY <4>2, ShapeIs
    <3> HIDE DEF upToI, upToP, upToE
    <3>11. Climbs(upToI \cup {"P"}, {"E"}) BY <1>1, <3>7, <3>8, <3>10, Via
    <3>12. Climbs(upToP \cup {"E"}, {"V"}) BY <1>1, <3>6, <3>11, <3>9, <3>10, Via
    <3>13. QED BY <3>6, <3>7, <3>11, <3>12
  <2>3. QED BY <2>1, <2>2
<1>3. Climbs(Ordinary, {"L"})
  <2>1. SUFFICES ASSUME NEW i \in 1 .. Count, NEW j \in 1 .. Count, Kind(i) \in Ordinary, Kind(j) = "L"
                 PROVE  i < j
    BY DEF Climbs
  <2>2. Some(receipt, "L") BY <1>1, <2>1, SomeIs
  <2>3. Leased BY <2>2, PresenceIs
  <2>4. Kind(i) # "N"
    <3>1. ~Some(receipt, "N") BY <2>3, ShapeIs
    <3>2. QED BY <1>1, <3>1, SomeIs
  <2>5. i \in BeforeRelease(receipt)
    <3>1. Kind(i) \notin {"L", "F"} BY <2>1, GatesAreOthers DEF Letters
    <3>2. CASE Issued(receipt) BY <1>1, <2>1, <2>4, <3>2, Positions DEF BeforeRelease, Issued, PreRelease
    <3>3. CASE ~Issued(receipt)
      BY <1>1, <3>1, <3>3, Positions DEF BeforeRelease, Issued, NonF, Kind
    <3>4. QED BY <3>2, <3>3
  <2>6. j \in Of(receipt, {"L"}) BY <1>1, <2>1, Positions
  <2>7. QED BY <2>3, <2>5, <2>6, EndIs DEF Precede
<1>4. Climbs(Ordinary \cup {"L"}, {"F"})
  <2>1. SUFFICES ASSUME NEW i \in 1 .. Count, NEW j \in 1 .. Count,
                        Kind(i) \in Ordinary \cup {"L"}, Kind(j) = "F"
                 PROVE  i < j
    BY DEF Climbs
  <2>2. Kind(i) # "F" BY <2>1, GatesAreOthers DEF Letters
  <2>3. i \in NonF(receipt) /\ j \in Of(receipt, {"F"})
    BY <1>1, <2>1, <2>2, Positions DEF NonF, Kind
  <2>4. QED BY <2>3, EndIs DEF Precede
<1>5. QED BY <1>2, <1>3, <1>4

LEMMA PhaseIs ==
  ASSUME submission \in Submissions, NEW i \in 1 .. Count
  PROVE  Phase(i) \in 1 .. 9 /\ Kind(i) \in Phases[Phase(i)]
<1>1. DOMAIN Phases = 1 .. 9 BY DEF Phases
<1>2. Kind(i) \in Gates \cup {"N", "A", "R", "I", "P", "E", "V"} \cup {"L", "F"}
  BY Positions, GatesAreOthers
<1>3. \E k \in 1 .. 9 : Kind(i) \in Phases[k] BY <1>2 DEF Phases
<1>4. QED BY <1>1, <1>3 DEF Phase

LEMMA PhasesFollow ==
  ASSUME Lawful, Issued(receipt) \/ Leased,
         NEW i \in 1 .. Count, NEW j \in 1 .. Count, Phase(i) < Phase(j)
  PROVE  i < j
<1>1. submission \in Submissions BY LawfulIs
<1>2. /\ Phase(i) \in 1 .. 9 /\ Kind(i) \in Phases[Phase(i)]
      /\ Phase(j) \in 1 .. 9 /\ Kind(j) \in Phases[Phase(j)]
  BY <1>1, PhaseIs
<1>3. /\ Phases[1] = Gates /\ Phases[2] = {"N", "A"} /\ Phases[3] = {"R"} /\ Phases[4] = {"I"}
      /\ Phases[5] = {"P"} /\ Phases[6] = {"E"} /\ Phases[7] = {"V"} /\ Phases[8] = {"L"}
      /\ Phases[9] = {"F"}
  BY DEF Phases
<1>4. ASSUME NEW U, NEW T, Climbs(U, T), Kind(i) \in U, Kind(j) \in T PROVE i < j
  BY <1>4 DEF Climbs
<1>5. CASE Phase(j) = 2
  <2>1. Kind(i) \in Gates /\ Kind(j) \in {"N", "A"} BY <1>2, <1>3, <1>5
  <2>2. QED BY <1>4, <2>1, PrefixClimbs
<1>6. CASE Phase(j) = 3
  <2>1. Kind(i) \in Gates \cup {"N", "A"} /\ Kind(j) \in {"R"} BY <1>2, <1>3, <1>6
  <2>2. QED BY <1>4, <2>1, PrefixClimbs
<1>7. CASE Phase(j) = 4
  <2>1. Kind(i) \in Gates \cup {"N", "A", "R"} /\ Kind(j) \in {"I"} BY <1>2, <1>3, <1>7
  <2>2. QED BY <1>4, <2>1, PrefixClimbs
<1>8. CASE Phase(j) = 5
  <2>1. Kind(i) \in Gates \cup {"N", "A", "R", "I"} /\ Kind(j) \in {"P"} BY <1>2, <1>3, <1>8
  <2>2. QED BY <1>4, <2>1, RestClimbs
<1>9. CASE Phase(j) = 6
  <2>1. Kind(i) \in Gates \cup {"N", "A", "R", "I", "P"} /\ Kind(j) \in {"E"} BY <1>2, <1>3, <1>9
  <2>2. QED BY <1>4, <2>1, RestClimbs
<1>10. CASE Phase(j) = 7
  <2>1. Kind(i) \in Gates \cup {"N", "A", "R", "I", "P", "E"} /\ Kind(j) \in {"V"} BY <1>2, <1>3, <1>10
  <2>2. QED BY <1>4, <2>1, RestClimbs
<1>11. CASE Phase(j) = 8
  <2>1. Kind(i) \in Ordinary /\ Kind(j) \in {"L"} BY <1>2, <1>3, <1>11, GatesAreOthers
  <2>2. QED BY <1>4, <2>1, RestClimbs
<1>12. CASE Phase(j) = 9
  <2>1. Kind(i) \in Ordinary \cup {"L"} /\ Kind(j) \in {"F"} BY <1>2, <1>3, <1>12, GatesAreOthers
  <2>2. QED BY <1>4, <2>1, RestClimbs
<1>13. QED BY <1>2, <1>5, <1>6, <1>7, <1>8, <1>9, <1>10, <1>11, <1>12

\* In an accepted receipt of an issued contract, or of a denial after acquisition,
\* no check of an earlier phase comes after one of a later phase, and an issued
\* receipt skips no phase it must have (_check_receipt_presence,
\* _check_prefix_and_controller, _check_receipt_remaining and
\* _check_outcome_and_finalization together).
THEOREM ChainIsComplete == Spec => []AcceptedChain
<1>1. Inv /\ RulesAreKept => AcceptedChain
  <2>1. SUFFICES ASSUME Inv, RulesAreKept, Accepted, Issued(receipt) \/ Leased PROVE AcceptedChain
    BY DEF AcceptedChain
  <2>2. Lawful BY <2>1, AcceptedIsLawful
  <2>3. submission \in Submissions /\ DOMAIN receipt.checks = 1 .. Count /\ Count \in Nat
    BY <2>2, LawfulIs, Positions
  <2>4. ASSUME NEW i \in 1 .. Count, NEW j \in 1 .. Count, i < j PROVE Phase(i) <= Phase(j)
    <3>1. ~(Phase(j) < Phase(i)) BY <2>1, <2>2, <2>3, <2>4, PhasesFollow
    <3>2. QED BY <2>3, <3>1, PhaseIs
  <2>5. ASSUME Issued(receipt)
        PROVE  Types(1 .. Count) \ {"P"} =
                 Gates \cup {"I", "F"} \cup (IF Leased THEN {"A", "R", "L"} ELSE {"N"})
                   \cup (IF Attempted(receipt) THEN {"E", "V"} ELSE {})
    <3> DEFINE K == Types(1 .. Count)
    <3>1. \A type : type \in K <=> Some(receipt, type) BY <2>3, SomeIs DEF Types
    <3>2. K \subseteq Gates \cup {"N", "A", "R", "I", "P", "E", "V", "L", "F"}
      BY <2>3, Positions, GatesAreOthers DEF Types
    <3>3. \A type : One(receipt, type) => Some(receipt, type) BY <2>3, OnlyOne DEF Some
    <3>4. \A S : Of(receipt, S) = {} => \A type \in S : type \notin K BY <2>3, <3>1, SomeIs, Positions
    <3> HIDE DEF K
    <3>5. Gates \subseteq K /\ "I" \in K /\ "F" \in K /\ "P" \notin Gates
      BY <2>2, <2>5, <3>1, <3>3, PresenceIs, ShapeIs, GatesAreOthers DEF Letters
    <3>6. Attempted(receipt) => "E" \in K /\ "V" \in K BY <2>2, <2>5, <3>1, ShapeIs
    <3>7. ~Attempted(receipt) => "E" \notin K /\ "V" \notin K BY <2>2, <3>4, ShapeIs
    <3>8. Leased => "A" \in K /\ "R" \in K /\ "L" \in K /\ "N" \notin K
      BY <2>2, <2>5, <3>1, <3>3, PresenceIs, ShapeIs
    <3>9. ~Leased => "A" \notin K /\ "R" \notin K /\ "L" \notin K /\ "N" \in K
      BY <2>2, <2>5, <3>1, <3>3, <3>4, PresenceIs, ShapeIs DEF LeaseTypes
    <3>10. QED BY <3>2, <3>5, <3>6, <3>7, <3>8, <3>9 DEF K
  <2>6. QED BY <2>3, <2>4, <2>5 DEF AcceptedChain
<1>2. QED BY <1>1, Inductive, RulesInductive, PTL

\* One check is not later than another: the instants of NotLater.
LEMMA InTime ==
  ASSUME submission \in Submissions, NEW S, NEW T, NotLater(receipt, Of(receipt, S), Of(receipt, T)),
         NEW i \in 1 .. Count, NEW j \in 1 .. Count, Kind(i) \in S, Kind(j) \in T
  PROVE  Time(i) <= Time(j)
BY Positions DEF NotLater, Time

\* Nothing was done outside the window of authority: what the gates saw is no later
\* than the checkpoint of the contract, passed pre-action checks lie between issuance
\* and expiry, execution and verification follow the last of them
\* (_check_prefix_chronology, _check_remaining_chronology, _check_receipt_remaining).
THEOREM WindowIsKept == Spec => []AuthorityWindow
<1>1. Inv /\ RulesAreKept => AuthorityWindow
  <2>1. SUFFICES ASSUME Inv, RulesAreKept, Accepted, Issued(receipt) PROVE AuthorityWindow
    BY DEF AuthorityWindow
  <2>2. Lawful BY <2>1, AcceptedIsLawful
  <2>3. /\ submission \in Submissions /\ Count \in Nat
        /\ \A i \in 1 .. Count : Time(i) \in Nat
        /\ \A S : Of(receipt, S) = {i \in 1 .. Count : Kind(i) \in S}
    BY <2>2, LawfulIs, Positions
  <2>4. contract.checkpointAt \in Nat /\ contract.issuedAt \in Nat /\ contract.expiresAt \in Nat
    BY <2>1, <2>2, PresenceIs
  <2> DEFINE p == Of(receipt, {"P"})
  <2>5. /\ contract.checkpointAt <= contract.issuedAt
        /\ \A i \in p : receipt.checks[i].outcome = "passed" => Time(i) < contract.expiresAt
        /\ NotLater(receipt, Of(receipt, {"I"}), p)
        /\ contract.issuedAt <= Only(receipt, "I").observedAt
    BY <2>1, <2>2, WindowIs
  <2>6. ASSUME NEW i \in 1 .. Count, Kind(i) \in Gates \cup {"N", "A", "R"}
        PROVE  Time(i) <= contract.checkpointAt
    <3>1. CASE Leased
      <4>1. One(receipt, "R") /\ One(receipt, "A") /\ Of(receipt, {"N"}) = {}
        BY <2>1, <2>2, <3>1, PresenceIs
      <4>2. PICK g \in 1 .. Count : Of(receipt, {"R"}) = {g} /\ Only(receipt, "R") = receipt.checks[g]
        BY <2>3, <4>1, OnlyOne
      <4>3. PICK a \in 1 .. Count : Of(receipt, {"A"}) = {a} BY <2>3, <4>1, OnlyOne
      <4>4. Time(g) <= contract.checkpointAt BY <2>1, <2>2, <3>1, <4>2, WindowIs DEF Time
      <4>5. Kind(g) \in {"R"} /\ Kind(a) \in {"A"} BY <2>3, <4>2, <4>3
      <4>6. Time(a) <= Time(g) BY <2>2, <2>3, <3>1, <4>5, PrefixTimes, InTime
      <4>7. CASE Kind(i) \in Gates
        <5>1. Time(i) <= Time(a) BY <2>2, <2>3, <3>1, <4>5, <4>7, PrefixTimes, InTime
        <5>2. QED BY <2>3, <2>4, <4>4, <4>6, <5>1
      <4>8. CASE Kind(i) = "A"
        <5>1. i = a BY <2>3, <4>3, <4>8
        <5>2. QED BY <2>3, <2>4, <4>4, <4>6, <5>1
      <4>9. CASE Kind(i) = "R" BY <2>3, <4>2, <4>4, <4>9
      <4>10. Kind(i) # "N" BY <2>3, <4>1
      <4>11. QED BY <2>6, <4>7, <4>8, <4>9, <4>10
    <3>2. CASE ~Leased
      <4>1. One(receipt, "N") /\ Of(receipt, {"A", "R"}) = {} BY <2>1, <2>2, <3>2, PresenceIs
      <4>2. PICK n \in 1 .. Count : Of(receipt, {"N"}) = {n} /\ Only(receipt, "N") = receipt.checks[n]
        BY <2>3, <4>1, OnlyOne
      <4>3. Time(n) <= contract.checkpointAt BY <2>1, <2>2, <3>2, <4>2, WindowIs DEF Time
      <4>4. Kind(n) \in {"N"} BY <2>3, <4>2
      <4>5. CASE Kind(i) \in Gates
        <5>1. Time(i) <= Time(n) BY <2>1, <2>2, <2>3, <3>2, <4>4, <4>5, WindowIs, InTime
        <5>2. QED BY <2>3, <2>4, <4>3, <5>1
      <4>6. CASE Kind(i) = "N" BY <2>3, <4>2, <4>3, <4>6
      <4>7. Kind(i) \notin {"A", "R"} BY <2>3, <4>1
      <4>8. QED BY <2>6, <4>5, <4>6, <4>7
    <3>3. QED BY <3>1, <3>2
  <2>7. ASSUME NEW i \in p
        PROVE  contract.issuedAt <= Time(i) /\ (Passed(i) => Time(i) < contract.expiresAt)
    <3>1. One(receipt, "I") BY <2>1, <2>2, PresenceIs
    <3>2. PICK k \in 1 .. Count : Of(receipt, {"I"}) = {k} /\ Only(receipt, "I") = receipt.checks[k]
      BY <2>3, <3>1, OnlyOne
    <3>3. i \in 1 .. Count /\ Kind(i) \in {"P"} /\ Kind(k) \in {"I"} BY <2>3, <3>2
    <3>4. Time(k) <= Time(i) BY <2>3, <2>5, <3>3, InTime
    <3>5. contract.issuedAt <= Time(k) BY <2>5, <3>2 DEF Time
    <3>6. QED BY <2>3, <2>4, <2>5, <3>3, <3>4, <3>5 DEF Passed
  <2>8. ASSUME Attempted(receipt)
        PROVE  /\ Passed(Final(p))
               /\ \A i \in Of(receipt, {"E", "V"}) : Final(p) < i /\ Time(Final(p)) <= Time(i)
               /\ \A i \in Of(receipt, {"E", "V"}) : contract.checkpointAt <= Time(i)
    <3>1. Some(receipt, "P") /\ Some(receipt, "E") BY <2>1, <2>2, <2>8, ShapeIs
    <3>2. p # {} /\ p \subseteq 1 .. Count BY <2>3, <3>1 DEF Some
    <3>3. Final(p) = LastOf(p) /\ Final(p) \in p BY <2>3, <3>2, FinalIsLast
    <3>4. /\ All(receipt, p, "passed")
          /\ NotLater(receipt, {LastOf(p)}, Of(receipt, {"E"}))
          /\ NotLater(receipt, Of(receipt, {"E"}), Of(receipt, {"V"}))
      BY <2>1, <2>2, <2>8, <3>2, ExecutionIs, WindowIs
    <3> DEFINE f == Final(p)
    <3>5. f \in 1 .. Count /\ Kind(f) = "P" /\ contract.issuedAt <= Time(f) /\ Time(f) \in Nat
      BY <2>3, <2>7, <3>3
    <3>6. Passed(f) BY <3>3, <3>4 DEF All, Passed
    <3>7. ASSUME NEW i \in 1 .. Count, Kind(i) \in {"E", "V"} PROVE f < i
      <4>1. /\ Climbs(Gates \cup {"N", "A", "R", "I", "P"}, {"E"})
            /\ Climbs(Gates \cup {"N", "A", "R", "I", "P", "E"}, {"V"})
        BY <2>1, <2>2, RestClimbs
      <4> HIDE DEF f
      <4>2. QED BY <3>5, <3>7, <4>1 DEF Climbs
    <3>8. ASSUME NEW i \in 1 .. Count, Kind(i) = "E" PROVE Time(f) <= Time(i)
      <4>1. i \in Of(receipt, {"E"}) BY <2>3, <3>8
      <4>2. QED BY <3>3, <3>4, <4>1 DEF NotLater, Time
    <3>9. ASSUME NEW i \in 1 .. Count, Kind(i) \in {"E", "V"} PROVE Time(f) <= Time(i)
      <4>1. PICK j \in 1 .. Count : Kind(j) = "E" BY <2>3, <3>1, SomeIs
      <4>2. CASE Kind(i) = "V"
        <5>1. Time(j) <= Time(i) BY <2>3, <3>4, <4>1, <4>2, InTime
        <5>2. Time(f) <= Time(j) BY <3>8, <4>1
        <5> HIDE DEF f
        <5>3. QED BY <2>3, <3>5, <5>1, <5>2
      <4>3. QED BY <3>8, <3>9, <4>2
    <3> HIDE DEF f
    <3>10. \A i \in Of(receipt, {"E", "V"}) : f < i /\ Time(f) <= Time(i) BY <2>3, <3>7, <3>9
    <3>11. \A i \in Of(receipt, {"E", "V"}) : contract.checkpointAt <= Time(i)
      BY <2>3, <2>4, <2>5, <3>5, <3>10
    <3>12. QED BY <3>6, <3>10, <3>11 DEF f
  <2>9. \A i \in Of(receipt, Gates \cup {"N", "A", "R"}) : Time(i) <= contract.checkpointAt BY <2>3, <2>6
  <2>10. QED BY <2>7, <2>8, <2>9 DEF AuthorityWindow
<1>2. QED BY <1>1, Inductive, RulesInductive, PTL

\* A release that did not succeed is what becomes of the lifecycle (_expected_lifecycle).
LEMMA ReleaseIsLifecycle ==
  ASSUME receipt.release \in {"failed", "indeterminate"}
  PROVE  Lifecycle(receipt) = receipt.release
<1> DEFINE rows == Precedence(receipt)
           hits == {k \in DOMAIN rows : rows[k][1] = rows[k][2]}
           first == CHOOSE k \in hits : \A l \in hits : k <= l
<1>1. CASE ~Issued(receipt) BY <1>1 DEF Lifecycle
<1>2. CASE Issued(receipt)
  <2>1. DOMAIN rows = 1 .. 8 BY DEF Precedence
  <2>2. /\ rows[1][1] = receipt.release /\ rows[1][2] = "indeterminate" /\ rows[1][3] = "indeterminate"
        /\ rows[2][1] = receipt.release /\ rows[2][2] = "failed" /\ rows[2][3] = "failed"
    BY DEF Precedence
  <2>3. Lifecycle(receipt) = IF hits = {} THEN IF receipt.warnings # << >> THEN "indeterminate" ELSE "succeeded"
                             ELSE rows[first][3]
    BY <1>2 DEF Lifecycle
  <2> HIDE DEF rows
  <2>4. CASE receipt.release = "indeterminate"
    <3>1. 1 \in hits BY <2>1, <2>2, <2>4
    <3>2. \A l \in hits : 1 <= l BY <2>1
    <3>3. \A k \in hits : k <= 1 => k = 1 BY <2>1
    <3>4. first = 1 BY <3>1, <3>2, <3>3
    <3>5. QED BY <2>2, <2>3, <2>4, <3>1, <3>4
  <2>5. CASE receipt.release = "failed"
    <3>1. 2 \in hits /\ 1 \notin hits BY <2>1, <2>2, <2>5
    <3>2. \A l \in hits : 2 <= l BY <2>1, <3>1
    <3>3. \A k \in hits : k <= 2 => k = 2 BY <2>1, <3>1
    <3>4. first = 2 BY <3>1, <3>2, <3>3
    <3>5. QED BY <2>2, <2>3, <2>5, <3>1, <3>4
  <2>6. QED BY <2>4, <2>5
<1>3. QED BY <1>1, <1>2

\* A lease was acquired exactly when an acquisition passed.
LEMMA PassedAcquisition ==
  ASSUME Lawful, NEW i \in 1 .. Count, Kind(i) = "A", Passed(i)
  PROVE  Leased
<1>1. submission \in Submissions /\ \A S : Of(receipt, S) = {j \in 1 .. Count : Kind(j) \in S}
  BY LawfulIs, Positions
<1>2. CASE Issued(receipt)
  <2>1. ~Leased => Of(receipt, {"A", "R"}) = {} BY <1>2, PresenceIs
  <2>2. i \in Of(receipt, {"A", "R"}) BY <1>1
  <2>3. QED BY <2>1, <2>2
<1>3. CASE ~Issued(receipt)
  <2> DEFINE r == receipt
             checkpoint == r.origin.checkpoint
             last == LastOf(Controllers(r))
  <2>1. SUFFICES ASSUME ~Leased PROVE FALSE OBVIOUS
  <2>2. "A" \in Ordinary /\ "A" \notin Gates BY GatesAreOthers DEF Letters
  <2>3. /\ Of(r, Ordinary) \subseteq Of(r, Prerequisites(submission)) \cup Of(r, {checkpoint})
        /\ checkpoint \in Gates \cup {"N", "A", "R", "I"}
        /\ last \in Of(r, {checkpoint})
        /\ r.checks[last].outcome \in {"failed", "indeterminate"}
        /\ checkpoint = "A" => One(r, "A")
    BY <1>3, DenialIs
  <2>4. checkpoint # "R" BY <1>3, <2>1, DenialLease
  <2>5. "A" \in Prerequisites(submission) \cup {checkpoint}
    <3>1. i \in Of(r, Ordinary) BY <1>1, <2>2
    <3>2. QED BY <1>1, <2>3, <3>1
  <2>6. "A" \notin Prerequisites(submission)
    <3>1. checkpoint \in {"N", "A"} => Prerequisites(submission) = Gates BY <1>3, PrerequisitesAre
    <3>2. checkpoint = "I" => Prerequisites(submission) = Gates \cup {"N"}
      BY <1>3, <2>1, PrerequisitesAre
    <3>3. CASE checkpoint \in Gates
      <4>1. PICK k \in DOMAIN GTypes : checkpoint = GTypes[k] BY <3>3 DEF Gates
      <4>2. Prerequisites(submission) = {GTypes[l] : l \in 1 .. k - 1} BY <1>3, <4>1, PrerequisitesAre
      <4>3. 1 .. k - 1 \subseteq DOMAIN GTypes BY <4>1, GatesAssumption
      <4>4. Prerequisites(submission) \subseteq Gates BY <4>2, <4>3 DEF Gates
      <4>5. QED BY <2>2, <4>4
    <3>4. QED BY <2>2, <2>3, <2>4, <3>1, <3>2, <3>3
  <2>7. checkpoint = "A" BY <2>5, <2>6
  <2>8. \E j \in 1 .. Count : Of(r, {"A"}) = {j} BY <1>1, <2>3, <2>7, OnlyOne
  <2>9. i \in Of(r, {"A"}) BY <1>1
  <2>10. i = last BY <2>3, <2>7, <2>8, <2>9
  <2>11. QED BY <2>3, <2>10 DEF Passed
<1>4. QED BY <1>2, <1>3

\* A lease that was acquired is released, after everything done under it, and a
\* release that did not succeed is the outcome of the lifecycle and is warned of
\* (_check_contract_source_bindings, _check_outcome_and_finalization).
THEOREM LeaseIsReleased == Spec => []NoLeaseLeftBehind
<1>1. Inv /\ RulesAreKept => NoLeaseLeftBehind
  <2>1. SUFFICES ASSUME Inv, RulesAreKept, Accepted, NEW a \in Of(receipt, {"A"}), Passed(a)
                 PROVE  NoLeaseLeftBehind
    BY DEF NoLeaseLeftBehind
  <2>2. Lawful BY <2>1, AcceptedIsLawful
  <2>3. /\ submission \in Submissions /\ DOMAIN receipt.checks = 1 .. Count
        /\ \A i \in 1 .. Count : Kind(i) \in Ordinary \cup {"L", "F"}
        /\ \A S : Of(receipt, S) = {i \in 1 .. Count : Kind(i) \in S}
    BY <2>2, LawfulIs, Positions
  <2>4. Leased BY <2>1, <2>2, <2>3, PassedAcquisition
  <2> DEFINE releases == Of(receipt, {"L"})
             last == Final(releases)
  <2>5. /\ releases # {}
        /\ receipt.lifecycle = Lifecycle(receipt)
        /\ receipt.release = IF receipt.checks[LastOf(releases)].outcome = "passed" THEN "succeeded"
                             ELSE receipt.checks[LastOf(releases)].outcome
        /\ receipt.checks[LastOf(releases)].outcome = "passed" \/
             \E w \in DOMAIN receipt.warnings :
               receipt.warnings[w].related = receipt.checks[LastOf(releases)].id
        /\ NotLater(receipt, BeforeRelease(receipt), releases)
        /\ Precede(BeforeRelease(receipt), releases)
    BY <2>2, <2>4, EndIs
  <2>6. last = LastOf(releases) /\ last \in releases
    <3>1. releases \subseteq 1 .. Count BY <2>3
    <3>2. QED BY <2>3, <2>5, <3>1, FinalIsLast
  <2>7. ASSUME NEW i \in 1 .. Count, NEW l \in releases, Kind(i) \notin {"L", "F"}
        PROVE  i < l /\ Time(i) <= Time(l)
    <3>1. Kind(i) \in Ordinary /\ Kind(i) # "N"
      <4>1. ~Some(receipt, "N") BY <2>2, <2>4, ShapeIs
      <4>2. QED BY <2>3, <2>7, <4>1, SomeIs
    <3>2. i \in BeforeRelease(receipt)
      <4>1. CASE Issued(receipt) BY <2>3, <3>1, <4>1 DEF BeforeRelease, Issued, PreRelease
      <4>2. CASE ~Issued(receipt) BY <2>3, <2>7, <4>2 DEF BeforeRelease, Issued, NonF, Kind
      <4>3. QED BY <4>1, <4>2
    <3>3. QED BY <2>5, <3>2 DEF NotLater, Precede, Time
  <2>8. \A i \in Of(receipt, {"A", "R", "L"}) :
           receipt.checks[i].lease = submission.sources[1].checkId
    BY <2>2, <2>4, SourceIs
  <2>9. ASSUME ~Passed(last)
        PROVE  /\ receipt.lifecycle = receipt.checks[last].outcome
               /\ \E w \in DOMAIN receipt.warnings :
                    receipt.warnings[w].related = receipt.checks[last].id
    <3>1. last \in 1 .. Count /\ Kind(last) = "L" BY <2>3, <2>6
    <3>2. receipt.checks[last].outcome \in {"failed", "indeterminate"}
      BY <2>2, <2>9, <3>1, ShapeIs DEF Passed
    <3>3. receipt.release = receipt.checks[last].outcome BY <2>5, <2>6, <3>2
    <3>4. Lifecycle(receipt) = receipt.release BY <3>2, <3>3, ReleaseIsLifecycle
    <3>5. QED BY <2>5, <2>6, <3>2, <3>3, <3>4
  <2> HIDE DEF last, releases
  <2>10. QED BY <2>3, <2>5, <2>7, <2>8, <2>9 DEF NoLeaseLeftBehind, last, releases
<1>2. QED BY <1>1, Inductive, RulesInductive, PTL

\* The route is the gates and then the checkpoints of the lease, or of none.
LEMMA RouteIs ==
  ASSUME Lawful, ~Issued(receipt)
  PROVE  LET n == Len(GTypes)
             checkpoint == receipt.origin.checkpoint
         IN /\ n \in Nat /\ DOMAIN GTypes = 1 .. n /\ Gates = {GTypes[l] : l \in 1 .. n}
            /\ \A l \in 1 .. n : l \in DOMAIN Route /\ Route[l] = GTypes[l]
            /\ checkpoint = "A" => n + 1 \in DOMAIN Route /\ Route[n + 1] = "A"
            /\ checkpoint = "N" => n + 1 \in DOMAIN Route /\ Route[n + 1] = "N"
            /\ checkpoint = "R" \/ Leased =>
                 /\ {n + 1, n + 2, n + 3} \subseteq DOMAIN Route
                 /\ Route[n + 1] = "A" /\ Route[n + 2] = "R" /\ Route[n + 3] = "I"
            /\ checkpoint = "I" /\ ~Leased =>
                 /\ {n + 1, n + 2} \subseteq DOMAIN Route
                 /\ Route[n + 1] = "N" /\ Route[n + 2] = "I"
<1> DEFINE n == Len(GTypes)
           checkpoint == receipt.origin.checkpoint
           long == <<"A", "R", "I">>
           short == <<"N", "I">>
           S == Gates \cup {"N", "A", "R", "I"}
<1>1. GTypes \in Seq(S) /\ n \in Nat /\ DOMAIN GTypes = 1 .. n BY GatesAssumption
<1>2. long \in Seq(S) /\ short \in Seq(S) /\ Len(long) = 3 /\ Len(short) = 2 OBVIOUS
<1>3. ASSUME NEW tail \in Seq(S)
      PROVE  /\ DOMAIN (GTypes \o tail) = 1 .. n + Len(tail)
             /\ \A l \in 1 .. n : (GTypes \o tail)[l] = GTypes[l]
             /\ \A l \in 1 .. Len(tail) : (GTypes \o tail)[n + l] = tail[l]
  <2> HIDE DEF S
  <2>1. Len(tail) \in Nat /\ GTypes \o tail \in Seq(S) /\ Len(GTypes \o tail) = n + Len(tail) BY <1>1
  <2>2. \A l \in 1 .. n + Len(tail) :
          (GTypes \o tail)[l] = IF l <= n THEN GTypes[l] ELSE tail[l - n]
    BY <1>1
  <2>3. ASSUME NEW l \in 1 .. Len(tail) PROVE (GTypes \o tail)[n + l] = tail[l]
    <3>1. n + l \in 1 .. n + Len(tail) /\ ~(n + l <= n) /\ n + l - n = l BY <1>1, <2>1
    <3>2. QED BY <2>2, <3>1
  <2>4. \A l \in 1 .. n : (GTypes \o tail)[l] = GTypes[l]
    <3>1. \A l \in 1 .. n : l \in 1 .. n + Len(tail) /\ l <= n BY <1>1, <2>1
    <3>2. QED BY <2>2, <3>1
  <2>5. QED BY <2>1, <2>3, <2>4
<1>4. /\ DOMAIN (GTypes \o long) = 1 .. n + 3
      /\ (GTypes \o long)[n + 1] = "A" /\ (GTypes \o long)[n + 2] = "R" /\ (GTypes \o long)[n + 3] = "I"
  BY <1>2, <1>3
<1>5. /\ DOMAIN (GTypes \o short) = 1 .. n + 2
      /\ (GTypes \o short)[n + 1] = "N" /\ (GTypes \o short)[n + 2] = "I"
  BY <1>2, <1>3
<1> DEFINE far == checkpoint \in {"A", "R"} \/ Leased
<1>6. Route = IF far THEN GTypes \o long ELSE GTypes \o short BY DenialLease DEF Route
<1>7. \A l \in 1 .. n : (GTypes \o long)[l] = GTypes[l] /\ (GTypes \o short)[l] = GTypes[l]
  BY <1>2, <1>3
<1>8. \A l \in 1 .. n : l \in DOMAIN Route /\ Route[l] = GTypes[l]
  BY <1>1, <1>4, <1>5, <1>6, <1>7
<1>9. far => /\ {n + 1, n + 2, n + 3} \subseteq DOMAIN Route
             /\ Route[n + 1] = "A" /\ Route[n + 2] = "R" /\ Route[n + 3] = "I"
  BY <1>1, <1>4, <1>6
<1>10. ~far => /\ {n + 1, n + 2} \subseteq DOMAIN Route
               /\ Route[n + 1] = "N" /\ Route[n + 2] = "I"
  BY <1>1, <1>5, <1>6
<1>11. checkpoint = "N" => ~far BY DenialLease
<1>12. Gates = {GTypes[l] : l \in 1 .. n} BY <1>1 DEF Gates
<1> HIDE DEF n
<1>13. QED BY <1>1, <1>8, <1>9, <1>10, <1>11, <1>12 DEF n

\* What was done before a denial: what had to be, and the denying checkpoint.
LEMMA DoneIs ==
  ASSUME Lawful, ~Issued(receipt)
  PROVE  Types(Of(receipt, Ordinary)) = Prerequisites(submission) \cup {receipt.origin.checkpoint}
<1> DEFINE r == receipt
           checkpoint == r.origin.checkpoint
           required == Prerequisites(submission)
<1>1. submission \in Submissions /\ \A S : Of(r, S) = {i \in 1 .. Count : Kind(i) \in S}
  BY LawfulIs, Positions
<1>2. /\ Of(r, Ordinary) \subseteq Of(r, required) \cup Of(r, {checkpoint})
      /\ \A type \in required : Some(r, type)
      /\ Of(r, {checkpoint}) # {}
      /\ checkpoint \in Gates \cup {"N", "A", "R", "I"}
  BY DenialIs
<1>3. required \subseteq Ordinary
  <2>1. checkpoint \in {"N", "A", "R", "I"} => required \subseteq Ordinary
    BY PrerequisitesAre, GatesAreOthers
  <2>2. CASE checkpoint \in Gates
    <3>1. PICK k \in DOMAIN GTypes : checkpoint = GTypes[k] BY <2>2 DEF Gates
    <3>2. required = {GTypes[l] : l \in 1 .. k - 1} BY <3>1, PrerequisitesAre
    <3>3. 1 .. k - 1 \subseteq DOMAIN GTypes BY <3>1, GatesAssumption
    <3>4. QED BY <3>2, <3>3, GatesAreOthers DEF Gates
  <2>3. QED BY <1>2, <2>1, <2>2
<1> HIDE DEF required
<1>4. Types(Of(r, Ordinary)) = {Kind(i) : i \in Of(r, Ordinary)} BY DEF Types
<1>5. \A type \in required : \E i \in 1 .. Count : Kind(i) = type BY <1>1, <1>2, SomeIs
<1>6. checkpoint \in Ordinary BY <1>2, GatesAreOthers
<1>7. \A type \in required \cup {checkpoint} : \E i \in Of(r, Ordinary) : Kind(i) = type
  BY <1>1, <1>2, <1>3, <1>5, <1>6
<1>8. \A i \in Of(r, Ordinary) : Kind(i) \in required \cup {checkpoint} BY <1>1, <1>2
<1>9. QED BY <1>4, <1>7, <1>8 DEF required

\* A denial ended the lifecycle where it happened: everything before the denying
\* checkpoint was done and passed, nothing beyond it was begun, and the last check
\* of all denied (_check_prefix_and_controller).
THEOREM DenialIsTheEnd == Spec => []DenialStopsTheLifecycle
<1>1. Inv /\ RulesAreKept => DenialStopsTheLifecycle
  <2>1. SUFFICES ASSUME Inv, RulesAreKept, Accepted, ~Issued(receipt) PROVE DenialStopsTheLifecycle
    BY DEF DenialStopsTheLifecycle
  <2>2. Lawful BY <2>1, AcceptedIsLawful
  <2> DEFINE done == Of(receipt, Ordinary)
             denied == {i \in done : ~Passed(i)}
             checkpoint == receipt.origin.checkpoint
             last == LastOf(Controllers(receipt))
             n == Len(GTypes)
  <2>3. /\ submission \in Submissions /\ Count \in Nat /\ done \subseteq 1 .. Count
        /\ \A S : Of(receipt, S) = {i \in 1 .. Count : Kind(i) \in S}
    BY <2>2, LawfulIs, Positions
  <2>4. /\ checkpoint \in Gates \cup {"N", "A", "R", "I"}
        /\ Controllers(receipt) = Of(receipt, {checkpoint})
        /\ last \in Controllers(receipt)
        /\ All(receipt, Of(receipt, Prerequisites(submission)), "passed")
        /\ done \subseteq Of(receipt, Prerequisites(submission)) \cup Controllers(receipt)
        /\ receipt.checks[last].outcome \in {"failed", "indeterminate"}
        /\ All(receipt, Controllers(receipt) \ {last}, "passed")
        /\ Precede(done \ {last}, {last})
    BY <2>1, <2>2, DenialIs
  <2>5. \E k \in DOMAIN Route : Route[k] = checkpoint /\ Types(done) = {Route[l] : l \in 1 .. k}
    <3>1. Types(done) = Prerequisites(submission) \cup {checkpoint} BY <2>1, <2>2, DoneIs
    <3>2. /\ n \in Nat /\ DOMAIN GTypes = 1 .. n /\ Gates = {GTypes[l] : l \in 1 .. n}
          /\ \A l \in 1 .. n : l \in DOMAIN Route /\ Route[l] = GTypes[l]
      BY <2>1, <2>2, RouteIs
    <3> HIDE DEF n, done, checkpoint
    <3>3. CASE checkpoint \in Gates
      <4>1. PICK k \in 1 .. n : checkpoint = GTypes[k] BY <3>2, <3>3
      <4>2. Prerequisites(submission) = {GTypes[l] : l \in 1 .. k - 1}
        BY <2>1, <2>2, <3>2, <4>1, PrerequisitesAre DEF checkpoint
      <4>3. \A l \in 1 .. k : l \in 1 .. k - 1 \/ l = k BY <3>2
      <4>4. \A l \in 1 .. k - 1 : l \in 1 .. k BY <3>2
      <4>5. \A l \in 1 .. k : Route[l] = GTypes[l] BY <3>2
      <4>6. k \in 1 .. k BY <3>2
      <4>7. {Route[l] : l \in 1 .. k} = {GTypes[l] : l \in 1 .. k - 1} \cup {GTypes[k]}
        BY <4>3, <4>4, <4>5, <4>6
      <4>8. QED BY <3>1, <3>2, <4>1, <4>2, <4>7
    <3>4. {Route[l] : l \in 1 .. n + 1} = Gates \cup {Route[n + 1]}
      <4>1. \A l \in 1 .. n + 1 : l \in 1 .. n \/ l = n + 1 BY <3>2
      <4>2. n + 1 \in 1 .. n + 1 /\ 1 .. n \subseteq 1 .. n + 1 BY <3>2
      <4>3. QED BY <3>2, <4>1, <4>2
    <3>5. {Route[l] : l \in 1 .. n + 2} = Gates \cup {Route[n + 1], Route[n + 2]}
      <4>1. \A l \in 1 .. n + 2 : l \in 1 .. n \/ l = n + 1 \/ l = n + 2 BY <3>2
      <4>2. n + 1 \in 1 .. n + 2 /\ n + 2 \in 1 .. n + 2 /\ 1 .. n \subseteq 1 .. n + 2 BY <3>2
      <4>3. QED BY <3>2, <4>1, <4>2
    <3>6. {Route[l] : l \in 1 .. n + 3} = Gates \cup {Route[n + 1], Route[n + 2], Route[n + 3]}
      <4>1. \A l \in 1 .. n + 3 : l \in 1 .. n \/ l = n + 1 \/ l = n + 2 \/ l = n + 3 BY <3>2
      <4>2. /\ n + 1 \in 1 .. n + 3 /\ n + 2 \in 1 .. n + 3 /\ n + 3 \in 1 .. n + 3
            /\ 1 .. n \subseteq 1 .. n + 3
        BY <3>2
      <4>3. QED BY <3>2, <4>1, <4>2
    <3>7. CASE checkpoint \in {"N", "A"}
      <4>1. n + 1 \in DOMAIN Route /\ Route[n + 1] = checkpoint
        BY <2>1, <2>2, <3>7, RouteIs DEF checkpoint, n
      <4>2. Prerequisites(submission) = Gates BY <2>1, <2>2, <3>7, PrerequisitesAre DEF checkpoint
      <4>3. QED BY <3>1, <3>4, <4>1, <4>2
    <3>8. CASE checkpoint = "R"
      <4>1. n + 2 \in DOMAIN Route /\ Route[n + 1] = "A" /\ Route[n + 2] = "R"
        BY <2>1, <2>2, <3>8, RouteIs DEF checkpoint, n
      <4>2. Prerequisites(submission) = Gates \cup {"A"}
        BY <2>1, <2>2, <3>8, PrerequisitesAre DEF checkpoint
      <4>3. QED BY <3>1, <3>5, <3>8, <4>1, <4>2
    <3>9. CASE checkpoint = "I" /\ Leased
      <4>1. n + 3 \in DOMAIN Route /\ Route[n + 1] = "A" /\ Route[n + 2] = "R" /\ Route[n + 3] = "I"
        BY <2>1, <2>2, <3>9, RouteIs DEF checkpoint, n
      <4>2. Prerequisites(submission) = Gates \cup {"A", "R"}
        BY <2>1, <2>2, <3>9, PrerequisitesAre DEF checkpoint
      <4>3. QED BY <3>1, <3>6, <3>9, <4>1, <4>2
    <3>10. CASE checkpoint = "I" /\ ~Leased
      <4>1. n + 2 \in DOMAIN Route /\ Route[n + 1] = "N" /\ Route[n + 2] = "I"
        BY <2>1, <2>2, <3>10, RouteIs DEF checkpoint, n
      <4>2. Prerequisites(submission) = Gates \cup {"N"}
        BY <2>1, <2>2, <3>10, PrerequisitesAre DEF checkpoint
      <4>3. QED BY <3>1, <3>5, <3>10, <4>1, <4>2
    <3>11. QED BY <2>4, <3>3, <3>7, <3>8, <3>9, <3>10
  <2>6. checkpoint \in Ordinary BY <2>4, GatesAreOthers
  <2>7. last \in done /\ Kind(last) = checkpoint BY <2>3, <2>4, <2>6
  <2>8. denied = {last}
    <3>1. ~Passed(last) BY <2>4 DEF Passed
    <3>2. \A i \in done : i # last => Passed(i) BY <2>4 DEF All, Passed
    <3> HIDE DEF last, done
    <3>3. QED BY <2>7, <3>1, <3>2
  <2>9. Final(done) = last
    <3>1. Final(done) \in done /\ \A i \in done : i <= Final(done) BY <2>3, <2>7, FinalIsLast
    <3>2. last <= Final(done) BY <2>7, <3>1
    <3>3. Final(done) # last => Final(done) < last BY <2>4, <3>1 DEF Precede
    <3>4. last \in Nat /\ Final(done) \in Nat BY <2>3, <2>7, <3>1
    <3> HIDE DEF last, done
    <3>5. QED BY <3>2, <3>3, <3>4
  <2>10. Types({last}) = {checkpoint} BY <2>7 DEF Types
  <2>11. contract = Absent BY <2>1, <2>2, PresenceIs
  <2> HIDE DEF last
  <2>12. QED BY <2>5, <2>8, <2>9, <2>10, <2>11 DEF DenialStopsTheLifecycle
<1>2. QED BY <1>1, Inductive, RulesInductive, PTL

\* Numbers have a least one among them.
LEMMA FirstIsIn ==
  ASSUME NEW S, S \subseteq Nat, S # {}
  PROVE  \E k \in S : \A l \in S : k <= l
<1>1. \A y, x \in Nat : y < x => <<y, x>> \in OpToRel(<, Nat) BY DEF OpToRel
<1>2. PICK x \in S : \A y \in S : ~(<<y, x>> \in OpToRel(<, Nat))
  BY NatLessThanWellFounded, WFMin
<1>3. \A y \in S : ~(y < x) BY <1>1, <1>2
<1>4. QED BY <1>3

\* What "succeeded" takes for granted of the phases (_expected_lifecycle).
LEMMA SucceededIs ==
  ASSUME Lifecycle(receipt) = "succeeded"
  PROVE  /\ Issued(receipt) /\ receipt.warnings = << >>
         /\ receipt.release \notin {"failed", "indeterminate"}
         /\ receipt.verification \notin {"failed", "indeterminate"}
         /\ receipt.execution \notin {"failed", "indeterminate", "cancelled", "not-attempted"}
<1> DEFINE rows == Precedence(receipt)
           hits == {k \in DOMAIN rows : rows[k][1] = rows[k][2]}
           first == CHOOSE k \in hits : \A l \in hits : k <= l
<1>1. Issued(receipt) BY DEF Lifecycle
<1>2. Lifecycle(receipt) = IF hits = {} THEN IF receipt.warnings # << >> THEN "indeterminate" ELSE "succeeded"
                           ELSE rows[first][3]
  BY <1>1 DEF Lifecycle
<1>3. DOMAIN rows = 1 .. 8 BY DEF Precedence
<1>4. \A k \in 1 .. 8 : rows[k][3] # "succeeded" BY DEF Precedence
<1>5. hits = {}
  <2>1. SUFFICES ASSUME hits # {} PROVE FALSE OBVIOUS
  <2> HIDE DEF rows
  <2>2. hits \subseteq Nat BY <1>3
  <2>3. first \in hits BY <2>1, <2>2, FirstIsIn
  <2>4. QED BY <1>2, <1>3, <1>4, <2>1, <2>3
<1>6. receipt.warnings = << >> BY <1>2, <1>5
<1>7. /\ rows[1][1] # rows[1][2] /\ rows[2][1] # rows[2][2] /\ rows[3][1] # rows[3][2]
      /\ rows[4][1] # rows[4][2] /\ rows[5][1] # rows[5][2] /\ rows[6][1] # rows[6][2]
      /\ rows[7][1] # rows[7][2] /\ rows[8][1] # rows[8][2]
  <2> HIDE DEF rows
  <2>1. QED BY <1>3, <1>5
<1>8. QED BY <1>1, <1>6, <1>7 DEF Precedence

\* "succeeded" says that it was all done and that it all went well: executed,
\* verified, postconditions checked, changes inside the scope, the lease given back
\* (_check_receipt_remaining, _check_postcondition_bindings and
\* _check_outcome_and_finalization together).
THEOREM SuccessIsDone == Spec => []SucceededMeansDone
<1>1. Inv /\ RulesAreKept => SucceededMeansDone
  <2>1. SUFFICES ASSUME Inv, RulesAreKept, Accepted, receipt.lifecycle = "succeeded"
                 PROVE  SucceededMeansDone
    BY DEF SucceededMeansDone
  <2>2. Lawful BY <2>1, AcceptedIsLawful
  <2>3. /\ submission \in Submissions /\ DOMAIN receipt.checks = 1 .. Count
        /\ \A i \in 1 .. Count : Kind(i) \in Ordinary \cup {"L", "F"}
        /\ \A S : Of(receipt, S) = {i \in 1 .. Count : Kind(i) \in S}
    BY <2>2, LawfulIs, Positions
  <2>4. /\ Issued(receipt) /\ receipt.warnings = << >>
        /\ receipt.release \notin {"failed", "indeterminate"}
        /\ receipt.verification \notin {"failed", "indeterminate"}
        /\ receipt.execution \notin {"failed", "indeterminate", "cancelled", "not-attempted"}
    BY <2>1, <2>2, EndIs, SucceededIs
  <2>5. Attempted(receipt) BY <2>4 DEF Attempted
  <2>6. receipt.execution = "succeeded" /\ receipt.verification = "passed"
    BY <2>2, <2>4, <2>5, ShapeIs
  <2>7. Of(receipt, {"E"}) # {} /\ Of(receipt, {"V"}) # {} BY <2>2, <2>4, <2>5, ShapeIs DEF Some
  <2>8. ASSUME NEW i \in 1 .. Count, Kind(i) # "L"
        PROVE  receipt.checks[i].outcome \in {"passed", "succeeded"}
    <3>1. CASE Kind(i) \in Gates \cup {"R", "N", "I"}
      <4>1. i \in Of(receipt, Gates) \/ i \in Of(receipt, {"R", "N", "I"}) BY <2>3, <3>1
      <4>2. QED BY <2>2, <2>4, <4>1, PrefixIs DEF All
    <3>2. CASE Kind(i) = "A"
      <4>1. i \in Of(receipt, {"A"}) /\ i \in Of(receipt, {"A", "R"}) BY <2>3, <3>2
      <4>2. Leased /\ One(receipt, "A") BY <2>2, <2>4, <4>1, PresenceIs
      <4>3. Only(receipt, "A") = receipt.checks[i] BY <2>3, <4>1, <4>2, OnlyOne
      <4>4. QED BY <2>2, <4>2, <4>3, SourceIs
    <3>3. CASE Kind(i) = "P"
      <4>1. i \in Of(receipt, {"P"}) BY <2>3, <3>3
      <4>2. QED BY <2>2, <2>4, <2>5, <4>1, ExecutionIs DEF All
    <3>4. CASE Kind(i) = "E"
      <4> DEFINE e == Of(receipt, {"E"})
      <4>1. i \in e BY <2>3, <3>4
      <4>2. /\ All(receipt, {j \in e : j # LastOf(e)}, "succeeded")
            /\ receipt.checks[LastOf(e)].outcome = receipt.execution
        BY <2>2, <2>4, <2>7, ExecutionIs
      <4> HIDE DEF e
      <4>3. QED BY <2>6, <4>1, <4>2 DEF All
    <3>5. CASE Kind(i) = "V"
      <4>1. i \in Of(receipt, {"V"}) BY <2>3, <3>5
      <4>2. QED BY <2>2, <2>4, <2>6, <4>1, ExecutionIs DEF All
    <3>6. CASE Kind(i) = "F"
      <4>1. i \in Of(receipt, {"F"}) BY <2>3, <3>6
      <4>2. QED BY <2>2, <4>1, ShapeIs
    <3>7. QED BY <2>3, <2>8, <3>1, <3>2, <3>3, <3>4, <3>5, <3>6, GatesAreOthers
  <2>9. ASSUME Leased PROVE Passed(Final(Of(receipt, {"L"})))
    <3> DEFINE l == Of(receipt, {"L"})
    <3>1. /\ l # {} /\ l \subseteq 1 .. Count
          /\ receipt.release = IF receipt.checks[LastOf(l)].outcome = "passed" THEN "succeeded"
                               ELSE receipt.checks[LastOf(l)].outcome
      BY <2>2, <2>3, <2>9, EndIs
    <3>2. Final(l) = LastOf(l) /\ LastOf(l) \in l BY <2>3, <3>1, FinalIsLast
    <3>3. LastOf(l) \in 1 .. Count /\ Kind(LastOf(l)) = "L" BY <2>3, <3>2
    <3>4. receipt.checks[LastOf(l)].outcome \in {"passed", "failed", "indeterminate"}
      BY <2>2, <3>3, ShapeIs
    <3> HIDE DEF l
    <3>5. receipt.checks[LastOf(l)].outcome = "passed" BY <2>4, <3>1, <3>4
    <3>6. QED BY <3>2, <3>5 DEF Passed, l
  <2>10. contract.posts \subseteq {receipt.checks[i].post : i \in Of(receipt, {"V"})}
    <3>1. contract.posts \subseteq Posts(receipt) BY <2>2, <2>4, <2>5, ChangesAre
    <3>2. QED BY <3>1 DEF Posts
  <2>11. /\ receipt.changed \subseteq contract.paths
         /\ receipt.evidence # Absent => receipt.evidence.operations \subseteq contract.capabilities
    BY <2>2, <2>4, <2>5, <2>6, ChangesAre
  <2>12. QED BY <2>3, <2>4, <2>7, <2>8, <2>9, <2>10, <2>11 DEF SucceededMeansDone
<1>2. QED BY <1>1, Inductive, RulesInductive, PTL

-----------------------------------------------------------------------------
\* The derived chronology, which is computed whether or not the receipt is accepted.

\* The stages up to the remaining chronology, and what they have set of its operands.
BeforeChronology == Early \cup {"contract", "source", "prefix", "prefix chronology", "evidence digest",
                                "remaining", "postconditions", "chronology"}
ReadIsSubmission == bindings \in {submission, [submission EXCEPT !.contract = Absent]}
HeldIsOfPrefix   == at \in BeforeChronology => held \subseteq {"CH08", "CH10"}
DenialIsDated ==
  controllerEqual => /\ ~Issued(receipt) /\ Controllers(receipt) # {}
                     /\ receipt.origin.observedAt = Controller(receipt).observedAt

Chronicle == ReadIsSubmission /\ HeldIsOfPrefix /\ DenialIsDated /\ DerivedIsSound

\* What a display says, one by one.
LEMMA MeaningIs ==
  LET NonFinal == NonF(receipt)
      Finals   == Of(receipt, {"F"})
      denial   == receipt.origin.observedAt
      Until(S, instant) == S # {} /\ \A i \in S : Time(i) <= instant
  IN /\ Meaning(21) <=> receipt.startedAt <= receipt.sanitizedAt
     /\ Meaning(22) <=> receipt.sanitizedAt <= receipt.finishedAt
     /\ Meaning(23) <=> receipt.startedAt <= receipt.finishedAt
     /\ Meaning(24) <=> receipt.startedAt <= denial
     /\ Meaning(25) <=> denial <= receipt.sanitizedAt
     /\ Meaning(26) <=> \A f \in Finals : denial <= Time(f)
     /\ Meaning(27) <=> receipt.startedAt <= contract.issuedAt
     /\ Meaning(28) <=> \A l \in Of(receipt, {"L"}) : denial <= Time(l)
     /\ Meaning(29) <=> \A i \in NonFinal, f \in Finals : Time(i) <= Time(f)
     /\ Meaning(30) <=> Until(Of(receipt, {"R"}), contract.issuedAt)
     /\ Meaning(31) <=> Until(Of(receipt, {"N"}), contract.issuedAt)
BY DEF Meaning

\* The instants that the chronology compares.
LEMMA InstantsAre ==
  ASSUME submission \in Submissions
  PROVE  /\ receipt.startedAt \in Nat /\ receipt.sanitizedAt \in Nat /\ receipt.finishedAt \in Nat
         /\ receipt.origin.observedAt \in Nat
         /\ Issued(receipt) /\ contract # Absent =>
              contract.checkpointAt \in Nat /\ contract.issuedAt \in Nat
BY ReceiptAssumption DEF receipt, contract

\* The relations of the remaining chronology that a display rests on, each from its
\* identifier (_check_remaining_chronology).
LEMMA RelationsAre ==
  ASSUME submission \in Submissions, ReadIsSubmission,
         NEW x \in RemainingRelations(bindings), x[2]
  PROVE  LET r == receipt
             c == contract
             id == x[1]
         IN /\ id \notin {"CH08", "CH10"}
            /\ id = "CH03" => \A i \in DOMAIN r.checks : r.startedAt <= Time(i)
            /\ id = "CH04" => \A i \in NonF(r) : Time(i) <= r.sanitizedAt
            /\ id = "CH17" => \A i \in Of(r, {"F"}) : r.sanitizedAt <= Time(i)
            /\ id = "CH18" => \A i \in Of(r, {"F"}) : Time(i) <= r.finishedAt
            /\ id = "CH01" => Issued(r) /\ c # Absent /\ c.checkpointAt <= c.issuedAt
            /\ id = "CH11" => One(r, "R") /\ Only(r, "R").observedAt <= c.checkpointAt
            /\ id = "CH12" => One(r, "N") /\ Only(r, "N").observedAt <= c.checkpointAt
            /\ id = "CH15/CH16" => NotLater(r, BeforeRelease(r), Of(r, {"L"}))
<1> DEFINE s == bindings
           r == s.receipt
           c == s.contract
           At(i) == r.checks[i].observedAt
           p == Of(r, {"P"})
           l == Of(r, {"L"})
           c03 == \A i \in DOMAIN r.checks : r.startedAt <= At(i)
           c04 == \A i \in NonF(r) : At(i) <= r.sanitizedAt
           c17 == \A i \in Of(r, {"F"}) : r.sanitizedAt <= At(i)
           c18 == \A i \in Of(r, {"F"}) : At(i) <= r.finishedAt
           c01 == c.checkpointAt <= c.issuedAt
           c02 == c.issuedAt < c.expiresAt
           c05 == \A i \in p : r.checks[i].outcome = "passed" => At(i) < c.expiresAt
           c09 == NotLater(r, Of(r, Gates), Of(r, {"N"}))
           c12 == Only(r, "N").observedAt <= c.checkpointAt
           c11 == Only(r, "R").observedAt <= c.checkpointAt
           c13 == c.issuedAt <= Only(r, "I").observedAt
           c14 == NotLater(r, Of(r, {"I"}), p)
           c06 == NotLater(r, {LastOf(p)}, Of(r, {"E"}))
           c07 == NotLater(r, Of(r, {"E"}), Of(r, {"V"}))
           c15 == NotLater(r, BeforeRelease(r), l)
           c20 == \A i, j \in l : i < j => At(i) <= At(j)
           free == ~c.allowWrite /\ One(r, "N")
           leased == c.allowWrite /\ One(r, "R")
           issued == One(r, "I")
           tried == Attempted(r) /\ p # {}
           attempted == Attempted(r)
           bound == Bound(s)
           lease == Stable(s) = "lease"
<1>1. RemainingRelations(s) =
        {<<"CH03", c03>>, <<"CH04", c04>>, <<"CH17", c17>>, <<"CH18", c18>>}
          \cup If(bound,
           {<<"CH01", c01>>, <<"CH02", c02>>, <<"CH05", c05>>}
             \cup If(free, {<<"CH09", c09>>, <<"CH12", c12>>})
             \cup If(leased, {<<"CH11", c11>>})
             \cup If(issued, {<<"CH13", c13>>, <<"CH14", c14>>})
             \cup If(tried, {<<"CH06", c06>>})
             \cup If(attempted, {<<"CH07", c07>>}))
          \cup If(lease, {<<"CH15/CH16", c15>>, <<"CH20", c20>>})
  BY DEF RemainingRelations
<1>2. r = receipt /\ (bound => c = contract /\ Issued(receipt) /\ contract # Absent)
  BY ReceiptAssumption DEF ReadIsSubmission, Bound, receipt, contract
<1> HIDE DEF c01, c02, c03, c04, c05, c06, c07, c09, c11, c12, c13, c14, c15, c17, c18, c20,
             free, leased, issued, tried, attempted, bound, lease
<1>3. /\ x[1] \notin {"CH08", "CH10"}
      /\ x[1] = "CH03" => c03
      /\ x[1] = "CH04" => c04
      /\ x[1] = "CH17" => c17
      /\ x[1] = "CH18" => c18
      /\ x[1] = "CH01" => bound /\ c01
      /\ x[1] = "CH11" => bound /\ leased /\ c11
      /\ x[1] = "CH12" => bound /\ free /\ c12
      /\ x[1] = "CH15/CH16" => c15
  BY <1>1 DEF If
<1>4. QED BY <1>2, <1>3 DEF c01, c03, c04, c11, c12, c15, c17, c18, free, leased, Time

\* What the operands of the displays stand for (_derive_chronology_relations).
LEMMA OperandsAre ==
  ASSUME submission \in Submissions, ReadIsSubmission, DenialIsDated,
         NEW o \in Operands(bindings, controllerEqual)
  PROVE  /\ o = "nonF" => NonF(receipt) # {}
         /\ o = "F" => One(receipt, "F")
         /\ o = "R" => One(receipt, "R")
         /\ o = "N" => One(receipt, "N")
         /\ o = "denial" => /\ LastOf(Controllers(receipt)) \in NonF(receipt) \cap BeforeRelease(receipt)
                            /\ receipt.origin.observedAt = Time(LastOf(Controllers(receipt)))
<1>1. bindings.receipt = receipt BY ReceiptAssumption DEF ReadIsSubmission, receipt
<1>2. /\ o = "nonF" => NonF(receipt) # {}
      /\ o = "F" => One(receipt, "F")
      /\ o = "R" => One(receipt, "R")
      /\ o = "N" => One(receipt, "N")
      /\ o = "denial" => ~Issued(receipt) /\ controllerEqual
  BY <1>1 DEF Operands, If
<1>3. ASSUME o = "denial"
      PROVE  /\ LastOf(Controllers(receipt)) \in NonF(receipt) \cap BeforeRelease(receipt)
             /\ receipt.origin.observedAt = Time(LastOf(Controllers(receipt)))
  <2> DEFINE checkpoint == receipt.origin.checkpoint
             last == LastOf(Controllers(receipt))
  <2>1. /\ ~Issued(receipt) /\ Controllers(receipt) # {}
        /\ receipt.origin.observedAt = receipt.checks[last].observedAt
    BY <1>2, <1>3 DEF DenialIsDated, Controller
  <2>2. checkpoint \in Gates \cup {"N", "A", "R", "I"} BY <2>1, ReceiptAssumption DEF receipt
  <2>3. checkpoint \notin {"L", "F"} BY <2>2, GatesAreOthers DEF Letters
  <2>4. Controllers(receipt) = {i \in 1 .. Count : Kind(i) = checkpoint} /\ Count \in Nat
    <3>1. Of(receipt, {checkpoint}) = {i \in 1 .. Count : Kind(i) \in {checkpoint}} BY Positions
    <3>2. QED BY <3>1, Positions DEF Controllers
  <2>5. last \in Controllers(receipt) BY <2>1, <2>4, LastIsIn
  <2>6. last \in 1 .. Count /\ Kind(last) = checkpoint BY <2>4, <2>5
  <2> HIDE DEF last
  <2>7. last \in NonF(receipt) BY <2>3, <2>6, Positions DEF NonF, Kind
  <2>8. last \in BeforeRelease(receipt)
    BY <2>1, <2>3, <2>6, <2>7, Positions DEF BeforeRelease, Issued, Kind
  <2>9. QED BY <2>1, <2>7, <2>8 DEF last, Time
<1>4. QED BY <1>2, <1>3

\* Premises and operands of a display make what it says true
\* (_derive_chronology_relations).
LEMMA DisplaysAreTrue ==
  ASSUME submission \in Submissions, ReadIsSubmission, DenialIsDated, NEW old, old \subseteq {"CH08", "CH10"},
         NEW now, now = old \cup {x[1] : x \in {each \in RemainingRelations(bindings) : each[2]}},
         NEW number \in Derived(now, Operands(bindings, controllerEqual))
  PROVE  Meaning(number)
<1> DEFINE ops == Operands(bindings, controllerEqual)
           last == LastOf(Controllers(receipt))
           denial == receipt.origin.observedAt
           F == Of(receipt, {"F"})
           L == Of(receipt, {"L"})
<1>1. PICK d \in Displays(ops) : d.premises \subseteq now /\ d.operands \subseteq ops /\ number = d.number
  BY DEF Derived
<1>2. \A id \in now : id \notin {"CH08", "CH10"} => \E x \in RemainingRelations(bindings) : x[1] = id /\ x[2]
  OBVIOUS
<1>3. /\ "CH03" \in now => \A i \in DOMAIN receipt.checks : receipt.startedAt <= Time(i)
      /\ "CH04" \in now => \A i \in NonF(receipt) : Time(i) <= receipt.sanitizedAt
      /\ "CH17" \in now => \A i \in F : receipt.sanitizedAt <= Time(i)
      /\ "CH18" \in now => \A i \in F : Time(i) <= receipt.finishedAt
      /\ "CH01" \in now => Issued(receipt) /\ contract # Absent /\ contract.checkpointAt <= contract.issuedAt
      /\ "CH11" \in now => One(receipt, "R") /\ Only(receipt, "R").observedAt <= contract.checkpointAt
      /\ "CH12" \in now => One(receipt, "N") /\ Only(receipt, "N").observedAt <= contract.checkpointAt
      /\ "CH15/CH16" \in now => NotLater(receipt, BeforeRelease(receipt), L)
  BY <1>2, RelationsAre
<1>4. /\ "nonF" \in ops => NonF(receipt) # {}
      /\ "F" \in ops => One(receipt, "F")
      /\ "R" \in ops => One(receipt, "R")
      /\ "N" \in ops => One(receipt, "N")
      /\ "denial" \in ops => last \in NonF(receipt) \cap BeforeRelease(receipt) /\ denial = Time(last)
  BY OperandsAre
<1>5. /\ receipt.startedAt \in Nat /\ receipt.sanitizedAt \in Nat /\ receipt.finishedAt \in Nat
      /\ denial \in Nat
      /\ "CH01" \in now => contract.checkpointAt \in Nat /\ contract.issuedAt \in Nat
  BY <1>3, InstantsAre
<1>6. /\ DOMAIN receipt.checks = 1 .. Count /\ NonF(receipt) \subseteq 1 .. Count
      /\ F \subseteq 1 .. Count /\ L \subseteq 1 .. Count
      /\ \A i \in 1 .. Count : Time(i) \in Nat
      /\ \A S : Of(receipt, S) = {i \in 1 .. Count : Kind(i) \in S}
  BY Positions DEF NonF
<1>7. "F" \in ops => F # {} BY <1>4, OnlyOne
<1>8. ASSUME NEW type, One(receipt, type), Only(receipt, type).observedAt <= contract.checkpointAt
      PROVE  Of(receipt, {type}) # {} /\ \A i \in Of(receipt, {type}) : Time(i) <= contract.checkpointAt
  <2>1. PICK i \in 1 .. Count : Of(receipt, {type}) = {i} /\ Only(receipt, type) = receipt.checks[i]
    BY <1>8, OnlyOne
  <2>2. QED BY <1>8, <2>1 DEF Time
<1> HIDE DEF ops, last, denial, F, L
<1>9. \/ number = 21 /\ {"CH03", "CH04"} \subseteq now /\ "nonF" \in ops
      \/ number = 22 /\ {"CH17", "CH18"} \subseteq now /\ "F" \in ops
      \/ number = 23 /\ {"CH03", "CH04", "CH17", "CH18"} \subseteq now /\ {"nonF", "F"} \subseteq ops
      \/ number = 24 /\ "CH03" \in now /\ "denial" \in ops
      \/ number = 25 /\ "CH04" \in now /\ "denial" \in ops
      \/ number = 26 /\ {"CH04", "CH17"} \subseteq now /\ {"denial", "F"} \subseteq ops
      \/ number = 27 /\ {"CH03", "CH01"} \subseteq now /\ ("CH11" \in now \/ "CH12" \in now)
      \/ number = 28 /\ "CH15/CH16" \in now /\ {"denial", "L"} \subseteq ops
      \/ number = 29 /\ {"CH04", "CH17"} \subseteq now /\ {"nonF", "F"} \subseteq ops
      \/ number = 30 /\ {"CH11", "CH01"} \subseteq now /\ "R" \in ops
      \/ number = 31 /\ {"CH12", "CH01"} \subseteq now /\ "N" \in ops
  BY <1>1 DEF Displays, Display
<1>10. CASE number = 21 /\ {"CH03", "CH04"} \subseteq now /\ "nonF" \in ops
  <2>1. PICK i \in NonF(receipt) : TRUE BY <1>4, <1>10
  <2>2. receipt.startedAt <= receipt.sanitizedAt BY <1>3, <1>5, <1>6, <1>10, <2>1
  <2>3. QED BY <1>10, <2>2, MeaningIs
<1>11. CASE number = 22 /\ {"CH17", "CH18"} \subseteq now /\ "F" \in ops
  <2>1. PICK f \in F : TRUE BY <1>7, <1>11
  <2>2. receipt.sanitizedAt <= receipt.finishedAt BY <1>3, <1>5, <1>6, <1>11, <2>1
  <2>3. QED BY <1>11, <2>2, MeaningIs
<1>12. CASE number = 23 /\ {"CH03", "CH04", "CH17", "CH18"} \subseteq now /\ {"nonF", "F"} \subseteq ops
  <2>1. PICK f \in F : TRUE BY <1>7, <1>12
  <2>2. receipt.startedAt <= receipt.finishedAt BY <1>3, <1>5, <1>6, <1>12, <2>1
  <2>3. QED BY <1>12, <2>2, MeaningIs
<1>13. CASE number = 24 /\ "CH03" \in now /\ "denial" \in ops
  <2>1. receipt.startedAt <= denial BY <1>3, <1>4, <1>6, <1>13
  <2>2. QED BY <1>13, <2>1, MeaningIs DEF denial
<1>14. CASE number = 25 /\ "CH04" \in now /\ "denial" \in ops
  <2>1. denial <= receipt.sanitizedAt BY <1>3, <1>4, <1>14
  <2>2. QED BY <1>14, <2>1, MeaningIs DEF denial
<1>15. CASE number = 26 /\ {"CH04", "CH17"} \subseteq now /\ {"denial", "F"} \subseteq ops
  <2>1. denial <= receipt.sanitizedAt BY <1>3, <1>4, <1>15
  <2>2. \A f \in F : denial <= Time(f) BY <1>3, <1>5, <1>6, <1>15, <2>1
  <2>3. QED BY <1>15, <2>2, MeaningIs DEF denial, F
<1>16. CASE number = 27 /\ {"CH03", "CH01"} \subseteq now /\ ("CH11" \in now \/ "CH12" \in now)
  <2>1. \E type : Of(receipt, {type}) # {} /\ \A i \in Of(receipt, {type}) : Time(i) <= contract.checkpointAt
    BY <1>3, <1>8, <1>16
  <2>2. PICK i \in 1 .. Count : Time(i) <= contract.checkpointAt BY <1>6, <2>1
  <2>3. receipt.startedAt <= Time(i) /\ contract.checkpointAt <= contract.issuedAt BY <1>3, <1>6, <1>16
  <2>4. receipt.startedAt <= contract.issuedAt BY <1>5, <1>6, <1>16, <2>2, <2>3
  <2>5. QED BY <1>16, <2>4, MeaningIs
<1>17. CASE number = 28 /\ "CH15/CH16" \in now /\ {"denial", "L"} \subseteq ops
  <2>1. \A l \in L : denial <= Time(l) BY <1>3, <1>4, <1>17 DEF NotLater, Time
  <2>2. QED BY <1>17, <2>1, MeaningIs DEF denial, L
<1>18. CASE number = 29 /\ {"CH04", "CH17"} \subseteq now /\ {"nonF", "F"} \subseteq ops
  <2>1. \A i \in NonF(receipt), f \in F : Time(i) <= Time(f) BY <1>3, <1>5, <1>6, <1>18
  <2>2. QED BY <1>18, <2>1, MeaningIs DEF F
<1>19. CASE number = 30 /\ {"CH11", "CH01"} \subseteq now /\ "R" \in ops
  <2>1. Of(receipt, {"R"}) # {} /\ \A i \in Of(receipt, {"R"}) : Time(i) <= contract.checkpointAt
    BY <1>3, <1>8, <1>19
  <2>2. \A i \in Of(receipt, {"R"}) : Time(i) <= contract.issuedAt
    BY <1>3, <1>5, <1>6, <1>19, <2>1
  <2>3. QED BY <1>19, <2>1, <2>2, MeaningIs
<1>20. CASE number = 31 /\ {"CH12", "CH01"} \subseteq now /\ "N" \in ops
  <2>1. Of(receipt, {"N"}) # {} /\ \A i \in Of(receipt, {"N"}) : Time(i) <= contract.checkpointAt
    BY <1>3, <1>8, <1>20
  <2>2. \A i \in Of(receipt, {"N"}) : Time(i) <= contract.issuedAt
    BY <1>3, <1>5, <1>6, <1>20, <2>1
  <2>3. QED BY <1>20, <2>1, <2>2, MeaningIs
<1>21. QED BY <1>9, <1>10, <1>11, <1>12, <1>13, <1>14, <1>15, <1>16, <1>17, <1>18, <1>19, <1>20

\* The contract is read as it is or left out.
LEMMA ViewIs ==
  ASSUME NEW reading \in ContractReadings
  PROVE  reading.view \in {submission, [submission EXCEPT !.contract = Absent]}
<1> DEFINE bound == [submission EXCEPT !.contract = Absent]
           missing == [view |-> bound, c |-> Unavailable(ctx, "PROOF.CONTRACT_BINDING", TRUE)]
           refused == [view |-> bound, c |-> Report(ctx, {"VALIDATOR.STRUCTURED_ERRORS"})]
           unread  == [view |-> bound, c |-> Unavailable(ctx, "VALIDATOR.STRUCTURED_ERRORS", TRUE)]
           read    == [view |-> submission, c |-> ctx]
           gap     == [read EXCEPT !.c = LeaveUnevaluated(Unavailable(ctx, "ARRAY.01", FALSE))]
<1>1. reading \in {missing, refused, unread, read, gap} BY DEF ContractReadings, If
<1>2. missing.view = bound /\ refused.view = bound /\ unread.view = bound OBVIOUS
<1>3. read.view = submission /\ gap.view = submission OBVIOUS
<1> HIDE DEF missing, refused, unread, read, gap
<1>4. QED BY <1>1, <1>2, <1>3

LEMMA InitChronicle == Init => Chronicle
BY DEF Init, Chronicle, ReadIsSubmission, HeldIsOfPrefix, DenialIsDated, DerivedIsSound

LEMMA SoundStays == DerivedIsSound /\ submission' = submission /\ derived' = derived => DerivedIsSound'
<1>1. SUFFICES ASSUME DerivedIsSound, submission' = submission, derived' = derived, NEW number \in derived
               PROVE  Meaning(number)'
  BY DEF DerivedIsSound
<1>2. Meaning(number) BY <1>1 DEF DerivedIsSound
<1>3. QED BY <1>1, <1>2 DEF Meaning, NonF, Of, Time, receipt, contract

LEMMA DatedStays ==
  DenialIsDated /\ submission' = submission /\ controllerEqual' = controllerEqual => DenialIsDated'
BY DEF DenialIsDated, Issued, Controllers, Controller, Of, LastOf, receipt

\* The stages that leave the bindings and the relations alone.
LEMMA Keeping ==
  ASSUME Chronicle, NEW stage, NEW k, Go(stage, k), stage \in BeforeChronology => at \in BeforeChronology,
         UNCHANGED <<bindings, controllerEqual, held, derived>>
  PROVE  Chronicle'
<1>1. submission' = submission /\ at' = stage BY DEF Go
<1>2. DerivedIsSound' /\ DenialIsDated' BY <1>1, SoundStays, DatedStays DEF Chronicle
<1>3. QED BY <1>1, <1>2 DEF Chronicle, ReadIsSubmission, HeldIsOfPrefix

\* Every step of the call keeps the chronicle.
LEMMA NextChronicle == Inv /\ Chronicle /\ [Next]_vars => Chronicle'
<1> SUFFICES ASSUME Inv, Chronicle, [Next]_vars PROVE Chronicle' OBVIOUS
<1> USE DEF Bindings, Relations, Here
<1>s. submission \in Submissions BY DEF Inv, StateTypes
<1>b. /\ \A stage \in Early \cup {"contract", "source", "prefix", "prefix chronology", "evidence digest",
                                  "remaining", "postconditions", "chronology"} : stage \in BeforeChronology
      /\ {"finalization", "receipt digest", "finish", "over"} \cap BeforeChronology = {}
  BY DEF BeforeChronology, Early
<1>1. CASE ValidateShape
  <2>1. at = "shape" /\ UNCHANGED <<bindings, controllerEqual, held, derived>> BY <1>1 DEF ValidateShape
  <2>2. \E stage, k : Go(stage, k) BY <1>1 DEF ValidateShape
  <2>3. QED BY <1>b, <2>1, <2>2, Keeping DEF Early
<1>2. CASE RequireInput
  <2>1. at = "input" /\ UNCHANGED <<bindings, controllerEqual, held, derived>> BY <1>2 DEF RequireInput
  <2>2. \E stage, k : Go(stage, k) BY <1>2 DEF RequireInput
  <2>3. QED BY <1>b, <2>1, <2>2, Keeping DEF Early
<1>3. CASE PrepareSequenceSelectors
  <2>1. at = "sequences" /\ UNCHANGED <<bindings, controllerEqual, held, derived>>
    BY <1>3 DEF PrepareSequenceSelectors
  <2>2. \E stage, k : Go(stage, k) BY <1>3 DEF PrepareSequenceSelectors
  <2>3. QED BY <1>b, <2>1, <2>2, Keeping DEF Early
<1>4. CASE CheckReceiptPresence
  <2>1. /\ at = "presence" /\ submission' = submission
        /\ UNCHANGED <<controllerEqual, held, derived>>
        /\ \E reading \in ContractReadings : bindings' = reading.view
    BY <1>4 DEF CheckReceiptPresence, Go
  <2>2. \A reading \in ContractReadings : reading.view \in {submission, [submission EXCEPT !.contract = Absent]}
    BY ViewIs
  <2>3. DerivedIsSound' /\ DenialIsDated' BY <2>1, SoundStays, DatedStays DEF Chronicle
  <2>4. HeldIsOfPrefix' BY <1>b, <2>1 DEF Chronicle, HeldIsOfPrefix, Early
  <2>5. QED BY <2>1, <2>2, <2>3, <2>4 DEF Chronicle, ReadIsSubmission
<1>5. CASE BindContract
  <2>1. at = "contract" /\ UNCHANGED <<bindings, controllerEqual, held, derived>> BY <1>5 DEF BindContract
  <2>2. \E stage, k : Go(stage, k) BY <1>5 DEF BindContract
  <2>3. QED BY <1>b, <2>1, <2>2, Keeping
<1>6. CASE BindSource
  <2>1. at = "source" /\ UNCHANGED <<bindings, controllerEqual, held, derived>> BY <1>6 DEF BindSource
  <2>2. \E stage, k : Go(stage, k) BY <1>6 DEF BindSource
  <2>3. QED BY <1>b, <2>1, <2>2, Keeping
<1>7. CASE CheckPrefixAndController
  <2>1. /\ at = "prefix" /\ submission' = submission /\ UNCHANGED <<bindings, held, derived>>
        /\ controllerEqual' = (/\ ~Issued(receipt) /\ Controllers(receipt) # {}
                               /\ receipt.origin.observedAt = Controller(receipt).observedAt)
    BY <1>7 DEF CheckPrefixAndController, Go
  <2>2. receipt' = receipt BY <2>1 DEF receipt
  <2>3. DenialIsDated' BY <2>1, <2>2 DEF DenialIsDated, Issued, Controllers, Controller, Of, LastOf
  <2>4. DerivedIsSound' BY <2>1, SoundStays DEF Chronicle
  <2>5. HeldIsOfPrefix' BY <1>b, <2>1 DEF Chronicle, HeldIsOfPrefix
  <2>6. QED BY <2>1, <2>3, <2>4, <2>5 DEF Chronicle, ReadIsSubmission
<1>8. CASE CheckPrefixChronology
  <2>1. /\ at = "prefix chronology" /\ submission' = submission
        /\ UNCHANGED <<bindings, controllerEqual, derived>>
        /\ held' = held \cup {x[1] : x \in {each \in PrefixRelations(bindings) : each[2]}}
    BY <1>8 DEF CheckPrefixChronology, Relate, Go
  <2>2. \A x \in PrefixRelations(bindings) : x[1] \in {"CH08", "CH10"} BY DEF PrefixRelations, If
  <2>3. held' \subseteq {"CH08", "CH10"} BY <1>b, <2>1, <2>2 DEF Chronicle, HeldIsOfPrefix
  <2>4. DerivedIsSound' /\ DenialIsDated' BY <2>1, SoundStays, DatedStays DEF Chronicle
  <2>5. QED BY <2>1, <2>3, <2>4 DEF Chronicle, ReadIsSubmission, HeldIsOfPrefix
<1>9. CASE CheckEvidenceDigest
  <2>1. at = "evidence digest" /\ UNCHANGED <<bindings, controllerEqual, held, derived>>
    BY <1>9 DEF CheckEvidenceDigest
  <2>2. \E stage, k : Go(stage, k) BY <1>9 DEF CheckEvidenceDigest
  <2>3. QED BY <1>b, <2>1, <2>2, Keeping
<1>10. CASE CheckReceiptRemaining
  <2>1. at = "remaining" /\ UNCHANGED <<bindings, controllerEqual, held, derived>>
    BY <1>10 DEF CheckReceiptRemaining
  <2>2. \E stage, k : Go(stage, k) BY <1>10 DEF CheckReceiptRemaining
  <2>3. QED BY <1>b, <2>1, <2>2, Keeping
<1>11. CASE CheckPostconditionBindings
  <2>1. at = "postconditions" /\ UNCHANGED <<bindings, controllerEqual, held, derived>>
    BY <1>11 DEF CheckPostconditionBindings
  <2>2. \E stage, k : Go(stage, k) BY <1>11 DEF CheckPostconditionBindings
  <2>3. QED BY <1>b, <2>1, <2>2, Keeping
<1>12. CASE CheckRemainingChronology
  <2>1. /\ at = "chronology" /\ at' = "finalization" /\ submission' = submission
        /\ UNCHANGED <<bindings, controllerEqual>>
        /\ held' = held \cup {x[1] : x \in {each \in RemainingRelations(bindings) : each[2]}}
        /\ derived' = Derived(held', Operands(bindings, controllerEqual))
    BY <1>12 DEF CheckRemainingChronology, Relate, Go
  <2>2. held \subseteq {"CH08", "CH10"} BY <1>b, <2>1 DEF Chronicle, HeldIsOfPrefix
  <2>3. \A number \in derived' : Meaning(number) BY <1>s, <2>1, <2>2, DisplaysAreTrue DEF Chronicle
  <2>4. \A number : Meaning(number) => Meaning(number)'
    BY <2>1 DEF Meaning, NonF, Of, Time, receipt, contract
  <2>5. DerivedIsSound' BY <2>3, <2>4 DEF DerivedIsSound
  <2>6. DenialIsDated' BY <2>1, DatedStays DEF Chronicle
  <2>7. QED BY <1>b, <2>1, <2>5, <2>6 DEF Chronicle, ReadIsSubmission, HeldIsOfPrefix
<1>13. CASE CheckOutcomeAndFinalization
  <2>1. UNCHANGED <<bindings, controllerEqual, held, derived>> BY <1>13 DEF CheckOutcomeAndFinalization
  <2>2. \E k : Go("receipt digest", k) BY <1>13 DEF CheckOutcomeAndFinalization
  <2>3. QED BY <1>b, <2>1, <2>2, Keeping
<1>14. CASE CheckReceiptDigest
  <2>1. UNCHANGED <<bindings, controllerEqual, held, derived>> BY <1>14 DEF CheckReceiptDigest
  <2>2. \E k : Go("finish", k) BY <1>14 DEF CheckReceiptDigest
  <2>3. QED BY <1>b, <2>1, <2>2, Keeping
<1>15. CASE FinishResult
  <2>1. /\ at' = "over" /\ submission' = submission
        /\ UNCHANGED <<bindings, controllerEqual, held, derived>>
    BY <1>15 DEF FinishResult
  <2>2. DerivedIsSound' /\ DenialIsDated' BY <2>1, SoundStays, DatedStays DEF Chronicle
  <2>3. QED BY <1>b, <2>1, <2>2 DEF Chronicle, ReadIsSubmission, HeldIsOfPrefix
<1>16. CASE UNCHANGED vars
  <2>1. /\ submission' = submission /\ at' = at
        /\ UNCHANGED <<bindings, controllerEqual, held, derived>>
    BY <1>16 DEF vars
  <2>2. DerivedIsSound' /\ DenialIsDated' BY <2>1, SoundStays, DatedStays DEF Chronicle
  <2>3. QED BY <2>1, <2>2 DEF Chronicle, ReadIsSubmission, HeldIsOfPrefix
<1>17. QED BY <1>1, <1>2, <1>3, <1>4, <1>5, <1>6, <1>7, <1>8, <1>9, <1>10, <1>11, <1>12, <1>13,
              <1>14, <1>15, <1>16 DEF Next

\* A derived display is true of the receipt, also of one that is not accepted and
\* of which some relation fails (_derive_chronology_relations).
THEOREM DisplaysAreSound == Spec => []DerivedIsSound
<1>1. Chronicle => DerivedIsSound BY DEF Chronicle
<1>2. QED BY <1>1, InitChronicle, NextChronicle, Inductive, PTL DEF Spec

-----------------------------------------------------------------------------
\* A submission that breaks no rule is not refuted by anybody's silence: a
\* fourth inductive invariant, Innocent.  A call for such a submission finds
\* nothing, and whatever it leaves open it owes to an answer that stayed out.

\* A submission that breaks no rule, read in full.
Blameless ==
  /\ Lawful /\ submission.mismatched = {}
  /\ Issued(receipt) => Violated(ContractRules(submission)) = {}

\* Nothing was found against the call, and what is left open is owed to somebody.
Calm(c) == Well(c) /\ ~c.failed /\ (c.unevaluated => c.required # {})

LEMMA CalmReport ==
  ASSUME NEW c, Calm(c), NEW v, v = {}
  PROVE  Calm(Report(c, v)) /\ Report(c, v).required = c.required
<1>1. PICK U : c \in ContextType(U, Handles) BY DEF Calm, Well
<1>2. Well(Report(c, v)) BY ReportFacts DEF Calm, Moves
<1>3. Report(c, v).unevaluated = c.unevaluated /\ Report(c, v).required = c.required /\ Report(c, v).failed = c.failed
  BY <1>1 DEF Report, ContextType, Calm
<1>4. QED BY <1>2, <1>3 DEF Calm

LEMMA CalmUnavailable ==
  ASSUME NEW c, Calm(c), NEW q, NEW direct \in BOOLEAN
  PROVE  Calm(Unavailable(c, q, direct)) /\ Unavailable(c, q, direct).required # {}
<1>1. PICK U : c \in ContextType(U, Handles) BY DEF Calm, Well
<1>2. Well(Unavailable(c, q, direct)) BY UnavailableFacts DEF Calm, Moves
<1>3. Unavailable(c, q, direct).required = c.required \cup {q} /\ Unavailable(c, q, direct).failed = c.failed
  BY <1>1 DEF Unavailable, ContextType
<1>4. QED BY <1>2, <1>3 DEF Calm

LEMMA CalmLeave ==
  ASSUME NEW c, Calm(c), c.required # {}
  PROVE  Calm(LeaveUnevaluated(c)) /\ LeaveUnevaluated(c).required # {}
<1>1. PICK U : c \in ContextType(U, Handles) BY DEF Calm, Well
<1>2. Well(LeaveUnevaluated(c)) BY LeaveFacts DEF Calm, Moves
<1>3. LeaveUnevaluated(c).required = c.required /\ LeaveUnevaluated(c).failed = c.failed
  BY <1>1 DEF LeaveUnevaluated, ContextType
<1>4. QED BY <1>2, <1>3 DEF Calm

LEMMA CalmAsked ==
  ASSUME NEW c, Calm(c), NEW q, NEW h \in Handles, NEW k \in Asked(c, q, h)
  PROVE  /\ Calm(k) /\ (c.required # {} => k.required # {})
         /\ ~Holds(k, h) => k.required # {}
         /\ k.required # c.required => k.required # {}
<1>1. PICK U : c \in ContextType(U, Handles) BY DEF Calm, Well
<1>2. CASE k = Consume(c, h)
  <2>1. Well(k) /\ Holds(k, h) BY <1>2, ConsumeFacts DEF Calm, Moves
  <2>2. k.required = c.required /\ k.failed = c.failed /\ k.unevaluated = c.unevaluated
    BY <1>1, <1>2 DEF Consume, ContextType
  <2>3. QED BY <2>1, <2>2 DEF Calm
<1>3. CASE k = Unavailable(c, q, FALSE) BY <1>3, CalmUnavailable
<1>4. QED BY <1>2, <1>3 DEF Asked, If

\* The submission as the later stages see it if its contract could not be read.
Unread == [submission EXCEPT !.contract = Absent]

Innocent ==
  Blameless =>
    /\ Calm(ctx) /\ (~identityValid => ctx.required # {})
    /\ \/ bindings = submission
       \/ /\ bindings = Unread /\ Issued(receipt) /\ ctx.required # {}
          /\ at \in {"contract", "source", "receipt digest", "finish", "over"}

\* The submission stays, and with it whether it breaks a rule.
LEMMA StillBlameless == ASSUME submission' = submission, Blameless' PROVE Blameless
BY DEF Blameless, Lawful, Settled, receipt, contract, RemainingRules, DenialRules

LEMMA InitInnocent == Init => Innocent
<1>1. Well(NewContext) BY NewFacts
<1>2. Calm(NewContext) BY <1>1 DEF Calm, NewContext
<1>3. QED BY <1>2 DEF Init, Innocent

\* A stage that goes on with a calm context and the same bindings.
LEMMA GoCalmly ==
  ASSUME Innocent, NEW k, NEW stage, Go(stage, k), bindings' = bindings,
         Blameless => /\ Calm(k) /\ (ctx.required # {} => k.required # {})
                      /\ ~identityValid' => k.required # {}
                      /\ bindings = submission \/ stage \in {"contract", "source", "receipt digest", "finish", "over"}
  PROVE  Innocent'
<1>1. SUFFICES ASSUME Blameless' PROVE /\ Calm(ctx') /\ (~identityValid' => ctx'.required # {})
                                       /\ \/ bindings' = submission'
                                          \/ /\ bindings' = Unread' /\ Issued(receipt)' /\ ctx'.required # {}
                                             /\ at' \in {"contract", "source", "receipt digest", "finish", "over"}
  BY DEF Innocent, Calm, Well
<1>2. submission' = submission /\ ctx' = k /\ at' = stage BY DEF Go
<1>3. Blameless BY <1>1, <1>2, StillBlameless
<1>4. Unread' = Unread /\ (Issued(receipt)' <=> Issued(receipt)) BY <1>2 DEF Unread, Issued, receipt
<1>5. QED BY <1>2, <1>3, <1>4 DEF Innocent

\* With bindings that are the submission, the context calm and no rule violated.
LEMMA ReportCalmly ==
  ASSUME Innocent, NEW rules, NEW stage, Go(stage, Report(ctx, Violated(rules))), bindings' = bindings,
         Blameless => /\ Violated(rules) = {} /\ (~identityValid' => ~identityValid)
                      /\ bindings = submission \/ stage \in {"contract", "source", "receipt digest", "finish", "over"}
  PROVE  Innocent'
<1>1. ASSUME Blameless
      PROVE  LET k == Report(ctx, Violated(rules)) IN Calm(k) /\ k.required = ctx.required
  BY <1>1, CalmReport DEF Innocent
<1>2. Blameless => (~identityValid => ctx.required # {}) BY DEF Innocent
<1>3. QED BY <1>1, <1>2, GoCalmly

\* The bindings are the submission at the stages that an unread contract skips.
LEMMA BoundHere ==
  ASSUME Innocent, Blameless, at \notin {"contract", "source", "receipt digest", "finish", "over"}
  PROVE  bindings = submission
BY DEF Innocent

LEMMA ShapeInnocent == Inv /\ Innocent /\ ValidateShape => Innocent'
<1>1. SUFFICES ASSUME Inv, Innocent, ValidateShape PROVE Innocent' OBVIOUS
<1>2. at = "shape" /\ bindings' = bindings /\ identityValid' = identityValid BY <1>1 DEF ValidateShape, Here, Bindings
<1>3. CASE Shaped(receipt) /\ Go("input", ctx) BY <1>1, <1>2, <1>3, BoundHere, GoCalmly DEF Innocent
<1>4. CASE ~Shaped(receipt) /\ Go("finish", LeaveUnevaluated(Report(ctx, {"VALIDATOR.STRUCTURED_ERRORS"})))
  <2>1. ~Blameless BY <1>4, LawfulIs DEF Blameless
  <2>2. QED BY <1>1, <1>2, <1>4, <2>1, GoCalmly
<1>5. CASE Go("finish", Unavailable(ctx, "VALIDATOR.STRUCTURED_ERRORS", TRUE))
  <2>1. Blameless => Calm(Unavailable(ctx, "VALIDATOR.STRUCTURED_ERRORS", TRUE))
                     /\ Unavailable(ctx, "VALIDATOR.STRUCTURED_ERRORS", TRUE).required # {}
    BY <1>1, CalmUnavailable DEF Innocent
  <2>2. QED BY <1>1, <1>2, <1>5, <2>1, GoCalmly
<1>6. QED BY <1>1, <1>3, <1>4, <1>5 DEF ValidateShape

LEMMA InputInnocent == Inv /\ Innocent /\ RequireInput => Innocent'
<1>1. SUFFICES ASSUME Inv, Innocent, RequireInput PROVE Innocent' OBVIOUS
<1>2. /\ at = "input" /\ bindings' = bindings /\ identityValid' = identityValid /\ "input" \in Handles
  BY <1>1 DEF RequireInput, Here, Bindings, Handles
<1>3. PICK c \in Asked(ctx, "PROOF.INPUT", "input") : Go("sequences", c) BY <1>1 DEF RequireInput
<1>4. Blameless => Calm(c) /\ (ctx.required # {} => c.required # {}) BY <1>1, <1>2, <1>3, CalmAsked DEF Innocent
<1>5. QED BY <1>1, <1>2, <1>3, <1>4, BoundHere, GoCalmly DEF Innocent

LEMMA PrepareInnocent == Inv /\ Innocent /\ PrepareSequenceSelectors => Innocent'
<1>1. SUFFICES ASSUME Inv, Innocent, PrepareSequenceSelectors PROVE Innocent' OBVIOUS
<1>2. /\ at = "sequences" /\ bindings' = bindings /\ identityValid' = identityValid
  BY <1>1 DEF PrepareSequenceSelectors, Here, Bindings
<1>3. CASE Sequenced(receipt) /\ Go("presence", ctx) BY <1>1, <1>2, <1>3, BoundHere, GoCalmly DEF Innocent
<1>4. CASE ~Sequenced(receipt) /\ Go("finish", Report(ctx, {"ARRAY.46"}))
  <2>1. ~Blameless BY <1>4, LawfulIs DEF Blameless
  <2>2. QED BY <1>1, <1>2, <1>4, <2>1, GoCalmly
<1>5. QED BY <1>1, <1>3, <1>4 DEF PrepareSequenceSelectors

\* Presence is judged alike with the contract and without it: it only knows less.
LEMMA UnreadPresence ==
  ASSUME submission \in Submissions, Issued(receipt), Violated(PresenceRules(submission)) = {}
  PROVE  Violated(PresenceRules(Unread)) = {}
<1> DEFINE Warned  == \A i \in DOMAIN receipt.warnings :
                        receipt.warnings[i].related \in {0} \cup {receipt.checks[j].id : j \in DOMAIN receipt.checks}
           Sourced == \A k \in DOMAIN submission.sources : submission.sources[k].shaped
           Prefixed == \A g \in Gates : Some(receipt, g)
           Phased  == IF Attempted(receipt) THEN Some(receipt, "P") /\ Some(receipt, "E") /\ Some(receipt, "V")
                      ELSE Of(receipt, {"E", "V"}) = {}
           always  == {<<"RF04", Some(receipt, "F")>>, <<"RECEIPT.WARN_REFS", Warned>>,
                       <<"RECEIPT.SOURCE_SHAPE", Sourced>>}
           issued  == {<<"AI01", Prefixed>>, <<"AI07", One(receipt, "I")>>, <<"RECEIPT.PEV_CARD", Phased>>}
<1>1. Unread.receipt = receipt /\ Unread.contract = Absent /\ Unread.sources = submission.sources
  BY ReceiptAssumption DEF Unread, receipt
<1>2. ~Bound(Unread) /\ Stable(Unread) = "unknown" BY <1>1 DEF Bound, Stable, receipt
<1>3. always \subseteq PresenceRules(submission) BY DEF PresenceRules, receipt
<1>4. issued \subseteq PresenceRules(submission) BY DEF PresenceRules, receipt, If
<1>5. \A x \in always \cup issued : x[2] BY <1>3, <1>4, AllHold
<1>6. PresenceRules(Unread) \subseteq {<<"RECEIPT.DENIAL_MATRIX", Issued(receipt) \/ Unread.contract = Absent>>} \cup always \cup issued
  BY <1>1, <1>2 DEF PresenceRules, If
<1>7. <<"RECEIPT.DENIAL_MATRIX", Issued(receipt) \/ Unread.contract = Absent>>[2] BY <1>1
<1> HIDE DEF always, issued
<1>8. \A x \in PresenceRules(Unread) : x[2] BY <1>5, <1>6, <1>7
<1>9. QED BY <1>8 DEF Violated

\* The readings of a contract that is there and of its schema.
LEMMA LawfulReadings ==
  ASSUME Issued(receipt) => contract # Absent /\ contract.shaped, NEW reading \in ContractReadings
  PROVE  \/ reading.view = submission /\ reading.c = ctx
         \/ /\ Issued(receipt) /\ reading.view = Unread
            /\ reading.c = Unavailable(ctx, "VALIDATOR.STRUCTURED_ERRORS", TRUE)
         \/ /\ reading.view = submission
            /\ reading.c = LeaveUnevaluated(Unavailable(ctx, "ARRAY.01", FALSE))
<1> DEFINE Reading(view, c) == [view |-> view, c |-> c]
           unread == Reading(Unread, Unavailable(ctx, "VALIDATOR.STRUCTURED_ERRORS", TRUE))
           read == Reading(submission, ctx)
           gap == [read EXCEPT !.c = LeaveUnevaluated(Unavailable(ctx, "ARRAY.01", FALSE))]
<1>1. CASE ~Issued(receipt)
  <2>1. reading = read BY <1>1 DEF ContractReadings
  <2>2. QED BY <2>1
<1>2. CASE Issued(receipt)
  <2>1. submission.contract # Absent /\ submission.contract.shaped BY <1>2 DEF contract
  <2>2. reading \in {read} \cup If(Fails("validator"), {unread}) \cup If(Fails("remotes") /\ submission.contract.shaped, {gap})
    BY <1>2, <2>1 DEF ContractReadings, Unread
  <2>3. reading = read \/ reading = unread \/ reading = gap BY <2>2 DEF If
  <2> DEFINE later == LeaveUnevaluated(Unavailable(ctx, "ARRAY.01", FALSE))
             open == Unavailable(ctx, "VALIDATOR.STRUCTURED_ERRORS", TRUE)
  <2> HIDE DEF later, open
  <2>4. gap = [read EXCEPT !.c = later] /\ unread = Reading(Unread, open) BY DEF later, open
  <2> HIDE DEF gap, unread
  <2>5. /\ read.view = submission /\ read.c = ctx /\ gap.view = submission /\ gap.c = later
        /\ unread.view = Unread /\ unread.c = open
    BY <2>4
  <2> HIDE DEF read, Reading
  <2>6. QED BY <1>2, <2>3, <2>5 DEF later, open
<1>3. QED BY <1>1, <1>2

LEMMA PresenceInnocent == Inv /\ Innocent /\ CheckReceiptPresence => Innocent'
<1>1. SUFFICES ASSUME Inv, Innocent, CheckReceiptPresence, Blameless PROVE Innocent'
  BY StillBlameless DEF CheckReceiptPresence, Go, Innocent
<1>2. submission \in Submissions /\ at = "presence" /\ identityValid' = identityValid /\ identityValid
  BY <1>1 DEF CheckReceiptPresence, Here, Inv, StateTypes, IdentityIsValid, Early
<1>3. PICK reading \in ContractReadings :
        LET c == Report(reading.c, Violated(PresenceRules(reading.view)))
            open == Unavailable(c, "VALIDATOR.STRUCTURED_ERRORS", TRUE)
        IN /\ \E d \in {c} \cup If(Fails("validator") /\ submission.sources # << >>, {open}) :
                Go(IF d.failed THEN "receipt digest" ELSE "contract", d)
           /\ bindings' = reading.view
  BY <1>1 DEF CheckReceiptPresence
<1> DEFINE view == reading.view
           c == Report(reading.c, Violated(PresenceRules(view)))
           open == Unavailable(c, "VALIDATOR.STRUCTURED_ERRORS", TRUE)
<1>4. PICK d \in {c, open} : Go(IF d.failed THEN "receipt digest" ELSE "contract", d) BY <1>3 DEF If
<1>5. Calm(ctx) /\ Lawful BY <1>1 DEF Innocent, Blameless
<1>6. Violated(PresenceRules(submission)) = {} /\ (Issued(receipt) => contract # Absent /\ contract.shaped)
  BY <1>5, LawfulIs
<1>7. /\ Calm(reading.c)
      /\ view = submission \/ (view = Unread /\ Issued(receipt) /\ reading.c.required # {})
  <2> DEFINE gap == LeaveUnevaluated(Unavailable(ctx, "ARRAY.01", FALSE))
             unread == Unavailable(ctx, "VALIDATOR.STRUCTURED_ERRORS", TRUE)
  <2>1. Calm(gap)
    <3>1. Calm(Unavailable(ctx, "ARRAY.01", FALSE)) /\ Unavailable(ctx, "ARRAY.01", FALSE).required # {}
      BY <1>5, CalmUnavailable
    <3>2. QED BY <3>1, CalmLeave
  <2>2. Calm(unread) /\ unread.required # {} BY <1>5, CalmUnavailable
  <2>3. \/ view = submission /\ reading.c = ctx
        \/ Issued(receipt) /\ view = Unread /\ reading.c = unread
        \/ view = submission /\ reading.c = gap
    BY <1>3, <1>6, LawfulReadings
  <2> HIDE DEF gap, unread
  <2>4. QED BY <1>5, <2>1, <2>2, <2>3
<1>8. Violated(PresenceRules(view)) = {} BY <1>2, <1>6, <1>7, UnreadPresence
<1>9. Calm(c) /\ c.required = reading.c.required BY <1>7, <1>8, CalmReport
<1>10. Calm(open) /\ open.required # {}
  <2> HIDE DEF c
  <2>1. QED BY <1>9, CalmUnavailable
<1>11. Calm(d) /\ ~d.failed /\ (reading.c.required # {} => d.required # {}) BY <1>4, <1>9, <1>10 DEF Calm
<1> HIDE DEF c, open
<1>12. ctx' = d /\ at' = "contract" /\ submission' = submission BY <1>4, <1>11 DEF Go
<1>13. bindings' = view BY <1>3
<1>14. Unread' = Unread /\ (Issued(receipt)' <=> Issued(receipt)) BY <1>12 DEF Unread, Issued, receipt
<1>15. QED BY <1>2, <1>7, <1>11, <1>12, <1>13, <1>14 DEF Innocent, Calm, Well

LEMMA ContractInnocent == Inv /\ Innocent /\ BindContract => Innocent'
<1>1. SUFFICES ASSUME Inv, Innocent, BindContract, Blameless PROVE Innocent'
  BY StillBlameless DEF BindContract, Go, Innocent
<1>2. /\ at = "contract" /\ bindings' = bindings /\ identityValid
      /\ "completed" \in Handles /\ "contract digest" \in Handles
  BY <1>1 DEF BindContract, Here, Inv, IdentityIsValid, Handles, Digests
<1> DEFINE Bind(k) == Go("source", k) /\ identityValid' = (identityValid /\ Clean(k))
<1>3. Calm(ctx) BY <1>1 DEF Innocent
<1>4. ASSUME NEW k, Bind(k), Calm(k), ctx.required # {} => k.required # {},
             k.required # ctx.required => k.required # {}
      PROVE  Innocent'
  <2>1. ~identityValid' => k.required # {} BY <1>2, <1>4 DEF Clean, Calm
  <2>2. QED BY <1>1, <1>2, <1>4, <2>1, GoCalmly
<1>5. CASE Bind(ctx) BY <1>3, <1>4, <1>5
<1>6. CASE ~Bound(bindings) /\ Issued(receipt) /\ Go("source", ctx) /\ identityValid' = FALSE
  <2>1. Issued(receipt) /\ bindings # submission
    <3>1. Lawful BY <1>1 DEF Blameless
    <3>2. contract # Absent BY <1>6, <3>1, LawfulIs
    <3>3. Bound(submission) BY <1>6, <3>2 DEF Bound, contract, receipt
    <3>4. QED BY <1>6, <3>3
  <2>2. ctx.required # {} BY <1>1, <2>1 DEF Innocent
  <2>3. QED BY <1>1, <1>2, <1>3, <1>6, <2>2, GoCalmly
<1>7. ASSUME Issued(receipt), Bound(bindings), NEW c \in Asked(ctx, "PROOF.CONTRACT_BINDING", "completed"),
             \/ Bind(c)
             \/ Bind(Unavailable(c, "PROOF.CONTRACT_BINDING", TRUE))
             \/ \E d \in Asked(c, "RC02", "contract digest") :
                  \/ Bind(d)
                  \/ Bind(Report(Compared(d, "RC02", "contract digest"), Violated(ContractRules(bindings))))
      PROVE  Innocent'
  <2>1. /\ Calm(c) /\ (ctx.required # {} => c.required # {})
        /\ c.required # ctx.required => c.required # {}
    BY <1>2, <1>3, <1>7, CalmAsked
  <2>2. CASE Bind(c) BY <1>4, <2>1, <2>2
  <2>3. CASE Bind(Unavailable(c, "PROOF.CONTRACT_BINDING", TRUE)) BY <1>4, <2>1, <2>3, CalmUnavailable
  <2>4. ASSUME NEW d \in Asked(c, "RC02", "contract digest"),
               \/ Bind(d)
               \/ Bind(Report(Compared(d, "RC02", "contract digest"), Violated(ContractRules(bindings))))
        PROVE  Innocent'
    <3>1. /\ Calm(d) /\ (c.required # {} => d.required # {})
          /\ d.required # c.required => d.required # {}
      BY <1>2, <2>1, <2>4, CalmAsked
    <3>2. ctx.required # {} => d.required # {} BY <2>1, <3>1
    <3>3. d.required # ctx.required => d.required # {} BY <2>1, <3>1
    <3>4. CASE Bind(d) BY <1>4, <3>1, <3>2, <3>3, <3>4
    <3>5. CASE Bind(Report(Compared(d, "RC02", "contract digest"), Violated(ContractRules(bindings))))
      <4>1. Compared(d, "RC02", "contract digest") = d BY <1>1 DEF Compared, Blameless
      <4>2. bindings = submission
        <5>1. bindings = Unread => bindings.contract = Absent
          BY <1>1, ReceiptAssumption DEF Unread, Inv, StateTypes
        <5>2. QED BY <1>1, <1>7, <5>1 DEF Innocent, Bound
      <4>3. Violated(ContractRules(bindings)) = {} BY <1>1, <1>7, <4>2 DEF Blameless
      <4>4. Bind(Report(d, Violated(ContractRules(bindings)))) BY <3>5, <4>1
      <4>5. /\ Calm(Report(d, Violated(ContractRules(bindings))))
            /\ Report(d, Violated(ContractRules(bindings))).required = d.required
        BY <3>1, <4>3, CalmReport
      <4>6. QED BY <1>4, <3>2, <3>3, <4>4, <4>5
    <3>6. QED BY <2>4, <3>4, <3>5
  <2>5. QED BY <1>7, <2>2, <2>3, <2>4
<1>8. QED BY <1>1, <1>5, <1>6, <1>7 DEF BindContract

LEMMA SourceInnocent == Inv /\ Innocent /\ BindSource => Innocent'
<1>1. SUFFICES ASSUME Inv, Innocent, BindSource, Blameless PROVE Innocent'
  BY StillBlameless DEF BindSource, Go, Innocent
<1>2. /\ at = "source" /\ bindings' = bindings /\ "source digest" \in Handles
      /\ Calm(ctx) /\ (~identityValid => ctx.required # {}) /\ Lawful
  BY <1>1 DEF BindSource, Here, Innocent, Blameless, Handles, Digests
<1>3. bindings = submission \/ (bindings = Unread /\ Issued(receipt) /\ ctx.required # {})
  BY <1>1 DEF Innocent
<1> DEFINE Bind(k, valid) ==
             LET identity == identityValid /\ valid /\ ~k.failed
             IN /\ identityValid' = identity
                /\ IF identity THEN Go("prefix", k) ELSE Go("receipt digest", LeaveUnevaluated(k))
<1>4. ASSUME NEW k, NEW valid \in BOOLEAN, Bind(k, valid), Calm(k), ctx.required # {} => k.required # {},
             ~valid => k.required # {}, valid => bindings = submission
      PROVE  Innocent'
  <2>1. CASE identityValid /\ valid
    <3>1. Go("prefix", k) /\ identityValid' BY <1>4, <2>1 DEF Calm
    <3>2. QED BY <1>1, <1>2, <1>4, <2>1, <3>1, GoCalmly
  <2>2. CASE ~(identityValid /\ valid)
    <3>1. Go("receipt digest", LeaveUnevaluated(k)) BY <1>4, <2>2
    <3>2. k.required # {} BY <1>2, <1>4, <2>2
    <3>3. Calm(LeaveUnevaluated(k)) /\ LeaveUnevaluated(k).required # {} BY <1>4, <3>2, CalmLeave
    <3>4. QED BY <1>1, <1>2, <3>1, <3>3, GoCalmly
  <2>3. QED BY <2>1, <2>2
<1>5. CASE Bind(ctx, Stable(bindings) # "unknown")
  <2>1. Stable(bindings) = "unknown" => bindings # submission
    <3>1. ASSUME bindings = submission, Issued(receipt) PROVE Bound(bindings)
      BY <1>2, <3>1, LawfulIs DEF Bound, contract, receipt
    <3>2. bindings.receipt = receipt BY <1>1 DEF Inv, StateTypes, receipt
    <3>3. QED BY <3>1, <3>2 DEF Stable
  <2>2. Stable(bindings) # "unknown" => bindings = submission
    <3>1. bindings = Unread => bindings.receipt = receipt /\ bindings.contract = Absent
      BY <1>1, ReceiptAssumption DEF Unread, receipt, Inv, StateTypes
    <3>2. bindings = Unread /\ Issued(receipt) => Stable(bindings) = "unknown" BY <3>1 DEF Stable, Bound
    <3>3. QED BY <1>3, <3>2
  <2>3. QED BY <1>2, <1>3, <1>4, <1>5, <2>1, <2>2
<1>6. ASSUME Stable(bindings) = "lease", NEW c \in Asked(ctx, "PROOF.SOURCE_DIGEST", "source digest"),
             IF ~Holds(c, "source digest") THEN Bind(c, FALSE)
             ELSE Bind(Report(Compared(c, "AI19", "source digest"), Violated(SourceRules(bindings))), TRUE)
      PROVE  Innocent'
  <2>1. /\ Calm(c) /\ (ctx.required # {} => c.required # {})
        /\ ~Holds(c, "source digest") => c.required # {}
    BY <1>2, <1>6, CalmAsked
  <2>2. CASE ~Holds(c, "source digest")
    <3>1. Bind(c, FALSE) BY <1>6, <2>2
    <3>2. QED BY <1>4, <2>1, <2>2, <3>1
  <2>3. CASE Holds(c, "source digest")
    <3>1. Compared(c, "AI19", "source digest") = c BY <1>1 DEF Compared, Blameless
    <3>2. bindings = submission
      <4>1. bindings = Unread => bindings.receipt = receipt /\ bindings.contract = Absent
        BY <1>1, ReceiptAssumption DEF Unread, receipt, Inv, StateTypes
      <4>2. bindings = Unread /\ Issued(receipt) => Stable(bindings) = "unknown" BY <4>1 DEF Stable, Bound
      <4>3. QED BY <1>3, <1>6, <4>2
    <3>3. Violated(SourceRules(bindings)) = {} BY <1>2, <1>6, <3>2, LawfulIs
    <3>4. /\ Calm(Report(c, Violated(SourceRules(bindings))))
          /\ Report(c, Violated(SourceRules(bindings))).required = c.required
      BY <2>1, <3>3, CalmReport
    <3>5. Bind(Report(c, Violated(SourceRules(bindings))), TRUE) BY <1>6, <2>3, <3>1
    <3>6. QED BY <1>4, <2>1, <3>2, <3>4, <3>5
  <2>4. QED BY <2>2, <2>3
<1>7. CASE Bind(Unavailable(ctx, "VALIDATOR.STRUCTURED_ERRORS", TRUE), FALSE)
  <2>1. /\ Calm(Unavailable(ctx, "VALIDATOR.STRUCTURED_ERRORS", TRUE))
        /\ Unavailable(ctx, "VALIDATOR.STRUCTURED_ERRORS", TRUE).required # {}
    BY <1>2, CalmUnavailable
  <2>2. QED BY <1>4, <1>7, <2>1
<1>8. QED BY <1>1, <1>5, <1>6, <1>7 DEF BindSource

LEMMA PrefixInnocent == Inv /\ Innocent /\ CheckPrefixAndController => Innocent'
<1>1. SUFFICES ASSUME Inv, Innocent, CheckPrefixAndController, Blameless PROVE Innocent'
  BY StillBlameless DEF CheckPrefixAndController, Go, Innocent
<1> DEFINE found == PrefixRules(bindings)
                      \cup (IF Issued(receipt) THEN {} ELSE PrerequisiteRules(bindings))
                      \cup (IF Issued(receipt) \/ Controllers(receipt) = {} THEN {}
                            ELSE ControllerRules(bindings))
           c == Report(ctx, Violated(found))
<1>2. /\ at = "prefix" /\ bindings' = bindings /\ Go("prefix chronology", c)
      /\ identityValid' = (Issued(receipt) \/ ~c.failed)
  BY <1>1 DEF CheckPrefixAndController, Here
<1>3. bindings = submission /\ Calm(ctx) /\ Lawful BY <1>1, <1>2, BoundHere DEF Innocent, Blameless
<1>4. Violated(found) = {}
  <2>1. Violated(PrefixRules(submission)) = {} BY <1>3, LawfulIs
  <2>2. ~Issued(receipt) => Violated(PrerequisiteRules(submission)) = {} /\ Violated(ControllerRules(submission)) = {}
    BY <1>3, LawfulIs DEF DenialRules, Violated
  <2>3. QED BY <1>3, <2>1, <2>2 DEF Violated
<1> HIDE DEF found
<1>5. Calm(c) /\ c.required = ctx.required BY <1>3, <1>4, CalmReport
<1>6. identityValid' BY <1>2, <1>5 DEF Calm
<1> HIDE DEF c
<1>7. QED BY <1>1, <1>2, <1>3, <1>5, <1>6, GoCalmly

LEMMA PrefixChronologyInnocent == Inv /\ Innocent /\ CheckPrefixChronology => Innocent'
<1>1. SUFFICES ASSUME Inv, Innocent, CheckPrefixChronology PROVE Innocent' OBVIOUS
<1>2. /\ at = "prefix chronology" /\ bindings' = bindings /\ identityValid' = identityValid
      /\ Go("evidence digest", Report(ctx, Violated(PrefixRelations(bindings))))
  BY <1>1 DEF CheckPrefixChronology, Here, Relate, Bindings
<1>3. Blameless => bindings = submission BY <1>1, <1>2, BoundHere
<1>4. Blameless => Violated(PrefixRelations(bindings)) = {} BY <1>3, LawfulIs DEF Blameless
<1>5. QED BY <1>1, <1>2, <1>3, <1>4, ReportCalmly

LEMMA EvidenceInnocent == Inv /\ Innocent /\ CheckEvidenceDigest => Innocent'
<1>1. SUFFICES ASSUME Inv, Innocent, CheckEvidenceDigest, Blameless PROVE Innocent'
  BY StillBlameless DEF CheckEvidenceDigest, Go, Compared, Innocent
<1>2. /\ at = "evidence digest" /\ bindings' = bindings /\ identityValid' = identityValid
      /\ "evidence digest" \in Handles
  BY <1>1 DEF CheckEvidenceDigest, Here, Bindings, Handles, Digests
<1>3. bindings = submission /\ Calm(ctx) BY <1>1, <1>2, BoundHere DEF Innocent
<1>4. CASE Go("remaining", ctx) BY <1>1, <1>2, <1>3, <1>4, GoCalmly DEF Innocent
<1>5. ASSUME NEW c \in Asked(ctx, "PROOF.DENIAL_DIGEST", "evidence digest"),
             Go("remaining", Compared(c, "PROOF.DENIAL_DIGEST", "evidence digest"))
      PROVE  Innocent'
  <2>1. Compared(c, "PROOF.DENIAL_DIGEST", "evidence digest") = c BY <1>1 DEF Compared, Blameless
  <2>2. Go("remaining", c) BY <1>5, <2>1
  <2>3. Calm(c) /\ (ctx.required # {} => c.required # {}) BY <1>2, <1>3, <1>5, CalmAsked
  <2>4. QED BY <1>1, <1>2, <1>3, <2>2, <2>3, GoCalmly DEF Innocent
<1>6. QED BY <1>1, <1>4, <1>5 DEF CheckEvidenceDigest

\* What stays open of the scope leaves less to object to.
LEMMA OpenScope ==
  ASSUME NEW s, Violated(ScopeRules(s, {})) = {}, NEW open
  PROVE  Violated(ScopeRules(s, open)) = {}
<1> DEFINE r == s.receipt
           checks == {i \in Of(r, {"V"}) : r.checks[i].post = "scope-contained"}
           operations == IF r.evidence = Absent THEN {} ELSE r.evidence.operations
           Held(left) == /\ operations \subseteq s.contract.capabilities
                         /\ (Carried(r) \cup r.changed) \ left \subseteq s.contract.paths
                         /\ checks # {} /\ r.checks[LastOf(checks)].outcome = "passed"
<1>1. <<"RECEIPT.SCOPE", Held({})>> \in ScopeRules(s, {}) BY DEF ScopeRules
<1>2. Held({}) BY <1>1, Obeyed
<1>3. ScopeRules(s, open) = {<<"RECEIPT.SCOPE", Held(open)>>} BY DEF ScopeRules
<1>4. Held(open) BY <1>2
<1> HIDE DEF Held
<1>5. <<"RECEIPT.SCOPE", Held(open)>>[2] BY <1>4
<1>6. QED BY <1>3, <1>5 DEF Violated

LEMMA RemainingInnocent == Inv /\ Innocent /\ CheckReceiptRemaining => Innocent'
<1>1. SUFFICES ASSUME Inv, Innocent, CheckReceiptRemaining, Blameless PROVE Innocent'
  BY StillBlameless DEF CheckReceiptRemaining, Go, Innocent
<1> DEFINE c == Report(ctx, Violated(ExecutionRules(receipt)))
           carried == Report(c, Violated(CarrierRules(bindings)))
           requirement == IF Holds(c, "input") THEN "D10.path-proof-unavailable" ELSE "PROOF.INPUT"
           Gap(open) == IF open = {} THEN carried ELSE Unavailable(carried, requirement, TRUE)
           Scoped(open) == Report(Gap(open), Violated(ScopeRules(bindings, open)))
<1>2. at = "remaining" /\ bindings' = bindings /\ identityValid' = identityValid
  BY <1>1 DEF CheckReceiptRemaining, Bindings, Here
<1>3. \/ ~Issued(receipt) /\ Go("postconditions", ctx)
      \/ Issued(receipt) /\ ~ScopeDue(bindings) /\ Go("postconditions", carried)
      \/ Issued(receipt) /\ ScopeDue(bindings) /\ \E open : Go("postconditions", Scoped(open))
  BY <1>1 DEF CheckReceiptRemaining
<1>4. bindings = submission /\ Calm(ctx) /\ Lawful BY <1>1, <1>2, BoundHere DEF Innocent, Blameless
<1>5. ASSUME NEW k, Go("postconditions", k), Calm(k), ctx.required # {} => k.required # {}
      PROVE  Innocent'
  BY <1>1, <1>2, <1>4, <1>5, GoCalmly DEF Innocent
<1>6. CASE ~Issued(receipt) /\ Go("postconditions", ctx) BY <1>4, <1>5, <1>6
<1>7. ASSUME Issued(receipt) PROVE Calm(carried) /\ carried.required = ctx.required
  <2>1. Violated(RemainingRules(submission)) = {} BY <1>4, <1>7, LawfulIs
  <2>2. Violated(ExecutionRules(receipt)) = {} /\ Violated(CarrierRules(bindings)) = {}
    BY <1>4, <2>1 DEF RemainingRules, Violated, receipt
  <2>3. Calm(c) /\ c.required = ctx.required BY <1>4, <2>2, CalmReport
  <2> HIDE DEF c
  <2>4. QED BY <2>2, <2>3, CalmReport
<1> HIDE DEF c, carried, requirement
<1>8. CASE Issued(receipt) /\ ~ScopeDue(bindings) /\ Go("postconditions", carried) BY <1>5, <1>7, <1>8
<1>9. ASSUME Issued(receipt), ScopeDue(bindings), NEW open, Go("postconditions", Scoped(open)) PROVE Innocent'
  <2>1. Calm(Gap(open)) /\ (ctx.required # {} => Gap(open).required # {})
    <3>1. CASE open = {} BY <1>7, <1>9, <3>1
    <3>2. CASE open # {}
      <4>1. Calm(Unavailable(carried, requirement, TRUE)) /\ Unavailable(carried, requirement, TRUE).required # {}
        BY <1>7, <1>9, CalmUnavailable
      <4>2. QED BY <3>2, <4>1
    <3>3. QED BY <3>1, <3>2
  <2>2. Violated(ScopeRules(bindings, open)) = {}
    <3>1. Violated(RemainingRules(submission)) = {} BY <1>4, <1>9, LawfulIs
    <3>2. Violated(ScopeRules(bindings, {})) = {} BY <1>4, <1>9, <3>1 DEF RemainingRules, Violated, If
    <3>3. QED BY <3>2, OpenScope
  <2> HIDE DEF Gap
  <2>3. Calm(Scoped(open)) /\ Scoped(open).required = Gap(open).required BY <2>1, <2>2, CalmReport
  <2> HIDE DEF Scoped
  <2>4. QED BY <1>5, <1>9, <2>1, <2>3
<1>10. QED BY <1>3, <1>6, <1>8, <1>9

LEMMA PostconditionsInnocent == Inv /\ Innocent /\ CheckPostconditionBindings => Innocent'
<1>1. SUFFICES ASSUME Inv, Innocent, CheckPostconditionBindings PROVE Innocent' OBVIOUS
<1>2. at = "postconditions" /\ bindings' = bindings /\ identityValid' = identityValid
  BY <1>1 DEF CheckPostconditionBindings, Here, Bindings
<1>3. Blameless => bindings = submission BY <1>1, <1>2, BoundHere
<1>4. CASE Issued(receipt) /\ Go("chronology", Report(ctx, Violated(PostconditionRules(bindings))))
  <2>1. Blameless => Violated(PostconditionRules(bindings)) = {} BY <1>3, <1>4, LawfulIs DEF Blameless
  <2>2. QED BY <1>1, <1>2, <1>3, <1>4, <2>1, ReportCalmly
<1>5. CASE ~Issued(receipt) /\ Go("chronology", ctx) BY <1>1, <1>2, <1>3, <1>5, GoCalmly DEF Innocent
<1>6. QED BY <1>1, <1>4, <1>5 DEF CheckPostconditionBindings

LEMMA ChronologyInnocent == Inv /\ Innocent /\ CheckRemainingChronology => Innocent'
<1>1. SUFFICES ASSUME Inv, Innocent, CheckRemainingChronology PROVE Innocent' OBVIOUS
<1>2. /\ at = "chronology" /\ bindings' = bindings /\ identityValid' = identityValid
      /\ Go("finalization", Report(ctx, Violated(RemainingRelations(bindings))))
  BY <1>1 DEF CheckRemainingChronology, Here, Relate, Bindings
<1>3. Blameless => bindings = submission BY <1>1, <1>2, BoundHere
<1>4. Blameless => Violated(RemainingRelations(bindings)) = {} BY <1>3, LawfulIs DEF Blameless
<1>5. QED BY <1>1, <1>2, <1>3, <1>4, ReportCalmly

LEMMA FinalizationInnocent == Inv /\ Innocent /\ CheckOutcomeAndFinalization => Innocent'
<1>1. SUFFICES ASSUME Inv, Innocent, CheckOutcomeAndFinalization PROVE Innocent' OBVIOUS
<1>2. /\ at = "finalization" /\ bindings' = bindings /\ identityValid' = identityValid
      /\ Go("receipt digest", Report(ctx, Violated(FinalizationRules(bindings))))
  BY <1>1 DEF CheckOutcomeAndFinalization, Here, Bindings
<1>3. Blameless => bindings = submission BY <1>1, <1>2, BoundHere
<1>4. Blameless => Violated(FinalizationRules(bindings)) = {} BY <1>3, LawfulIs DEF Blameless
<1>5. QED BY <1>1, <1>2, <1>3, <1>4, ReportCalmly

LEMMA ReceiptDigestInnocent == Inv /\ Innocent /\ CheckReceiptDigest => Innocent'
<1>1. SUFFICES ASSUME Inv, Innocent, CheckReceiptDigest, Blameless PROVE Innocent'
  BY StillBlameless DEF CheckReceiptDigest, Go, Compared, Innocent
<1>2. /\ at = "receipt digest" /\ bindings' = bindings /\ identityValid' = identityValid
      /\ "receipt digest" \in Handles /\ Calm(ctx)
  BY <1>1 DEF CheckReceiptDigest, Here, Bindings, Handles, Digests, Innocent
<1>3. CASE Go("finish", ctx) BY <1>1, <1>2, <1>3, GoCalmly DEF Innocent
<1>4. ASSUME NEW c \in Asked(ctx, "PROOF.RECEIPT_DIGEST", "receipt digest"),
             Go("finish", Compared(c, "PROOF.RECEIPT_DIGEST", "receipt digest"))
      PROVE  Innocent'
  <2>1. Compared(c, "PROOF.RECEIPT_DIGEST", "receipt digest") = c BY <1>1 DEF Compared, Blameless
  <2>2. Go("finish", c) BY <1>4, <2>1
  <2>3. Calm(c) /\ (ctx.required # {} => c.required # {}) BY <1>2, <1>4, CalmAsked
  <2>4. QED BY <1>1, <1>2, <2>2, <2>3, GoCalmly DEF Innocent
<1>5. QED BY <1>1, <1>3, <1>4 DEF CheckReceiptDigest

LEMMA FinishInnocent == Inv /\ Innocent /\ FinishResult => Innocent'
<1>1. SUFFICES ASSUME Inv, Innocent, FinishResult, Blameless PROVE Innocent'
  BY StillBlameless DEF FinishResult, Innocent
<1> DEFINE open == Unavailable(ctx, "PROOF.INPUT", FALSE)
<1>2. /\ at = "finish" /\ at' = "over" /\ submission' = submission /\ bindings' = bindings
      /\ identityValid' = identityValid /\ ctx' \in {ctx, open} /\ Calm(ctx)
  BY <1>1 DEF FinishResult, Here, Bindings, If, Innocent
<1>3. Calm(open) /\ open.required # {} BY <1>2, CalmUnavailable
<1> HIDE DEF open
<1>4. Calm(ctx') /\ (ctx.required # {} => ctx'.required # {}) BY <1>2, <1>3
<1>5. Unread' = Unread /\ (Issued(receipt)' <=> Issued(receipt)) BY <1>2 DEF Unread, Issued, receipt
<1>6. Calm(ctx)' BY <1>4 DEF Calm, Well
<1>7. QED BY <1>1, <1>2, <1>4, <1>5, <1>6 DEF Innocent

LEMMA NextInnocent == Inv /\ Innocent /\ [Next]_vars => Innocent'
<1>1. CASE UNCHANGED vars
  BY <1>1 DEF vars, Innocent, Blameless, Lawful, Settled, receipt, contract, Issued, Unread, Calm, Well
<1>2. CASE Next
  BY <1>2, ShapeInnocent, InputInnocent, PrepareInnocent, PresenceInnocent, ContractInnocent,
     SourceInnocent, PrefixInnocent, PrefixChronologyInnocent, EvidenceInnocent, RemainingInnocent,
     PostconditionsInnocent, ChronologyInnocent, FinalizationInnocent, ReceiptDigestInnocent,
     FinishInnocent
  DEF Next
<1>3. QED BY <1>1, <1>2

\* (ReceiptProps.HonestHistoryIsNotRefuted.)  Whoever does not answer, a
\* submission that breaks no rule and states its digests rightly is not called
\* invalid, and it is accepted when nothing is owed.
THEOREM SilenceNeverRefutes == Spec => [](Blameless => HonestHistoryIsNotRefuted)
<1>1. Inv /\ Innocent => (Blameless => HonestHistoryIsNotRefuted)
  <2>1. SUFFICES ASSUME Inv, Innocent, Blameless, at = "over"
                 PROVE  ~ctx.failed /\ (ctx.required = {} => Accepted)
    BY DEF HonestHistoryIsNotRefuted
  <2>2. Calm(ctx) BY <2>1 DEF Innocent
  <2>3. result = Result(ctx) BY <2>1 DEF Inv, ResultIsOfContext
  <2>4. ctx.required = {} => Verdict(ctx) = "PASS" BY <2>2 DEF Verdict, Calm
  <2>5. QED BY <2>2, <2>3, <2>4 DEF Accepted, Result, Calm
<1>2. QED BY <1>1, InitInnocent, NextInnocent, Inductive, PTL DEF Spec
=============================================================================
