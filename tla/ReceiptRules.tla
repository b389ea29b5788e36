---------------------------- MODULE ReceiptRules ----------------------------
(***************************************************************************)
(* What _static_receipt.py and _static_chronology.py demand of a supplied  *)
(* execution receipt, its task contract and its acquisition source: one    *)
(* set of rules per function, each rule a requirement identifier and       *)
(* whether it holds.  A check is named by its position in "checks", which  *)
(* is its sequence number once RECEIPT.SEQUENCES holds; check types are    *)
(* the one-letter aliases of _TYPES.                                       *)
(*                                                                         *)
(* Identities, digests and reasons are small numbers, instants naturals    *)
(* (canonical UTC texts compare as the instants do), positions start at 1. *)
(* One "identity" stands for what the receipt repeats of the contract (its *)
(* id, target, domains and mode: RC01, RC04 to RC08), so the schema's      *)
(* restrictions on the plan-only mode are left out.  A summary, a profile  *)
(* and a namespace play no part in any rule.                               *)
(***************************************************************************)
EXTENDS Naturals, Sequences, FiniteSets

CONSTANT GTypes   \* _G_TYPES: the types of the issuance prefix, in order

Gates      == {GTypes[k] : k \in DOMAIN GTypes}
Ordinary   == Gates \cup {"N", "A", "R", "I", "P", "E", "V"}
PreRelease == Ordinary \ {"N"}

ASSUME GatesAssumption ==
  /\ GTypes \in Seq(Gates)
  /\ \A j, k \in DOMAIN GTypes : GTypes[j] = GTypes[k] => j = k
  /\ Gates \cap {"N", "A", "R", "I", "P", "E", "V", "L", "F"} = {}

Absent == [present |-> FALSE]   \* an optional member that is not there

\* A rule is a pair <<requirement, holds>>.
Violated(rules) == {rule[1] : rule \in {each \in rules : ~each[2]}}
If(condition, rules) == IF condition THEN rules ELSE {}

-----------------------------------------------------------------------------
\* Selectors: the positions of the checks of some types.
Of(r, types)   == {i \in DOMAIN r.checks : r.checks[i].type \in types}
Some(r, type)  == Of(r, {type}) # {}
One(r, type)   == Cardinality(Of(r, {type})) = 1
LastOf(S)      == CHOOSE i \in S : \A j \in S : j <= i
Only(r, type)  == r.checks[LastOf(Of(r, {type}))]
\* Mutant of Precede: only the last of each are compared.
PrecedeAtLast(S, T) == S = {} \/ T = {} \/ LastOf(S) < LastOf(T)
Precede(S, T)  == \A i \in S, j \in T : i < j
All(r, S, outcome) == \A i \in S : r.checks[i].outcome = outcome
\* Mutant of NotLater: the bound is looked for among the later checks.
NotLaterThanSome(r, S, T) == \A i \in S : T = {} \/ \E j \in T : r.checks[i].observedAt <= r.checks[j].observedAt
NotLater(r, S, T)  == \A i \in S, j \in T : r.checks[i].observedAt <= r.checks[j].observedAt
Posts(r)           == {r.checks[i].post : i \in Of(r, {"V"})} \ {"none"}
NonF(r)            == {i \in DOMAIN r.checks : r.checks[i].type # "F"}
\* What has to be over before a lease is released.
BeforeRelease(r) == IF r.origin.type = "issued-contract" THEN Of(r, PreRelease)
                    ELSE {i \in NonF(r) : r.checks[i].type # "L"}

Issued(r)    == r.origin.type = "issued-contract"
Attempted(r) == r.execution # "not-attempted"

\* A submission s is what validate_execution_receipt_static is called with.  A
\* contract has leaseRequired as it has allowWrite (task-contract.schema.json).
Bound(s)  == Issued(s.receipt) /\ s.contract # Absent
Stable(s) == IF Issued(s.receipt)
             THEN IF ~Bound(s) THEN "unknown" ELSE IF s.contract.allowWrite THEN "lease" ELSE "free"
             ELSE IF s.receipt.origin.state = "acquired" THEN "lease" ELSE "free"

-----------------------------------------------------------------------------
\* Mutant of Precedence: what became of the execution comes first.
PrecedenceOfExecution(r) ==
  << <<r.execution, "indeterminate", "indeterminate">>, <<r.execution, "failed", "failed">>,
     <<r.execution, "cancelled", "cancelled">>, <<r.execution, "not-attempted", "denied">>,
     <<r.verification, "indeterminate", "indeterminate">>, <<r.verification, "failed", "failed">>,
     <<r.release, "indeterminate", "indeterminate">>, <<r.release, "failed", "failed">> >>

\* The lifecycle outcome that the outcomes of the phases call for.
Precedence(r) ==
  << <<r.release, "indeterminate", "indeterminate">>, <<r.release, "failed", "failed">>,
     <<r.verification, "indeterminate", "indeterminate">>,
     <<r.verification, "failed", "failed">>,
     <<r.execution, "indeterminate", "indeterminate">>, <<r.execution, "failed", "failed">>,
     <<r.execution, "cancelled", "cancelled">>, <<r.execution, "not-attempted", "denied">> >>

Lifecycle(r) ==
  LET rows == Precedence(r)
      hits == {k \in DOMAIN rows : rows[k][1] = rows[k][2]}
  IN IF ~Issued(r) THEN IF r.release \in {"failed", "indeterminate"} THEN r.release ELSE "denied"
     ELSE IF hits = {} THEN IF r.warnings # << >> THEN "indeterminate" ELSE "succeeded"
     ELSE rows[CHOOSE k \in hits : \A l \in hits : k <= l][3]

\* The conditional parts of execution-receipt.schema.json.
LeaseTypes == {"A", "R", "L"}
ShapeOfHistory(r) ==
  /\ One(r, "F") /\ Only(r, "F").outcome = "passed" /\ Only(r, "F").reasons = 0
  /\ \A i \in DOMAIN r.checks :
       /\ r.checks[i].outcome \in IF r.checks[i].type = "E"
                                  THEN {"succeeded", "failed", "cancelled", "indeterminate"}
                                  ELSE {"passed", "failed", "indeterminate"}
       /\ r.checks[i].lease # 0 <=> r.binding # Absent /\ r.checks[i].type \in LeaseTypes
       /\ r.checks[i].post # "none" => r.checks[i].type = "V"
  /\ r.binding # Absent =>
       /\ One(r, "A") /\ All(r, Of(r, {"A"}), "passed")
       /\ Some(r, "R") /\ Some(r, "L") /\ ~Some(r, "N")
  /\ r.verification = "passed" => All(r, Of(r, {"V"}), "passed")
ShapeOfOutcomes(r) ==
  /\ r.execution \in {"not-attempted", "succeeded", "failed", "cancelled", "indeterminate"}
  /\ r.verification \in {"not-performed", "passed", "failed", "indeterminate"}
  /\ r.release \in {"not-required", "succeeded", "failed", "indeterminate"}
  /\ IF Attempted(r) THEN r.verification # "not-performed"
     ELSE /\ r.verification = "not-performed" /\ r.changed = {} /\ r.evidence = Absent
          /\ Of(r, {"E", "V"}) = {}
  /\ r.lifecycle = "succeeded" => r.warnings = << >>
  /\ r.release \in {"failed", "indeterminate"} => r.warnings # << >>
  /\ r.lifecycle = Lifecycle(r)
ShapeOfIssued(r) ==
  LET gate == IF r.binding # Absent THEN "R" ELSE "N"
  IN /\ IF r.release # "not-required" THEN r.binding # Absent
        ELSE /\ r.binding = Absent /\ r.evidence = Absent /\ r.changed = {}
             /\ Of(r, LeaseTypes) = {}
     /\ r.binding # Absent /\ Attempted(r) => r.evidence # Absent
     /\ \A g \in Gates : Some(r, g)
     /\ One(r, "I") /\ One(r, gate) /\ All(r, Of(r, Gates \cup {"I", gate}), "passed")
     /\ Attempted(r) => /\ Some(r, "P") /\ Some(r, "E") /\ Some(r, "V")
                        /\ All(r, Of(r, {"P"}), "passed")
DenialStates(checkpoint) ==
  CASE checkpoint = "N" -> {"not-required"}
    [] checkpoint = "A" -> {"not-acquired", "indeterminate"}
    [] checkpoint = "R" -> {"acquired"}
    [] checkpoint = "I" -> {"not-required", "acquired"}
    [] OTHER            -> {"not-required", "not-attempted"}
ShapeOfDenial(r) ==
  /\ ~Attempted(r) /\ Of(r, {"P", "E", "V"}) = {}
  /\ r.origin.state \in DenialStates(r.origin.checkpoint)
  /\ CASE r.origin.state = "acquired" -> r.binding # Absent /\ r.release # "not-required"
       [] r.origin.state = "indeterminate" ->
            /\ r.binding = Absent /\ ~Some(r, "L")
            /\ r.release = "indeterminate" /\ r.warnings # << >>
       [] OTHER -> r.binding = Absent /\ ~Some(r, "L") /\ r.release = "not-required"
Shaped(r) ==
  /\ ShapeOfHistory(r) /\ ShapeOfOutcomes(r)
  /\ IF Issued(r) THEN ShapeOfIssued(r) ELSE ShapeOfDenial(r)

-----------------------------------------------------------------------------
\* _prepare_sequence_selectors; ARRAY.45 and ARRAY.46 demand the same.
Sequenced(r) ==
  /\ \A i \in DOMAIN r.checks : r.checks[i].sequence = i
  /\ \A i \in DOMAIN r.warnings : r.warnings[i].sequence = i
  /\ \A i, j \in DOMAIN r.checks : r.checks[i].id = r.checks[j].id => i = j

\* _check_receipt_presence.
PresenceRules(s) ==
  LET r == s.receipt
      lease == Stable(s) = "lease"
  IN {<<"RECEIPT.DENIAL_MATRIX", Issued(r) \/ s.contract = Absent>>,
      <<"RF04", Some(r, "F")>>,
      <<"RECEIPT.WARN_REFS", \A i \in DOMAIN r.warnings :
          r.warnings[i].related \in {0} \cup {r.checks[j].id : j \in DOMAIN r.checks}>>,
      <<"RECEIPT.SOURCE_SHAPE", \A k \in DOMAIN s.sources : s.sources[k].shaped>>}
     \cup If(Stable(s) # "unknown",
      {<<"AI14", r.binding # Absent <=> lease>>,
       <<"AI15", Len(s.sources) = IF lease THEN 1 ELSE 0>>,
       <<"RF01/RF02", Some(r, "L") <=> lease>>})
     \cup If(Issued(r),
      {<<"AI01", \A g \in Gates : Some(r, g)>>, <<"AI07", One(r, "I")>>,
       <<"RECEIPT.PEV_CARD",
         IF Attempted(r) THEN Some(r, "P") /\ Some(r, "E") /\ Some(r, "V")
         ELSE Of(r, {"E", "V"}) = {}>>})
     \cup If(Bound(s),
      {<<"AI05/AI06", One(r, IF lease THEN "R" ELSE "N")>>,
       <<"AI09", Of(r, IF lease THEN {"N"} ELSE {"A", "R"}) = {}>>})
     \cup If(lease, {<<"AI03", One(r, "A")>>})

\* _check_contract_source_bindings: what the receipt repeats of the contract,
\* and the acquisition source, its copy in the receipt and the checks.
ContractRules(s) ==
  {<<"RC01", s.receipt.origin.claims = s.contract.identity>>,
   <<"RC03", s.receipt.task = s.contract.task>>}
SourceRules(s) ==
  LET r == s.receipt
      source == s.sources[1]
      Refer(type) == \A i \in Of(r, {type}) : r.checks[i].lease = r.binding.checkId
  IN {<<"AI16", source.task = r.task>>,
      <<"AI17", source.checkId = r.binding.checkId>>,
      <<"AI18", source.leaseId = r.binding.leaseId>>,
      <<"AI20", source.digest = r.binding.digest>>,
      <<"AI21", r.binding.checkId = Only(r, "A").id>>,
      <<"AI04", Only(r, "A").outcome = "passed">>,
      <<"AI22", Refer("A")>>, <<"AI23", Refer("R")>>, <<"RF12", Refer("L")>>}
     \cup If(Bound(s), {<<"RC09", r.binding.leaseId = s.contract.leaseId>>})

\* _check_prefix_and_controller.
PrefixRules(s) ==
  LET r == s.receipt
  IN If(Issued(r),
      {<<"AI02", All(r, Of(r, Gates), "passed")>>,
       <<"AI08", All(r, Of(r, {"R", "N", "I"}), "passed")>>,
       <<"AI12", Precede(Of(r, {"R", "N"}), Of(r, {"I"}))>>,
       <<"AI13", Precede(Of(r, {"I"}), Of(r, {"P"}))>>})
     \cup If(Stable(s) = "lease" \/ (Issued(r) /\ Stable(s) = "free"),
      {<<"AI10", Precede(Of(r, Gates), Of(r, {IF Stable(s) = "lease" THEN "A" ELSE "N"}))>>})
     \cup If(Stable(s) = "lease", {<<"AI11", Precede(Of(r, {"A"}), Of(r, {"R"}))>>})

\* Mutant of Prerequisites: the gate before the denying one is forgotten.
PrerequisitesButOne(s) ==
  LET checkpoint == s.receipt.origin.checkpoint
  IN CASE checkpoint \in Gates ->
              {GTypes[k] : k \in 1 .. (CHOOSE l \in DOMAIN GTypes : GTypes[l] = checkpoint) - 2}
       [] checkpoint \in {"N", "A"} -> Gates
       [] checkpoint = "R" -> Gates \cup {"A"}
       [] OTHER -> Gates \cup IF Stable(s) = "lease" THEN {"A", "R"} ELSE {"N"}

Prerequisites(s) ==
  LET checkpoint == s.receipt.origin.checkpoint
  IN CASE checkpoint \in Gates ->
              {GTypes[k] : k \in 1 .. (CHOOSE l \in DOMAIN GTypes : GTypes[l] = checkpoint) - 1}
       [] checkpoint \in {"N", "A"} -> Gates
       [] checkpoint = "R" -> Gates \cup {"A"}
       [] OTHER -> Gates \cup IF Stable(s) = "lease" THEN {"A", "R"} ELSE {"N"}

Controllers(r) == Of(r, {r.origin.checkpoint})
\* Mutant of Controller: the first attempt.
ControllerFirst(r) == r.checks[CHOOSE i \in Controllers(r) : \A j \in Controllers(r) : i <= j]
Controller(r)  == r.checks[LastOf(Controllers(r))]
PrerequisiteRules(s) ==
  LET r == s.receipt
      members == Of(r, Prerequisites(s))
  IN {<<"DP01", \A type \in Prerequisites(s) : Some(r, type)>>,
      <<"DP02", All(r, members, "passed")>>,
      <<"DP03", Of(r, Ordinary) \subseteq members \cup Controllers(r)>>,
      <<"DP05", Controllers(r) # {}>>}
ControllerRules(s) ==
  LET r == s.receipt
      last == {LastOf(Controllers(r))}
      outcome == Controller(r).outcome
  IN {<<"DP04", Precede(Of(r, Prerequisites(s)), last)>>,
      <<"DP05", r.origin.controller = Controller(r).id>>,
      <<"DP06", outcome \in {"failed", "indeterminate"}>>,
      <<"DP07", r.origin.observedAt = Controller(r).observedAt>>,
      <<"DP08", r.origin.reasons = Controller(r).reasons>>,
      <<"DP09", All(r, Controllers(r) \ last, "passed")>>,
      <<"RECEIPT.DENIAL_MATRIX", Precede(Of(r, Ordinary) \ last, last)>>}
     \cup If(r.origin.checkpoint = "A",
      {<<"DP10", One(r, "A")>>,
       <<"DP13", r.origin.state = IF outcome = "failed" THEN "not-acquired" ELSE outcome>>})
     \cup If(r.origin.checkpoint = "I",
      {<<"DP11", One(r, "I")>>,
       <<"DP12", Cardinality(Of(r, {IF Stable(s) = "lease" THEN "R" ELSE "N"})) <= 1>>})

\* _check_receipt_remaining, without the membership of paths.
ExecutionRules(r) ==
  LET p == Of(r, {"P"})
      e == Of(r, {"E"})
      v == Of(r, {"V"})
  IN {<<"RECEIPT.P_TERMINAL", All(r, IF Attempted(r) THEN p ELSE {i \in p : i # LastOf(p)}, "passed")>>,
      <<"RECEIPT.E_TERMINAL", All(r, {i \in e : i # LastOf(e)}, "succeeded")>>,
      <<"RECEIPT.FINAL_OUTCOMES",
        /\ e # {} => r.checks[LastOf(e)].outcome = r.execution
        /\ v # {} => r.checks[LastOf(v)].outcome = r.verification>>,
      <<"RECEIPT.UNIVERSAL_V", r.verification = "passed" => All(r, v, "passed")>>,
      <<"RECEIPT.PEV_SEQUENCE", (p # {} => Precede({LastOf(p)}, e)) /\ Precede(e, v)>>}
Carried(r) == IF r.evidence = Absent THEN {} ELSE r.evidence.paths
CarrierRules(s) ==
  LET r == s.receipt
      required == s.contract.allowWrite /\ Attempted(r)
  IN {<<"RECEIPT.CARRIER_BIND", /\ r.evidence # Absent <=> required
                                /\ s.contract.allowWrite \/ r.changed = {}>>,
      <<"RECEIPT.EVIDENCE_SUBSET", Carried(r) \subseteq r.changed>>}
ScopeDue(s) == s.contract.allowWrite /\ Attempted(s.receipt) /\ s.receipt.verification = "passed"
\* "open" are the paths whose membership could not be decided; authorized and
\* prohibited capabilities are disjoint by the schema.
ScopeRules(s, open) ==
  LET r == s.receipt
      checks == {i \in Of(r, {"V"}) : r.checks[i].post = "scope-contained"}
      operations == IF r.evidence = Absent THEN {} ELSE r.evidence.operations
  IN {<<"RECEIPT.SCOPE",
        /\ operations \subseteq s.contract.capabilities
        /\ (Carried(r) \cup r.changed) \ open \subseteq s.contract.paths
        /\ checks # {} /\ r.checks[LastOf(checks)].outcome = "passed">>}

\* Mutant of PostconditionRules: that every postcondition is checked is not asked.
PostconditionRulesOneWay(s) == {<<"PB04", Posts(s.receipt) \subseteq s.contract.posts>>}

\* _check_postcondition_bindings.
PostconditionRules(s) ==
  {<<"PB04", Posts(s.receipt) \subseteq s.contract.posts>>,
   <<"PB05", Attempted(s.receipt) => s.contract.posts \subseteq Posts(s.receipt)>>}

\* _check_outcome_and_finalization.
FinalizationRules(s) ==
  LET r == s.receipt
      l == Of(r, {"L"})
      last == r.checks[LastOf(l)]
  IN {<<"RF08", \A f \in Of(r, {"F"}) : Precede(NonF(r), {f})>>,
      <<"LIFECYCLE", r.lifecycle = Lifecycle(r)>>}
     \cup (IF l # {} THEN
      {<<"RF03", r.release = IF last.outcome = "passed" THEN "succeeded" ELSE last.outcome>>,
       <<"RF11", last.outcome = "passed" \/ \E i \in DOMAIN r.warnings : r.warnings[i].related = last.id>>,
       <<"RF09/RF10", Precede(BeforeRelease(r), l)>>}
     ELSE
      {<<"RF03", r.release = IF ~Issued(r) /\ r.origin.state = "indeterminate"
                             THEN "indeterminate" ELSE "not-required">>})
     \cup If(~Issued(r),
      {<<"RECEIPT.DENIAL_OUTCOME", ~Attempted(r) /\ r.verification = "not-performed"
                                   /\ r.changed = {} /\ r.evidence = Absent>>,
       <<"RF14", r.origin.state = "indeterminate" => r.warnings # << >> >>})

-----------------------------------------------------------------------------
\* Chronology: the primitive relations that are evaluated, each with its value.
PrefixRelations(s) ==
  LET r == s.receipt
  IN If(Stable(s) = "lease" /\ One(r, "A"),
      {<<"CH08", NotLater(r, Of(r, Gates), Of(r, {"A"}))>>,
       <<"CH10", NotLater(r, Of(r, {"A"}), Of(r, {"R"}))>>})

RemainingRelations(s) ==
  LET r == s.receipt
      c == s.contract
      Time(i) == r.checks[i].observedAt
      p == Of(r, {"P"})
      l == Of(r, {"L"})
  IN {<<"CH03", \A i \in DOMAIN r.checks : r.startedAt <= Time(i)>>,
      <<"CH04", \A i \in NonF(r) : Time(i) <= r.sanitizedAt>>,
      <<"CH17", \A i \in Of(r, {"F"}) : r.sanitizedAt <= Time(i)>>,
      <<"CH18", \A i \in Of(r, {"F"}) : Time(i) <= r.finishedAt>>}
     \cup If(Bound(s),
      {<<"CH01", c.checkpointAt <= c.issuedAt>>,
       <<"CH02", c.issuedAt < c.expiresAt>>,
       <<"CH05", \A i \in p : r.checks[i].outcome = "passed" => Time(i) < c.expiresAt>>}
      \cup If(~c.allowWrite /\ One(r, "N"),
       {<<"CH09", NotLater(r, Of(r, Gates), Of(r, {"N"}))>>,
        <<"CH12", Only(r, "N").observedAt <= c.checkpointAt>>})
      \cup If(c.allowWrite /\ One(r, "R"), {<<"CH11", Only(r, "R").observedAt <= c.checkpointAt>>})
      \cup If(One(r, "I"),
       {<<"CH13", c.issuedAt <= Only(r, "I").observedAt>>,
        <<"CH14", NotLater(r, Of(r, {"I"}), p)>>})
      \cup If(Attempted(r) /\ p # {}, {<<"CH06", NotLater(r, {LastOf(p)}, Of(r, {"E"}))>>})
      \cup If(Attempted(r), {<<"CH07", NotLater(r, Of(r, {"E"}), Of(r, {"V"}))>>}))
     \cup If(Stable(s) = "lease",
      {<<"CH15/CH16", NotLater(r, BeforeRelease(r), l)>>,
       <<"CH20", \A i, j \in l : i < j => Time(i) <= Time(j)>>})

\* _derive_chronology_relations: a display needs its operands and its premises.
Display(number, premises, operands) ==
  [number |-> number, premises |-> premises, operands |-> operands]
Displays(operands) ==
  {Display(21, {"CH03", "CH04"}, {"nonF"}),
   Display(22, {"CH17", "CH18"}, {"F"}),
   Display(23, {"CH03", "CH04", "CH17", "CH18"}, {"nonF", "F"}),
   Display(24, {"CH03"}, {"denial"}),
   Display(25, {"CH04"}, {"denial"}),
   Display(26, {"CH04", "CH17"}, {"denial", "F"}),
   Display(27, {"CH03", "CH01", IF "R" \in operands THEN "CH11" ELSE "CH12"}, {"issued"}),
   Display(28, {"CH15/CH16"}, {"denial", "L"}),
   Display(29, {"CH04", "CH17"}, {"nonF", "F"}),
   Display(30, {"CH11", "CH01"}, {"R"}),
   Display(31, {"CH12", "CH01"}, {"N"})}
Operands(s, controllerEqual) ==
  LET r == s.receipt
  IN If(NonF(r) # {}, {"nonF"}) \cup If(One(r, "F"), {"F"}) \cup If(Bound(s), {"issued"})
     \cup If(~Issued(r) /\ controllerEqual, {"denial"})
     \cup If(Issued(r) /\ Stable(s) = "lease" /\ One(r, "R"), {"R"})
     \cup If(Issued(r) /\ Stable(s) = "free" /\ One(r, "N"), {"N"})
     \cup If(Stable(s) = "lease" /\ Some(r, "L"), {"L"})
\* Mutant of Derived: one premise is enough.
DerivedFromAny(held, operands) ==
  {d.number : d \in {each \in Displays(operands) :
                  each.premises \cap held # {} /\ each.operands \subseteq operands}}

Derived(held, operands) ==
  {d.number : d \in {each \in Displays(operands) :
                  each.premises \subseteq held /\ each.operands \subseteq operands}}
=============================================================================
