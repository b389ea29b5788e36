----------------------------- MODULE MCReceipts -----------------------------
(***************************************************************************)
(* Submissions for TLC.  A history is a sequence of <<type, outcome, time>>; *)
(* Receipt makes of it the receipt an honest recorder would write, so that *)
(* an edit of the history is carried through to every field that depends   *)
(* on it.  The edits of the written receipt itself are the recorder's lies. *)
(***************************************************************************)
EXTENDS ReceiptProps, SequencesExt

TwoGates == <<"G1", "G2">>

\* The histories the edits start from, by the types of their checks; the check
\* at position i is made at time i.
Path(types, outcomes) ==
  [i \in DOMAIN types |->
     <<types[i],
       IF i \in DOMAIN outcomes THEN outcomes[i]
       ELSE IF types[i] = "E" THEN "succeeded" ELSE "passed", i>>]
Good(types) == Path(types, << >>)

G == TwoGates
IssuedHistories ==
  {Good(G \o <<"N", "I", "P", "E", "V", "F">>),
   Good(G \o <<"N", "I", "F">>),
   Good(G \o <<"A", "R", "I", "P", "E", "V", "L", "F">>),
   Good(G \o <<"A", "R", "I", "P", "P", "E", "V", "L", "F">>),
   Path(G \o <<"A", "R", "I", "P", "E", "V", "L", "L", "F">>, 9 :> "failed"),
   Path(G \o <<"A", "R", "I", "P", "E", "V", "L", "F">>, 7 :> "cancelled" @@ 9 :> "failed"),
   Path(G \o <<"A", "R", "I", "P", "L", "F">>, 6 :> "indeterminate")}
Denied(checkpoint, state, types, outcome) ==
  [checkpoint |-> checkpoint, state |-> state,
   history |-> Path(types, Len(SelectSeq(types, LAMBDA t : t \notin {"L", "F"})) :> outcome)]
Denials ==
  {Denied("G1", "not-required", <<"G1", "F">>, "failed"),
   Denied("G2", "not-attempted", <<"G1", "G2", "F">>, "indeterminate"),
   Denied("G2", "not-required", <<"G1", "G2", "G2", "F">>, "failed"),
   Denied("N", "not-required", G \o <<"N", "F">>, "failed"),
   Denied("A", "not-acquired", G \o <<"A", "F">>, "failed"),
   Denied("A", "indeterminate", G \o <<"A", "F">>, "indeterminate"),
   Denied("R", "acquired", G \o <<"A", "R", "L", "F">>, "failed"),
   Denied("I", "acquired", G \o <<"A", "R", "I", "L", "F">>, "failed"),
   Denied("I", "not-required", G \o <<"N", "I", "F">>, "failed")}

-----------------------------------------------------------------------------
\* The receipt, contract and source of a history.
Ids(h)   == [i \in DOMAIN h |-> IF h[i][1] = "F" THEN 100 ELSE i]
At(h, types) == {i \in DOMAIN h : h[i][1] \in types}
LastOutcome(h, type, none) ==
  IF At(h, {type}) = {} THEN none ELSE h[LastOf(At(h, {type}))][2]
Holder(h) == IF At(h, {"A"}) = {} THEN 0 ELSE LastOf(At(h, {"A"}))

Release(h, state) ==
  IF At(h, {"L"}) = {} THEN IF state = "indeterminate" THEN state ELSE "not-required"
  ELSE IF LastOutcome(h, "L", "") = "passed" THEN "succeeded" ELSE LastOutcome(h, "L", "")

Checks(h, leased) ==
  [i \in DOMAIN h |->
     [sequence |-> i, id |-> Ids(h)[i], type |-> h[i][1], outcome |-> h[i][2],
      observedAt |-> h[i][3], reasons |-> IF h[i][2] \in {"passed", "succeeded"} THEN 0 ELSE i,
      lease |-> IF leased /\ h[i][1] \in LeaseTypes THEN Holder(h) ELSE 0,
      post |-> IF h[i][1] = "V" THEN "scope-contained" ELSE "none"]]

Warnings(h, release) ==
  IF release \in {"succeeded", "not-required"} THEN << >>
  ELSE <<[sequence |-> 1, related |-> IF At(h, {"L"}) = {} THEN 0 ELSE LastOf(At(h, {"L"}))]>>

Honest(r) == [r EXCEPT !.lifecycle = Lifecycle(r)]

\* "base" is the history the contract was issued on and the clock was read for.
Receipt(h, base, origin, leased, changed) ==
  LET execution == LastOutcome(h, "E", "not-attempted")
      release == Release(h, origin.state)
  IN Honest(
     [task |-> "T", origin |-> origin, checks |-> Checks(h, leased),
      binding |-> IF leased THEN [checkId |-> Holder(h), leaseId |-> "lease", digest |-> 1]
                  ELSE Absent,
      execution |-> execution,
      verification |-> LastOutcome(h, "V", "not-performed"),
      release |-> release, lifecycle |-> "succeeded", warnings |-> Warnings(h, release),
      changed |-> IF execution = "not-attempted" THEN {} ELSE changed,
      evidence |-> IF leased /\ execution # "not-attempted"
                   THEN [paths |-> changed, operations |-> {"modify"}] ELSE Absent,
      startedAt |-> 1, sanitizedAt |-> Len(base), finishedAt |-> Len(base)])

Sources(h, leased) ==
  IF leased THEN <<[shaped |-> TRUE, task |-> "T", checkId |-> Holder(h), leaseId |-> "lease",
                    digest |-> 1]>>
  ELSE << >>

SubmitIssued(h, base) ==
  LET leased == At(base, {"A"}) # {}
      gate == LastOf(At(base, {"N", "R"}))
  IN [receipt |-> Receipt(h, base,
        [type |-> "issued-contract", claims |-> "C", state |-> "none", checkpoint |-> "none",
         controller |-> 0, observedAt |-> 0, reasons |-> 0],
        leased, IF leased THEN {"inside"} ELSE {}),
      contract |->
        [shaped |-> TRUE, present |-> TRUE, identity |-> "C", task |-> "T", leaseId |-> "lease",
         allowWrite |-> leased, capabilities |-> {"modify"}, paths |-> {"inside"},
         posts |-> {"scope-contained"}, checkpointAt |-> gate, issuedAt |-> gate + 1,
         expiresAt |-> LastOf(At(base, {"I", "P"})) + 1],
      sources |-> Sources(h, leased), mismatched |-> {}]

SubmitDenied(h, d) ==
  LET leased == d.state = "acquired"
      controllers == At(h, {d.checkpoint})
      i == IF controllers = {} THEN 1 ELSE LastOf(controllers)
  IN [receipt |-> Receipt(h, d.history,
        [type |-> "pre-contract-denial", claims |-> "none", state |-> d.state,
         checkpoint |-> d.checkpoint, controller |-> i, observedAt |-> h[i][3],
         reasons |-> IF h[i][2] = "passed" THEN 0 ELSE i],
        leased, {}),
      contract |-> Absent, sources |-> Sources(h, leased), mismatched |-> {}]

-----------------------------------------------------------------------------
\* One edit of a history: a check lost, repeated elsewhere with any outcome,
\* exchanged with another, made at another time or with another outcome.
Outcomes(type) == IF type = "E" THEN {"succeeded", "failed", "cancelled"}
                  ELSE {"passed", "failed", "indeterminate"}
Dropped(h)   == {RemoveAt(h, i) : i \in DOMAIN h}
Repeated(h)  == UNION {{InsertAt(h, j, <<h[i][1], outcome, h[j][3]>>) :
                          outcome \in Outcomes(h[i][1])} : i, j \in DOMAIN h}
Exchanged(h) == {[h EXCEPT ![i] = <<h[j][1], h[j][2], h[i][3]>>,
                           ![j] = <<h[i][1], h[i][2], h[j][3]>>] : i, j \in DOMAIN h}
Retimed(h)   == UNION {{[h EXCEPT ![i][3] = time] : time \in 0 .. Len(h) + 1} : i \in DOMAIN h}
Reported(h)  == UNION {{[h EXCEPT ![i][2] = outcome] : outcome \in Outcomes(h[i][1])} : i \in DOMAIN h}
Edited(h)    == Dropped(h) \cup Repeated(h) \cup Exchanged(h) \cup Retimed(h) \cup Reported(h)

\* One lie: a field of the submission that says something else.
Claims == {"passed", "succeeded", "failed", "cancelled", "denied", "indeterminate",
           "not-attempted", "not-performed", "not-required"}
LiesOfOutcome(s) ==
  UNION {{[s EXCEPT !.receipt.lifecycle = claim], [s EXCEPT !.receipt.release = claim],
          [s EXCEPT !.receipt.verification = claim], [s EXCEPT !.receipt.execution = claim],
          [s EXCEPT !.receipt = Honest([@ EXCEPT !.release = claim])],
          [s EXCEPT !.receipt = Honest([@ EXCEPT !.verification = claim])]} : claim \in Claims}
LiesOfScope(s) ==
  {[s EXCEPT !.receipt.changed = {"outside"}], [s EXCEPT !.receipt.changed = {"inside", "outside"}],
   [s EXCEPT !.receipt.evidence = Absent], [s EXCEPT !.receipt.binding = Absent],
   [s EXCEPT !.receipt.evidence = [paths |-> {"outside"}, operations |-> {"modify"}]],
   [s EXCEPT !.receipt.evidence = [paths |-> {}, operations |-> {"delete"}]]}
LiesOfWarning(s) ==
  {[s EXCEPT !.receipt = Honest([@ EXCEPT !.warnings = warnings])] :
     warnings \in {<< >>} \cup {<<[sequence |-> n, related |-> i]>> :
                                  n \in {0, 1}, i \in 0 .. Len(s.receipt.checks)}}
LiesOfCheck(s) ==
  UNION {{[s EXCEPT !.receipt.checks[i].sequence = i + 1], [s EXCEPT !.receipt.checks[i].id = 1],
          [s EXCEPT !.receipt.checks[i].lease = 99], [s EXCEPT !.receipt.checks[i].post = "none"],
          [s EXCEPT !.receipt.checks[i].post = "head-state"]} : i \in DOMAIN s.receipt.checks}
LiesOfTime(s) ==
  UNION {{[s EXCEPT !.receipt.startedAt = time], [s EXCEPT !.receipt.sanitizedAt = time],
          [s EXCEPT !.receipt.finishedAt = time], [s EXCEPT !.receipt.origin.observedAt = time],
          [s EXCEPT !.receipt.origin.controller = time],
          [s EXCEPT !.receipt.origin.reasons = time]} : time \in 0 .. Len(s.receipt.checks) + 1}
LiesOfIdentity(s) ==
  {s, [s EXCEPT !.receipt.task = "U"], [s EXCEPT !.receipt.origin.claims = "D"],
   [s EXCEPT !.sources = @ \o @], [s EXCEPT !.sources = << >>],
   [s EXCEPT !.sources = <<[shaped |-> TRUE, task |-> "T", checkId |-> 3, leaseId |-> "lease",
                            digest |-> 1]>>]}
    \cup {[s EXCEPT !.mismatched = {handle}] : handle \in Digests}
LiesOfSource(s) ==
  IF s.sources = << >> THEN {}
  ELSE {[s EXCEPT !.sources[1].shaped = FALSE], [s EXCEPT !.sources[1].task = "U"],
        [s EXCEPT !.sources[1].checkId = 99], [s EXCEPT !.sources[1].leaseId = "other"],
        [s EXCEPT !.sources[1].digest = 2]}
LiesOfContract(s) ==
  IF s.contract = Absent
  THEN {[s EXCEPT !.contract = [shaped |-> TRUE, present |-> TRUE]]}
  ELSE {[s EXCEPT !.contract = Absent], [s EXCEPT !.contract.shaped = FALSE],
        [s EXCEPT !.contract.identity = "D"], [s EXCEPT !.contract.task = "U"],
        [s EXCEPT !.contract.leaseId = "other"], [s EXCEPT !.contract.allowWrite = ~@],
        [s EXCEPT !.contract.capabilities = {}], [s EXCEPT !.contract.paths = {}],
        [s EXCEPT !.contract.posts = {}],
        [s EXCEPT !.contract.posts = @ \cup {"head-state"}]}
       \cup UNION {{[s EXCEPT !.contract.checkpointAt = time], [s EXCEPT !.contract.issuedAt = time],
                    [s EXCEPT !.contract.expiresAt = time]} : time \in 0 .. Len(s.receipt.checks)}
Lies(s) == LiesOfOutcome(s) \cup LiesOfScope(s) \cup LiesOfWarning(s) \cup LiesOfCheck(s)
             \cup LiesOfTime(s) \cup LiesOfIdentity(s) \cup LiesOfSource(s) \cup LiesOfContract(s)

HonestSubmissions ==
  {SubmitIssued(h, h) : h \in IssuedHistories} \cup {SubmitDenied(d.history, d) : d \in Denials}
ProofSubmissions ==
  HonestSubmissions \cup {[s EXCEPT !.mismatched = {handle}] :
                            s \in HonestSubmissions, handle \in Digests}
EditedSubmissions ==
  UNION {{SubmitIssued(h, base) : h \in Edited(base)} : base \in IssuedHistories}
    \cup UNION {{SubmitDenied(h, d) : h \in Edited(d.history) \ {<< >>}} : d \in Denials}
    \cup UNION {Lies(s) : s \in HonestSubmissions}
=============================================================================
