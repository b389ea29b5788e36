---------------------------- MODULE ReceiptProps ----------------------------
(***************************************************************************)
(* What acceptance of an execution receipt means.  Each property speaks    *)
(* of the supplied history as a whole; the code reaches it by way of many  *)
(* pairwise rules in different functions.                                  *)
(***************************************************************************)
EXTENDS ReceiptValidation

Accepted == result.status = "PASS"
contract == submission.contract
Time(i)  == receipt.checks[i].observedAt
Kind(i)  == receipt.checks[i].type
Passed(i) == receipt.checks[i].outcome = "passed"
Types(S) == {Kind(i) : i \in S}
Final(S) == CHOOSE i \in S : S \subseteq 1 .. i

Phases == <<Gates, {"N", "A"}, {"R"}, {"I"}, {"P"}, {"E"}, {"V"}, {"L"}, {"F"}>>
Phase(i) == CHOOSE k \in DOMAIN Phases : Kind(i) \in Phases[k]
Leased   == receipt.binding # Absent

\* The complete evidence chains of schema-contract-v1alpha1.md: in an accepted
\* receipt of an issued contract, or of a denial after acquisition, the phases
\* of the lifecycle follow one another - no check of an earlier phase comes
\* after one of a later phase - and an issued receipt skips none it must have.
AcceptedChain ==
  Accepted /\ (Issued(receipt) \/ Leased) =>
    /\ \A i, j \in DOMAIN receipt.checks : i < j => Phase(i) <= Phase(j)
    /\ Issued(receipt) =>
         Types(DOMAIN receipt.checks) \ {"P"} =
           Gates \cup {"I", "F"} \cup (IF Leased THEN {"A", "R", "L"} ELSE {"N"})
             \cup (IF Attempted(receipt) THEN {"E", "V"} ELSE {})

\* Nothing was done outside the window of authority: what the gates saw is no
\* later than the checkpoint the contract was issued on, every passed
\* pre-action check lies between issuance and expiry, and execution and
\* verification follow the last of them, whatever they were checked after.
AuthorityWindow ==
  Accepted /\ Issued(receipt) =>
    /\ \A i \in Of(receipt, Gates \cup {"N", "A", "R"}) : Time(i) <= contract.checkpointAt
    /\ \A i \in Of(receipt, {"P"}) :
         contract.issuedAt <= Time(i) /\ (Passed(i) => Time(i) < contract.expiresAt)
    /\ Attempted(receipt) =>
         LET p == Final(Of(receipt, {"P"}))
         IN /\ Passed(p) /\ \A i \in Of(receipt, {"E", "V"}) : p < i /\ Time(p) <= Time(i)
            /\ \A i \in Of(receipt, {"E", "V"}) : contract.checkpointAt <= Time(i)

\* A lease that was acquired is released, after everything done under it, and a
\* release that did not succeed cannot be hidden: neither by an earlier attempt
\* that did, nor by a verdict on the rest, nor by leaving out the warning.
NoLeaseLeftBehind ==
  Accepted /\ (\E i \in Of(receipt, {"A"}) : Passed(i)) =>
    LET releases == Of(receipt, {"L"})
        last == Final(releases)
    IN /\ releases # {}
       /\ \A i \in DOMAIN receipt.checks, l \in releases :
            Kind(i) \notin {"L", "F"} => i < l /\ Time(i) <= Time(l)
       /\ \A i \in Of(receipt, {"A", "R", "L"}) :
            receipt.checks[i].lease = submission.sources[1].checkId
       /\ ~Passed(last) =>
            /\ receipt.lifecycle = receipt.checks[last].outcome
            /\ \E w \in DOMAIN receipt.warnings :
                 receipt.warnings[w].related = receipt.checks[last].id

\* The route from the first gate to issuance that a denied lifecycle was on.
Route ==
  GTypes \o IF receipt.origin.checkpoint \in {"A", "R"} \/ receipt.origin.state = "acquired"
            THEN <<"A", "R", "I">> ELSE <<"N", "I">>

\* A denial ends the lifecycle where it happened: everything before the denying
\* checkpoint was done and passed, nothing beyond it was begun, and one check,
\* the last of them all, denied.
DenialStopsTheLifecycle ==
  Accepted /\ ~Issued(receipt) =>
    LET done == Of(receipt, Ordinary)
        denied == {i \in done : ~Passed(i)}
    IN /\ \E k \in DOMAIN Route :
            /\ Route[k] = receipt.origin.checkpoint
            /\ Types(done) = {Route[l] : l \in 1 .. k}
       /\ denied = {Final(done)}
       /\ Types(denied) = {receipt.origin.checkpoint}
       /\ contract = Absent

\* "succeeded" says that it was all done and that it all went well: executed
\* and verified as often as it was tried, every required postcondition checked,
\* every changed path inside the scope, the lease given back, nothing open.
SucceededMeansDone ==
  Accepted /\ receipt.lifecycle = "succeeded" =>
    /\ Issued(receipt) /\ Of(receipt, {"E"}) # {} /\ Of(receipt, {"V"}) # {}
    /\ \A i \in DOMAIN receipt.checks :
         receipt.checks[i].outcome \in {"passed", "succeeded"} \/ Kind(i) = "L"
    /\ Leased => Passed(Final(Of(receipt, {"L"})))
    /\ receipt.warnings = << >>
    /\ contract.posts \subseteq {receipt.checks[i].post : i \in Of(receipt, {"V"})}
    /\ receipt.changed \subseteq contract.paths
    /\ receipt.evidence # Absent => receipt.evidence.operations \subseteq contract.capabilities

\* What a display of the derived chronology says (the table of displays 21-31).
Meaning(number) ==
  LET NonFinal == NonF(receipt)
      Finals   == Of(receipt, {"F"})
      denial   == receipt.origin.observedAt
      Until(S, instant) == S # {} /\ \A i \in S : Time(i) <= instant
  IN CASE number = 21 -> receipt.startedAt <= receipt.sanitizedAt
       [] number = 22 -> receipt.sanitizedAt <= receipt.finishedAt
       [] number = 23 -> receipt.startedAt <= receipt.finishedAt
       [] number = 24 -> receipt.startedAt <= denial
       [] number = 25 -> denial <= receipt.sanitizedAt
       [] number = 26 -> \A f \in Finals : denial <= Time(f)
       [] number = 27 -> receipt.startedAt <= contract.issuedAt
       [] number = 28 -> \A l \in Of(receipt, {"L"}) : denial <= Time(l)
       [] number = 29 -> \A i \in NonFinal, f \in Finals : Time(i) <= Time(f)
       [] number = 30 -> Until(Of(receipt, {"R"}), contract.issuedAt)
       [] number = 31 -> Until(Of(receipt, {"N"}), contract.issuedAt)

\* A derived display is true of the receipt, also of one that is not accepted
\* and of which some primitive relation fails.
DerivedIsSound == \A number \in derived : Meaning(number)

-----------------------------------------------------------------------------
Needed ==
  {"input", "receipt digest"}
    \cup (IF Issued(receipt) THEN {"completed", "contract digest"} ELSE {"evidence digest"})
    \cup (IF Leased THEN {"source digest"} ELSE {})

\* Acceptance rests on every proof the submission calls for, on digests that
\* are the ones it states, and on no proof it does not call for.
AcceptanceIsProven ==
  Accepted => /\ \A handle \in Handles : Holds(ctx, handle) <=> handle \in Needed
              /\ submission.mismatched \cap Needed = {}

\* A proof is asked for only when what it rests on is settled: the digest of a
\* denial's evidence after the source and the controller, the digest of the
\* whole receipt after everything else.
ProofsInOrder ==
  [][/\ Holds(ctx, "evidence digest")' /\ ~Holds(ctx, "evidence digest") =>
          /\ ~ctx.failed
          /\ Leased => Holds(ctx, "source digest")
          /\ receipt.origin.controller \in
               {receipt.checks[i].id : i \in Of(receipt, {receipt.origin.checkpoint})}
     /\ Holds(ctx, "receipt digest")' /\ ~Holds(ctx, "receipt digest") =>
          Untainted(ctx) /\ \A handle \in Needed \ {"receipt digest"} : Holds(ctx, handle)]_vars

\* A history that breaks no rule is never called invalid because somebody did
\* not answer, and it is accepted when everybody did.
HonestHistoryIsNotRefuted ==
  at = "over" /\ submission.mismatched = {} =>
    ~ctx.failed /\ (ctx.required = {} => Accepted)
=============================================================================
