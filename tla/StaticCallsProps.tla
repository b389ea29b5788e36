-------------------------- MODULE StaticCallsProps --------------------------
(***************************************************************************)
(* What must hold of the calls of StaticCalls.                             *)
(***************************************************************************)
EXTENDS StaticCalls

\* Every variable has its type.
TypeOK ==
  /\ scope \in Scopes
  /\ ctx \in [{0, 1} -> ContextType(Requirement, Handle)]
  /\ at \in [{0, 1} -> Nat \ {0}]
  /\ depth \in {0, 1}
  /\ members \in 0 .. MaxMembers
  /\ member \in 0 .. MaxMembers
  /\ checked \in Nat
  /\ result \in [status : {"pending", "INVALID", "PROOF_REQUIRED", "PASS"},
                 direct : {"True", "None", "False"}, clear : BOOLEAN]
  /\ version \in [Object -> {0, 1}]
  /\ mutations \in 0 .. MaxMutations
  /\ missed \subseteq {"input", "predicate"}
  /\ consumed \subseteq Handle
  /\ stale \subseteq consumed

\* No stage is skipped on the way to acceptance: whatever early return the
\* pipelines take, in the call or in a nested call for a member, something
\* stays behind that keeps _finish_result from answering PASS.
AcceptanceIsComplete ==
  result.status = "PASS" => missed = {}

\* direct_checks_passed = True promises that every predicate that needs no
\* external proof was evaluated and held, even while proofs are missing; only
\* input provenance may be open.
DirectIsComplete ==
  result.direct = "True" => missed \subseteq {"input"}

\* A changed input or snapshot cannot retain acceptance: a handle the call
\* holds that was broken when the re-check loop began, and stayed so, keeps
\* the call from PASS (the comment on _finish_result).
NoStaleAcceptance ==
  result.status = "PASS" =>
    \A i \in DOMAIN ctx[0].proofs : ctx[0].proofs[i] \notin stale

\* The same promise for the whole same-host proof, the nested validations of the
\* snapshot's members included: "a relevant mid-proof configuration change
\* invalidates the complete proof" (schema-contract-v1alpha1.md).
NoStaleAcceptanceInCall == result.status = "PASS" => stale = {}

\* A later call that asks for this call's completed validation accepts exactly
\* the results that say PASS (_completed_static).
PassIsCompleted == result # Pending => (Completed(result) <=> result.status = "PASS")

\* The call ends, whatever the provider leaves out and however often somebody
\* changes an operand.
CallEnds == <>(result # Pending)

-----------------------------------------------------------------------------
\* The calls implement Adjudication: the grounds are those of the open frames.
Abstract == INSTANCE Adjudication WITH
  grounds <- GroundsOf(ctx[0]) \cup (IF depth = 1 THEN GroundsOf(ctx[1]) ELSE {}),
  verdict <- result.status

\* A call adjudicates: no ground is lost when a nested call is merged, and
\* the verdict is the one its grounds call for.
Adjudicates == Abstract!Spec
=============================================================================
