--------------------------- MODULE StaticContext ---------------------------
(***************************************************************************)
(* The record every static-validation call carries: _ValidationContext of  *)
(* _static_core.py, the operations on it and the verdict _finish_result    *)
(* draws from it.  A requirement identifier stands for the diagnostic or   *)
(* the obligation that names it (locations, pointers and message texts are *)
(* left out), so the two lists are sets, as _finish_result makes them.     *)
(***************************************************************************)
EXTENDS Sequences

\* _ValidationContext.__init__: nothing failed, nothing left open.
NewContext ==
  [failed |-> FALSE, unevaluated |-> FALSE,
   diagnostics |-> {}, required |-> {}, proofs |-> << >>]

ContextType(Requirement, Handle) ==
  [failed : BOOLEAN, unevaluated : BOOLEAN,
   diagnostics : SUBSET Requirement, required : SUBSET Requirement,
   proofs : Seq(Handle)]

\* ctx.check for a group of rules, of which those in "violated" do not hold.
Report(c, violated) ==
  [c EXCEPT !.failed = @ \/ violated # {},
            !.diagnostics = @ \cup violated]

\* Mutant of Unavailable: "direct" is dropped, as if every obligation were one
\* of input provenance.
UnavailableNeverDirect(c, requirement, direct) ==
  [c EXCEPT !.required = @ \cup {requirement},
            !.diagnostics = @ \cup {requirement}]

\* ctx.unavailable: the obligation is kept; a direct one also means that a
\* predicate of the call was not evaluated.
Unavailable(c, requirement, direct) ==
  [c EXCEPT !.unevaluated = @ \/ direct,
            !.required = @ \cup {requirement},
            !.diagnostics = @ \cup {requirement}]

\* ctx.unevaluated = True.
LeaveUnevaluated(c) == [c EXCEPT !.unevaluated = TRUE]

\* ctx.proofs.append: the handle a successful _require_proof remembers.
Consume(c, handle) == [c EXCEPT !.proofs = Append(@, handle)]

\* A result of _finish_result that no step of the call has dented.
Untainted(c) == ~c.failed /\ ~c.unevaluated /\ c.required = {}

\* Mutant of Verdict: only listed obligations keep a call from acceptance.
VerdictWithoutGaps(c) == IF c.failed THEN "INVALID"
                         ELSE IF c.required # {} THEN "PROOF_REQUIRED" ELSE "PASS"

Verdict(c) == IF c.failed THEN "INVALID"
              ELSE IF c.required # {} \/ c.unevaluated THEN "PROOF_REQUIRED"
              ELSE "PASS"

\* direct_checks_passed: False, None or True.
Direct(c) == IF c.failed THEN "False"
             ELSE IF c.unevaluated THEN "None" ELSE "True"

\* Mutant of Merge: the nested call's open predicates are not taken over.
MergeWithoutGaps(c, nested) ==
  [c EXCEPT !.failed = @ \/ Verdict(nested) = "INVALID",
            !.diagnostics = @ \cup nested.diagnostics,
            !.required = @ \cup nested.required]

\* What an enclosing call keeps of a nested call's result.  The nested
\* context's proofs stay behind: the result does not carry them.
Merge(c, nested) ==
  [c EXCEPT !.failed = @ \/ Verdict(nested) = "INVALID",
            !.unevaluated = @ \/ Verdict(nested) # "PASS",
            !.diagnostics = @ \cup nested.diagnostics,
            !.required = @ \cup nested.required]

Pending == [status |-> "pending", direct |-> "None", clear |-> FALSE]

\* StaticValidationResult; "clear" says that neither tuple holds a member.
Result(c) == [status |-> Verdict(c), direct |-> Direct(c),
              clear |-> c.diagnostics = {} /\ c.required = {}]

\* The result of a call as _completed_static reads it in a later one.
Completed(r) == r.status = "PASS" /\ r.direct = "True" /\ r.clear

\* The grounds against acceptance that a context holds, as Adjudication has them.
GroundsOf(c) ==
  {g \in {"violation", "unevaluated", "obligation"} :
     \/ g = "violation" /\ c.failed
     \/ g = "unevaluated" /\ c.unevaluated
     \/ g = "obligation" /\ c.required # {}}
=============================================================================
