---------------------------- MODULE Adjudication ----------------------------
(***************************************************************************)
(* What a static-validation call promises its caller, whatever its stages: *)
(* grounds against acceptance only accumulate, nothing is decided before   *)
(* the end, and the one verdict says which grounds there are - a violation *)
(* outranks everything, and acceptance means that there are none.          *)
(***************************************************************************)
VARIABLES grounds, verdict

Grounds == {"violation", "unevaluated", "obligation"}

Judgement(g) == IF "violation" \in g THEN "INVALID"
                ELSE IF g # {} THEN "PROOF_REQUIRED" ELSE "PASS"

Init == grounds = {} /\ verdict = "pending"

Observe ==
  /\ verdict = "pending"
  /\ grounds' \in {grounds \cup more : more \in SUBSET Grounds}
  /\ UNCHANGED verdict

Decide ==
  /\ verdict = "pending"
  /\ verdict' = Judgement(grounds)
  /\ UNCHANGED grounds

Next == Observe \/ Decide

Spec == Init /\ [][Next]_<<grounds, verdict>>
=============================================================================
