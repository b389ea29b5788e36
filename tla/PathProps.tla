----------------------------- MODULE PathProps -----------------------------
(***************************************************************************)
(* What the answers of PathProof mean, against the path language as        *)
(* docs/schema-contract-v1alpha1.md:1433-1451 defines it: by segments, and *)
(* without an automaton.                                                   *)
(***************************************************************************)
EXTENDS PathProof

CONSTANT Sample    \* scalars of the paths over which inclusion is checked

ASSUME SampleAssumption == Sample \subseteq CodePoints

\* The segments of a text: a slash begins another.
Segments(word) ==
  LET upTo[n \in 0 .. Len(word)] ==
        IF n = 0 THEN << << >> >>
        ELSE IF word[n] = Slash THEN Append(upTo[n - 1], << >>)
        ELSE [upTo[n - 1] EXCEPT ![Len(upTo[n - 1])] = Append(@, word[n])]
  IN upTo[Len(word)]

\* From where in a segment the tokens from i on match the rest of it: "*" takes
\* any number of scalars, "?" takes one.
MatchesSegment(tokens, segment) ==
  LET ends == 1 .. Len(segment) + 1
      from[i \in 1 .. Len(tokens) + 1] ==
        IF i > Len(tokens) THEN {Len(segment) + 1}
        ELSE IF tokens[i] = Star THEN {j \in ends : \E k \in from[i + 1] : j <= k}
        ELSE {j \in DOMAIN segment : tokens[i] \in {Query, segment[j]} /\ j + 1 \in from[i + 1]}
  IN 1 \in from[1]

\* From where in a path the components from i on match the rest of it: "**"
\* takes any number of segments.
Matches(pattern, path) ==
  LET ends == 1 .. Len(path) + 1
      from[i \in 1 .. Len(pattern) + 1] ==
        IF i > Len(pattern) THEN {Len(path) + 1}
        ELSE IF pattern[i] = Doubled THEN {j \in ends : \E k \in from[i + 1] : j <= k}
        ELSE {j \in DOMAIN path : path[j] # << >> /\ MatchesSegment(pattern[i], path[j])
                                   /\ j + 1 \in from[i + 1]}
  IN 1 \in from[1]

InScope(path, k) ==
  LET matched(side) == \E j \in DOMAIN Scope(k)[side] : Matches(Scope(k)[side][j], path)
  IN matched("include") /\ ~matched("exclude")

\* repositoryRelativePath without its normal form.
IsPath(word) ==
  /\ Len(word) \in 1 .. MaxLength
  /\ \A i \in DOMAIN word : word[i] = Slash \/ IsScalar(word[i])
  /\ Range(Segments(word)) \cap Reserved = {}
  /\ ~ (Len(word) > 1 /\ word[1] \in Letters /\ word[2] = Colon)

SamplePaths ==
  {Segments(w) : w \in {w \in UNION {[1 .. n -> Sample \cup {Slash}] : n \in 1 .. MaxLength} :
                          IsPath(w) /\ Nfc(w)}}

Widens(path) ==
  InScope(path, 1) /\ \A k \in DOMAIN question.scopes \ {1} : ~InScope(path, k)

Decided == answer \in {"proven", "refuted", "inside", "outside"}

\* The variables have their types: every count belongs to a budget and every
\* state of the queue has a predecessor (_Residual.search).
TypeOK ==
  /\ phase \in {"compile", "begin", "search", "walk", "done"}
  /\ answer \in {"pending", "proven", "refuted", "inside", "outside", "unavailable"}
  /\ counts \in [DOMAIN MaxLimits -> Nat]
  /\ Range(queue) \subseteq DOMAIN predecessor
  /\ ctx \in [failed : BOOLEAN, unevaluated : BOOLEAN,
              diagnostics : SUBSET {"obligation", "violation"},
              required : SUBSET {"obligation"}, proofs : {<< >>}]

\* "Proven" is inclusion: every NFC path of the overlay's scope is in the scope
\* of some domain (the subset construction, the product, its pruning and the
\* removed words of _Residual).
ProvenIsIncluded ==
  answer = "proven" => \A p \in SamplePaths : ~Widens(p)

\* "Refuted" has a reason: the word that the predecessors spell is an NFC path
\* of the overlay's scope and of no domain's (_Residual.search, _Universe).
RefutedHasWitness ==
  answer = "refuted" => IsPath(Witness) /\ Nfc(Witness) /\ Widens(Segments(Witness))

\* Membership of one path is membership in the language, for paths no proof has
\* put in normal form as well (_closed_path_membership).
MembershipIsExact ==
  answer \in {"inside", "outside"} =>
    (answer = "inside" <=> IsPath(question.path) /\ InScope(Segments(question.path), 1))

\* A clean context needs a decision within every budget, on patterns of the
\* grammar, under the known table of normal forms; everything else fails closed,
\* and a refutation is never mistaken for a lack of proof
\* (the except clauses of _prove_scope_subset and _closed_path_membership).
FailsClosed ==
  answer # "pending" =>
    /\ Verdict(ctx) = "PASS" => Decided
    /\ Verdict(ctx) = "INVALID" <=> answer = "refuted"
    /\ Decided =>
         /\ \A k \in DOMAIN MaxLimits : counts[k] <= question.limits[k]
         /\ \A d \in Automata : Pattern(d) \notin {<<c>> : c \in Reserved}
         /\ question.call = "subset" => question.unicode

\* Every round of the search removes a word that no earlier one removed, that
\* is not NFC and that would have refuted the inclusion
\* (_exact_nfc_relative_emptiness).
RoundsRemoveNewWords ==
  \A i \in DOMAIN excluded :
    /\ ~Nfc(excluded[i]) /\ IsPath(excluded[i]) /\ Widens(Segments(excluded[i]))
    /\ \A j \in 1 .. i - 1 : excluded[j] # excluded[i]

\* The proof ends, however many words must be removed (the while loops of
\* _exact_nfc_relative_emptiness and _Residual.search).
ProofEnds == <>(answer # "pending")
=============================================================================
