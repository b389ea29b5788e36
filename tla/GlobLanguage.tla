---------------------------- MODULE GlobLanguage ----------------------------
(***************************************************************************)
(* The restricted path patterns of _static_paths.py and the automata that  *)
(* decide them.  A text is a sequence of code points; a pattern is the     *)
(* sequence of its components, the texts between the slashes.              *)
(***************************************************************************)
EXTENDS Integers, Sequences, FiniteSets

CONSTANT MaxLength    \* longest path of the universe (4096 in the code)

ASSUME LengthAssumption == MaxLength \in Nat

CodePoints == {x \in Nat : x < 1114112}
Star       == 42
Dot        == 46
Slash      == 47
Colon      == 58
Query      == 63
Backslash  == 92
Letters    == 65 .. 90 \cup 97 .. 122
Surrogates == 55296 .. 57343
Forbidden  == {0, 33, 40, 41, 91, Backslash, 93, 123, 125} \cup Surrogates

\* _SCALARS: what "*" and "?" stand for.
IsScalar(x) == x \notin {0, Slash, Backslash} /\ x \notin Surrogates

\* "", ".", ".." and ".git": what no component may be.
Reserved == { << >>, <<Dot>>, <<Dot, Dot>>, <<Dot, 103, 105, 116>> }
Doubled  == <<Star, Star>>

TextLength(pattern) ==
  LET upTo[i \in 0 .. Len(pattern)] ==
        IF i = 0 THEN 0 ELSE upTo[i - 1] + Len(pattern[i]) + 1
  IN upTo[Len(pattern)] - 1

\* _parse_pattern: TRUE where it returns the components.
Parses(pattern) ==
  /\ TextLength(pattern) \in 1 .. 4096
  /\ ~ (Len(pattern[1]) > 1 /\ pattern[1][1] \in Letters /\ pattern[1][2] = Colon)
  /\ \A i \in DOMAIN pattern :
       /\ pattern[i] \notin Reserved
       /\ \A j \in DOMAIN pattern[i] : pattern[i][j] \notin Forbidden
       /\ pattern[i] # Doubled =>
            \A j \in 2 .. Len(pattern[i]) : SubSeq(pattern[i], j - 1, j) # Doubled

-----------------------------------------------------------------------------
\* _compile_pattern_nfa.  A state is <<component, seen, position, consumed>>:
\* in front of the component numbered component + 1, with a segment behind it
\* if "seen"; at position AtBoundary, or that many tokens into the component,
\* with a scalar of its segment behind it if "consumed".

AtBoundary == -1
Boundary(i, seen) == <<i, seen, AtBoundary, FALSE>>

\* The fragment compiled for a component: "**" repeats that of "*".
Tokens(component) == IF component = Doubled THEN <<Star>> ELSE component

FragmentStates(component) ==
  LET n == Len(Tokens(component))
  IN 2 * n + 1 + (IF Tokens(component)[n] = Star THEN 1 ELSE 0)

\* States the budget is charged for: the fragment, its two copies, boundaries.
NfaStates(pattern) ==
  LET upTo[i \in 0 .. Len(pattern)] ==
        IF i = 0 THEN 2 ELSE upTo[i - 1] + 3 * FragmentStates(pattern[i]) + 2
  IN upTo[Len(pattern)]

\* Mutant of Segment: a repeated component does not come back to itself.
SegmentOnce(pattern, i) == Boundary(i + 1, TRUE)

\* Where a segment matched by component i + 1 leads.
Segment(pattern, i) ==
  Boundary(IF pattern[i + 1] = Doubled THEN i ELSE i + 1, TRUE)

Epsilon(pattern, state) ==
  LET i == state[1]   seen == state[2]   p == state[3]
      tokens == Tokens(pattern[i + 1])
  IN IF p = AtBoundary
     THEN IF i = Len(pattern) THEN {}
          ELSE (IF pattern[i + 1] = Doubled THEN {Boundary(i + 1, seen)} ELSE {})
                 \cup (IF seen THEN {} ELSE {<<i, seen, 0, FALSE>>})
     ELSE IF p = Len(tokens)
     THEN IF state[4] THEN {Segment(pattern, i)} ELSE {}
     ELSE IF tokens[p + 1] = Star THEN {<<i, seen, p + 1, state[4]>>} ELSE {}

Edges(pattern, state, scalar) ==
  LET i == state[1]   seen == state[2]   p == state[3]
      tokens == Tokens(pattern[i + 1])
      reads(token) == IF token \in {Star, Query} THEN IsScalar(scalar) ELSE scalar = token
  IN IF p = AtBoundary
     THEN IF i < Len(pattern) /\ seen /\ scalar = Slash THEN {<<i, seen, 0, FALSE>>} ELSE {}
     ELSE IF p = Len(tokens) \/ ~reads(tokens[p + 1]) THEN {}
     ELSE {<<i, seen, IF tokens[p + 1] = Star THEN p ELSE p + 1, TRUE>>}

States(pattern) ==
  {Boundary(i, seen) : i \in 0 .. Len(pattern), seen \in BOOLEAN}
    \cup UNION {{<<i - 1, seen, p, consumed>> :
                   seen \in BOOLEAN, p \in 0 .. Len(Tokens(pattern[i])), consumed \in BOOLEAN} :
                 i \in DOMAIN pattern}

\* _NFA.closure, _DFA.start, _DFA.step and _DFA.accepting.  The empty set is
\* the sink.
Closure(pattern, states) ==
  LET closed[S \in SUBSET States(pattern)] ==
        LET more == S \cup UNION {Epsilon(pattern, s) : s \in S}
        IN IF more = S THEN S ELSE closed[more]
  IN closed[states]

DfaStart(pattern) == Closure(pattern, {Boundary(0, FALSE)})
DfaStep(pattern, states, scalar) ==
  Closure(pattern, UNION {Edges(pattern, s, scalar) : s \in states})
DfaAccepts(pattern, states) ==
  \E seen \in BOOLEAN : Boundary(Len(pattern), seen) \in states

-----------------------------------------------------------------------------
\* _Universe: the lexical profile of a relative path.

OtherComponent == <<Star>>     \* no longer a prefix of a reserved component
UniverseStart == [length |-> 0, letter |-> FALSE, component |-> << >>]

\* The component the path is in after one more scalar.
Reach(u, scalar) ==
  IF scalar = Slash THEN << >>
  ELSE IF u.component = OtherComponent THEN OtherComponent
  ELSE LET candidate == Append(u.component, scalar)
       IN IF \E r \in Reserved : Len(candidate) <= Len(r) /\ SubSeq(r, 1, Len(candidate)) = candidate
          THEN candidate ELSE OtherComponent

\* The state after one more scalar, in a set that is empty where there is none.
UniverseStep(u, scalar) ==
  IF \/ u.length = MaxLength
     \/ scalar \in {0, Backslash} \/ scalar \in Surrogates
     \/ u.length = 1 /\ u.letter /\ scalar = Colon
     \/ scalar = Slash /\ u.component \in Reserved
  THEN {}
  ELSE {[length |-> u.length + 1, letter |-> u.length = 0 /\ scalar \in Letters,
         component |-> Reach(u, scalar)]}

\* Mutant of UniverseAccepts: the last component is not looked at.
UniverseAcceptsAny(u) == u.length > 0

UniverseAccepts(u) == u.length > 0 /\ u.component \notin Reserved

-----------------------------------------------------------------------------
\* unicodedata.is_normalized("NFC", word), for the scalars the runs use: a
\* letter that composes with the acute accent after it, and a singleton.
Acute    == 769
Angstrom == 8491
Nfc(word) ==
  /\ \A i \in DOMAIN word : word[i] # Angstrom
  /\ \A i \in 2 .. Len(word) : ~ (word[i] = Acute /\ word[i - 1] \in {97, 101})
=============================================================================
