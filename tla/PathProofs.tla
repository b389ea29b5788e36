----------------------------- MODULE PathProofs -----------------------------
(***************************************************************************)
(* Proofs about PathProof, for any questions: any scopes, patterns, paths  *)
(* and limits, whatever is charged for them, whatever interrupts them and  *)
(* whatever words are in normal form.                                      *)
(*                                                                         *)
(* The argument goes from the automata to the answers.                     *)
(*   1. A state of a pattern's automaton promises what the rest of a word  *)
(*      has to match.  Edges make no promise that was not there before,    *)
(*      and a closed set of states keeps those it makes, so that a set     *)
(*      accepts the words the pattern matches by the reference definition  *)
(*      (AutomatonIsExact).  The universe follows the beginnings of paths. *)
(*   2. So the product accepts a word that leads to one of its states if   *)
(*      it is a path that widens and was not removed (AcceptsIs).          *)
(*   3. Every product state that a search has found is to be looked at or  *)
(*      does not accept and leads to states found; its predecessors spell  *)
(*      a word that leads to it (Searching).                               *)
(*   4. A scalar leads where the one of its interval does that is searched *)
(*      with (StepRepresented), so that an exhausted search has left out   *)
(*      no path over all of Unicode (ExhaustedIsIncluded).                 *)
(* Inv says when an answer is given at all; SearchInv, ProvenInv and       *)
(* TypedInv each add a layer to it.                                        *)
(***************************************************************************)
EXTENDS PathProps, CommonProofs, FiniteSetTheorems

-----------------------------------------------------------------------------
\* The states and edges of an automaton.

\* The scalars the grammar names are code points.
LEMMA CodePointsAre == CodePoints \subseteq Int /\ Star \in CodePoints /\ Query \in CodePoints /\ Slash \in CodePoints
BY SMT DEF CodePoints, Star, Query, Slash

\* A pattern that parses.
IsPattern(pattern) ==
  /\ pattern \in Seq(Seq(CodePoints) \ {<< >>}) /\ pattern # << >>
  /\ \A i \in DOMAIN pattern : Slash \notin Range(pattern[i])

\* The tokens of a component: "**" stands for one star.
LEMMA TokensFacts ==
  ASSUME NEW pattern, IsPattern(pattern), NEW i \in DOMAIN pattern
  PROVE  /\ Tokens(pattern[i]) \in Seq(CodePoints) /\ Len(Tokens(pattern[i])) \in Nat \ {0}
         /\ pattern[i] \in Seq(CodePoints)
         /\ Slash \notin Range(Tokens(pattern[i]))
         /\ pattern[i] = Doubled => Tokens(pattern[i]) = <<Star>>
         /\ pattern[i] # Doubled => Tokens(pattern[i]) = pattern[i]
<1>1. pattern[i] \in Seq(CodePoints) /\ pattern[i] # << >> /\ Slash \notin Range(pattern[i])
  BY DEF IsPattern
<1>2. CASE pattern[i] = Doubled
  <2>1. Tokens(pattern[i]) = <<Star>> /\ <<Star>> \in Seq(CodePoints) /\ Len(<<Star>>) = 1
    BY <1>2, CodePointsAre DEF Tokens
  <2>2. Slash \notin Range(<<Star>>) BY DEF Range, Star, Slash
  <2>3. QED BY <1>1, <1>2, <2>1, <2>2
<1>3. CASE pattern[i] # Doubled
  <2>1. Tokens(pattern[i]) = pattern[i] BY <1>3 DEF Tokens
  <2>2. Len(pattern[i]) \in Nat \ {0} BY <1>1
  <2>3. QED BY <1>1, <1>3, <2>1, <2>2
<1>4. QED BY <1>2, <1>3

\* A state is a boundary, or a place within the tokens of a component.
LEMMA StatesAre ==
  ASSUME NEW pattern, IsPattern(pattern), NEW q \in States(pattern)
  PROVE  \/ \E i \in 0 .. Len(pattern), seen \in BOOLEAN : q = Boundary(i, seen)
         \/ \E i \in 0 .. Len(pattern) - 1, seen \in BOOLEAN, consumed \in BOOLEAN :
              \E p \in 0 .. Len(Tokens(pattern[i + 1])) : q = <<i, seen, p, consumed>>
<1>1. CASE \E i \in 0 .. Len(pattern), seen \in BOOLEAN : q = Boundary(i, seen) BY <1>1
<1>2. CASE \E i \in DOMAIN pattern : \E seen \in BOOLEAN, p \in 0 .. Len(Tokens(pattern[i])), consumed \in BOOLEAN :
             q = <<i - 1, seen, p, consumed>>
  <2>1. PICK i \in DOMAIN pattern : \E seen \in BOOLEAN, p \in 0 .. Len(Tokens(pattern[i])), consumed \in BOOLEAN :
             q = <<i - 1, seen, p, consumed>> BY <1>2
  <2>2. DOMAIN pattern = 1 .. Len(pattern) /\ Len(pattern) \in Nat BY DEF IsPattern
  <2>3. i - 1 \in 0 .. Len(pattern) - 1 /\ (i - 1) + 1 = i BY <2>2
  <2>4. QED BY <2>1, <2>3
<1>3. QED BY <1>1, <1>2 DEF States

\* And all of them are states.
LEMMA StatesHave ==
  ASSUME NEW pattern, IsPattern(pattern)
  PROVE  /\ \A i \in 0 .. Len(pattern), seen \in BOOLEAN : Boundary(i, seen) \in States(pattern)
         /\ \A i \in 0 .. Len(pattern) - 1, seen \in BOOLEAN, consumed \in BOOLEAN :
              \A p \in 0 .. Len(Tokens(pattern[i + 1])) : <<i, seen, p, consumed>> \in States(pattern)
<1>1. \A i \in 0 .. Len(pattern), seen \in BOOLEAN : Boundary(i, seen) \in States(pattern) BY DEF States
<1>2. ASSUME NEW i \in 0 .. Len(pattern) - 1, NEW seen \in BOOLEAN, NEW consumed \in BOOLEAN,
             NEW p \in 0 .. Len(Tokens(pattern[i + 1]))
      PROVE <<i, seen, p, consumed>> \in States(pattern)
  <2>1. DOMAIN pattern = 1 .. Len(pattern) /\ Len(pattern) \in Nat BY DEF IsPattern
  <2> DEFINE j == i + 1
  <2>2. j \in DOMAIN pattern /\ i = j - 1 BY <2>1
  <2> HIDE DEF j
  <2>3. p \in 0 .. Len(Tokens(pattern[j])) BY DEF j
  <2>4. <<j - 1, seen, p, consumed>> \in States(pattern) BY <2>2, <2>3 DEF States
  <2>5. QED BY <2>2, <2>4
<1>3. QED BY <1>1, <1>2

-----------------------------------------------------------------------------
\* Edges without a scalar stay within the states of the automaton.
LEMMA EpsilonInside ==
  ASSUME NEW pattern, IsPattern(pattern), NEW q \in States(pattern)
  PROVE  Epsilon(pattern, q) \subseteq States(pattern)
<1>0. pattern \in Seq(Seq(CodePoints)) BY DEF IsPattern
<1>1. DOMAIN pattern = 1 .. Len(pattern) /\ Len(pattern) \in Nat BY DEF IsPattern
<1>2. CASE \E i \in 0 .. Len(pattern), seen \in BOOLEAN : q = Boundary(i, seen)
  <2>1. PICK i \in 0 .. Len(pattern), seen \in BOOLEAN : q = Boundary(i, seen) BY <1>2
  <2>2. CASE i = Len(pattern) BY <2>1, <2>2 DEF Epsilon, Boundary, AtBoundary
  <2>3. CASE i < Len(pattern)
    <3>1. i \in 0 .. Len(pattern) - 1 /\ i + 1 \in DOMAIN pattern /\ i + 1 \in 0 .. Len(pattern) BY <1>1, <2>3
    <3>2. 0 \in 0 .. Len(Tokens(pattern[i + 1])) BY <3>1, TokensFacts
    <3>3. <<i, seen, 0, FALSE>> \in States(pattern) /\ Boundary(i + 1, seen) \in States(pattern)
      BY <3>1, <3>2, StatesHave
    <3>4. Epsilon(pattern, q) \subseteq {Boundary(i + 1, seen), <<i, seen, 0, FALSE>>}
      BY <2>1 DEF Epsilon, Boundary, AtBoundary
    <3>5. QED BY <3>3, <3>4
  <2>4. i = Len(pattern) \/ i < Len(pattern) BY <1>0
  <2>5. QED BY <2>2, <2>3, <2>4
<1>3. CASE \E i \in 0 .. Len(pattern) - 1, seen \in BOOLEAN, consumed \in BOOLEAN :
             \E p \in 0 .. Len(Tokens(pattern[i + 1])) : q = <<i, seen, p, consumed>>
  <2>1. PICK i \in 0 .. Len(pattern) - 1, seen \in BOOLEAN, consumed \in BOOLEAN :
             \E p \in 0 .. Len(Tokens(pattern[i + 1])) : q = <<i, seen, p, consumed>> BY <1>3
  <2>2. PICK p \in 0 .. Len(Tokens(pattern[i + 1])) : q = <<i, seen, p, consumed>> BY <2>1
  <2>3. i + 1 \in DOMAIN pattern /\ i + 1 \in 0 .. Len(pattern) /\ i \in 0 .. Len(pattern) BY <1>1
  <2>4. Len(Tokens(pattern[i + 1])) \in Nat BY <2>3, TokensFacts
  <2>5. p # AtBoundary BY DEF AtBoundary
  <2>6. CASE p = Len(Tokens(pattern[i + 1]))
    <3>1. Epsilon(pattern, q) \subseteq {Boundary(i, TRUE), Boundary(i + 1, TRUE)}
      BY <2>2, <2>5, <2>6 DEF Epsilon, Segment
    <3>2. QED BY <2>3, <3>1, StatesHave
  <2>7. CASE p # Len(Tokens(pattern[i + 1]))
    <3>1. Epsilon(pattern, q) \subseteq {<<i, seen, p + 1, consumed>>} BY <2>2, <2>5, <2>7 DEF Epsilon
    <3>2. p + 1 \in 0 .. Len(Tokens(pattern[i + 1])) BY <2>4, <2>7
    <3>3. QED BY <3>1, <3>2, StatesHave
  <2>8. QED BY <2>6, <2>7
<1>4. QED BY <1>2, <1>3, StatesAre

\* In front of the first segment.
First(q) == q[3] = AtBoundary /\ ~q[2]

\* Edges stay within the states, and never lead back to the front.
LEMMA EdgesInside ==
  ASSUME NEW pattern, IsPattern(pattern), NEW q \in States(pattern), NEW scalar
  PROVE  Edges(pattern, q, scalar) \subseteq {s \in States(pattern) : ~First(s)}
<1>0. pattern \in Seq(Seq(CodePoints)) BY DEF IsPattern
<1>1. DOMAIN pattern = 1 .. Len(pattern) /\ Len(pattern) \in Nat BY DEF IsPattern
<1>2. CASE \E i \in 0 .. Len(pattern), seen \in BOOLEAN : q = Boundary(i, seen)
  <2>1. PICK i \in 0 .. Len(pattern), seen \in BOOLEAN : q = Boundary(i, seen) BY <1>2
  <2>2. CASE i = Len(pattern)
    <3>1. q[1] = i /\ q[3] = AtBoundary BY <2>1 DEF Boundary
    <3>2. ~(q[1] < Len(pattern)) BY <1>1, <2>2, <3>1
    <3>3. Edges(pattern, q, scalar) = {} BY <3>1, <3>2 DEF Edges
    <3>4. QED BY <3>3
  <2>3. CASE i < Len(pattern)
    <3>1. i \in 0 .. Len(pattern) - 1 /\ i + 1 \in DOMAIN pattern BY <1>1, <2>3
    <3>2. 0 \in 0 .. Len(Tokens(pattern[i + 1])) BY <3>1, TokensFacts
    <3>3. <<i, seen, 0, FALSE>> \in States(pattern) BY <3>1, <3>2, StatesHave
    <3>4. Edges(pattern, q, scalar) \subseteq {<<i, seen, 0, FALSE>>}
      BY <2>1 DEF Edges, Boundary, AtBoundary
    <3>5. ~First(<<i, seen, 0, FALSE>>) BY DEF First, AtBoundary
    <3>6. QED BY <3>3, <3>4, <3>5
  <2>4. i = Len(pattern) \/ i < Len(pattern) BY <1>0
  <2>5. QED BY <2>2, <2>3, <2>4
<1>3. CASE \E i \in 0 .. Len(pattern) - 1, seen \in BOOLEAN, consumed \in BOOLEAN :
             \E p \in 0 .. Len(Tokens(pattern[i + 1])) : q = <<i, seen, p, consumed>>
  <2>1. PICK i \in 0 .. Len(pattern) - 1, seen \in BOOLEAN, consumed \in BOOLEAN :
             \E p \in 0 .. Len(Tokens(pattern[i + 1])) : q = <<i, seen, p, consumed>> BY <1>3
  <2>2. PICK p \in 0 .. Len(Tokens(pattern[i + 1])) : q = <<i, seen, p, consumed>> BY <2>1
  <2>3. i + 1 \in DOMAIN pattern BY <1>1
  <2>4. Len(Tokens(pattern[i + 1])) \in Nat BY <2>3, TokensFacts
  <2>5. p # AtBoundary BY DEF AtBoundary
  <2>6. CASE p = Len(Tokens(pattern[i + 1])) BY <2>2, <2>5, <2>6 DEF Edges
  <2>7. CASE p # Len(Tokens(pattern[i + 1]))
    <3>1. Edges(pattern, q, scalar) \subseteq {<<i, seen, p, TRUE>>, <<i, seen, p + 1, TRUE>>}
      BY <2>2, <2>5, <2>7 DEF Edges
    <3>2. p \in 0 .. Len(Tokens(pattern[i + 1])) /\ p + 1 \in 0 .. Len(Tokens(pattern[i + 1])) BY <2>4, <2>7
    <3>3. p + 1 # AtBoundary BY DEF AtBoundary
    <3>4. ~First(<<i, seen, p, TRUE>>) /\ ~First(<<i, seen, p + 1, TRUE>>) BY <2>5, <3>3 DEF First
    <3>5. <<i, seen, p, TRUE>> \in States(pattern) /\ <<i, seen, p + 1, TRUE>> \in States(pattern)
      BY <3>2, StatesHave
    <3>6. QED BY <3>1, <3>4, <3>5
  <2>8. QED BY <2>6, <2>7
<1>4. QED BY <1>2, <1>3, StatesAre

\* The image of a finite set is finite.
LEMMA ImageFinite ==
  ASSUME NEW S, IsFiniteSet(S), NEW f, DOMAIN f = S PROVE IsFiniteSet({f[x] : x \in S})
<1> DEFINE T == {f[x] : x \in S}   g == [x \in S |-> f[x]]
<1>1. g \in Surjection(S, T) BY DEF Surjection
<1> HIDE DEF T, g
<1>2. IsFiniteSet(T) BY <1>1, FS_Surjection
<1>3. QED BY <1>2 DEF T

\* An automaton has finitely many states, so that closing a set of them ends.
LEMMA StatesFinite ==
  ASSUME NEW pattern, IsPattern(pattern) PROVE IsFiniteSet(States(pattern))
<1>1. DOMAIN pattern = 1 .. Len(pattern) /\ Len(pattern) \in Nat BY DEF IsPattern
<1>2. IsFiniteSet(BOOLEAN)
  <2>1. BOOLEAN = {TRUE} \cup {FALSE} OBVIOUS
  <2>2. IsFiniteSet({TRUE}) /\ IsFiniteSet({FALSE}) BY FS_Singleton
  <2>3. QED BY <2>1, <2>2, FS_Union
<1> DEFINE Boundaries == {Boundary(i, seen) : i \in 0 .. Len(pattern), seen \in BOOLEAN}
<1>3. IsFiniteSet(Boundaries)
  <2> DEFINE R == 0 .. Len(pattern)
             S == R \X BOOLEAN
             f == [x \in S |-> Boundary(x[1], x[2])]
  <2>1. IsFiniteSet(R) BY <1>1, FS_Interval
  <2> HIDE DEF R
  <2>2. IsFiniteSet(S) BY <1>2, <2>1, FS_Product
  <2>3. ASSUME NEW y \in Boundaries PROVE y \in {f[x] : x \in S}
    <3>1. PICK i \in R, seen \in BOOLEAN : y = Boundary(i, seen) BY <2>3 DEF R
    <3>2. <<i, seen>> \in S OBVIOUS
    <3>3. f[<<i, seen>>] = y BY <3>1, <3>2
    <3>4. QED BY <3>2, <3>3
  <2>4. DOMAIN f = S OBVIOUS
  <2> HIDE DEF S, f, Boundaries
  <2>5. IsFiniteSet({f[x] : x \in S}) BY <2>2, <2>4, ImageFinite
  <2>6. Boundaries \subseteq {f[x] : x \in S} BY <2>3
  <2>7. QED BY <2>5, <2>6, FS_Subset
<1> DEFINE Inside(i) == {<<i - 1, seen, p, consumed>> :
                   seen \in BOOLEAN, p \in 0 .. Len(Tokens(pattern[i])), consumed \in BOOLEAN}
<1>4. ASSUME NEW i \in DOMAIN pattern PROVE IsFiniteSet(Inside(i))
  <2> DEFINE P == 0 .. Len(Tokens(pattern[i]))
             S == BOOLEAN \X P
             T == S \X BOOLEAN
             f == [x \in T |-> <<i - 1, x[1][1], x[1][2], x[2]>>]
  <2>0. Len(Tokens(pattern[i])) \in Nat BY TokensFacts
  <2>1. IsFiniteSet(P) BY <2>0, FS_Interval
  <2>2. IsFiniteSet(S)
    <3> HIDE DEF P
    <3>1. QED BY <1>2, <2>1, FS_Product
  <2>3. IsFiniteSet(T)
    <3> HIDE DEF S
    <3>1. QED BY <1>2, <2>2, FS_Product
  <2>4. ASSUME NEW y \in Inside(i) PROVE y \in {f[x] : x \in T}
    <3>1. PICK seen \in BOOLEAN, p \in P, consumed \in BOOLEAN : y = <<i - 1, seen, p, consumed>> BY <2>4
    <3> HIDE DEF P
    <3> DEFINE x == <<<<seen, p>>, consumed>>
    <3>2. x \in T /\ x[1][1] = seen /\ x[1][2] = p /\ x[2] = consumed OBVIOUS
    <3> HIDE DEF x, S, T
    <3>3. f[x] = y BY <3>1, <3>2
    <3> HIDE DEF f
    <3>4. QED BY <3>2, <3>3
  <2>5. DOMAIN f = T OBVIOUS
  <2> HIDE DEF T, f, Inside
  <2>6. IsFiniteSet({f[x] : x \in T}) BY <2>3, <2>5, ImageFinite
  <2>7. Inside(i) \subseteq {f[x] : x \in T} BY <2>4
  <2>8. QED BY <2>6, <2>7, FS_Subset
<1> DEFINE f == [i \in DOMAIN pattern |-> Inside(i)]
           All == {f[i] : i \in DOMAIN pattern}
<1> HIDE DEF Inside
<1>5. IsFiniteSet(All)
  <2>1. IsFiniteSet(DOMAIN pattern) BY <1>1, FS_Interval
  <2>2. DOMAIN f = DOMAIN pattern OBVIOUS
  <2> HIDE DEF f
  <2>3. QED BY <2>1, <2>2, ImageFinite
<1>6. IsFiniteSet(UNION All)
  <2>1. \A T \in All : IsFiniteSet(T) BY <1>4
  <2> HIDE DEF All
  <2>2. QED BY <1>5, <2>1, FS_UNION
<1>7. UNION All = UNION {Inside(i) : i \in DOMAIN pattern} OBVIOUS
<1>8. States(pattern) = Boundaries \cup UNION {Inside(i) : i \in DOMAIN pattern} BY DEF States, Inside
<1>9. States(pattern) = Boundaries \cup UNION All BY <1>7, <1>8
<1> HIDE DEF All, Boundaries
<1>10. QED BY <1>3, <1>6, <1>9, FS_Union

-----------------------------------------------------------------------------
\* Closure adds what epsilon edges lead to, and nothing else.
Closed(pattern, S) == \A q \in S : Epsilon(pattern, q) \subseteq S

\* A closure is the least closed set of states around those it starts from.
LEMMA ClosureFacts ==
  ASSUME NEW pattern, IsPattern(pattern), NEW start \in SUBSET States(pattern)
  PROVE  /\ Closure(pattern, start) \in SUBSET States(pattern)
         /\ start \subseteq Closure(pattern, start)
         /\ Closed(pattern, Closure(pattern, start))
         /\ \A C \in SUBSET States(pattern) :
              start \subseteq C /\ Closed(pattern, C) => Closure(pattern, start) \subseteq C
<1> DEFINE X == States(pattern)
           more(S) == S \cup UNION {Epsilon(pattern, s) : s \in S}
           least(S) == {x \in X : \A C \in SUBSET X : S \subseteq C /\ Closed(pattern, C) => x \in C}
           F == CHOOSE closed : closed = [S \in SUBSET X |-> IF more(S) = S THEN S ELSE closed[more(S)]]
<1>1. Closure(pattern, start) = F[start] BY DEF Closure
<1>2. ASSUME NEW S \in SUBSET X PROVE more(S) \in SUBSET X /\ S \subseteq more(S)
  <2>1. \A s \in S : Epsilon(pattern, s) \subseteq X BY EpsilonInside
  <2>2. QED BY <2>1
<1>3. \A S : more(S) = S <=> Closed(pattern, S)
  <2>1. ASSUME NEW S PROVE more(S) = S <=> Closed(pattern, S)
    <3>1. ASSUME more(S) = S PROVE Closed(pattern, S)
      <4>1. SUFFICES ASSUME NEW q \in S PROVE Epsilon(pattern, q) \subseteq S BY DEF Closed
      <4>2. Epsilon(pattern, q) \subseteq more(S) OBVIOUS
      <4>3. QED BY <3>1, <4>2
    <3>2. ASSUME Closed(pattern, S) PROVE more(S) = S
      <4>1. \A q \in S : Epsilon(pattern, q) \subseteq S BY <3>2 DEF Closed
      <4>2. QED BY <4>1
    <3>3. QED BY <3>1, <3>2
  <2>2. QED BY <2>1
<1>4. \A S \in SUBSET X : more(S) = S => least(S) = S
  <2>1. ASSUME NEW S \in SUBSET X, more(S) = S PROVE least(S) = S
    <3>1. Closed(pattern, S) BY <1>3, <2>1
    <3> HIDE DEF more
    <3>2. least(S) \subseteq S BY <3>1
    <3>3. S \subseteq least(S) OBVIOUS
    <3>4. QED BY <3>2, <3>3
  <2>2. QED BY <2>1
<1>5. \A S \in SUBSET X : least(more(S)) = least(S)
  <2>1. ASSUME NEW S \in SUBSET X PROVE least(more(S)) = least(S)
    <3>1. ASSUME NEW C \in SUBSET X, Closed(pattern, C) PROVE S \subseteq C <=> more(S) \subseteq C
      <4>1. S \subseteq C => more(S) \subseteq C BY <3>1 DEF Closed
      <4>2. S \subseteq more(S) OBVIOUS
      <4>3. QED BY <4>1, <4>2
    <3> HIDE DEF more
    <3>2. QED BY <3>1
  <2>2. QED BY <2>1
<1> HIDE DEF more
<1>6. F = [S \in SUBSET X |-> IF more(S) = S THEN S ELSE F[more(S)]]
  <2> DEFINE g == [S \in SUBSET X |-> least(S)]
  <2>1. \A S \in SUBSET X : g[S] = least(S) OBVIOUS
  <2>2. g = [S \in SUBSET X |-> g[S]] OBVIOUS
  <2> HIDE DEF g, least
  <2>3. \A S \in SUBSET X : g[S] = IF more(S) = S THEN S ELSE g[more(S)] BY <1>2, <1>4, <1>5, <2>1
  <2>4. g = [S \in SUBSET X |-> IF more(S) = S THEN S ELSE g[more(S)]] BY <2>2, <2>3
  <2>5. QED BY <2>4
<1> HIDE DEF F
<1>7. \A S \in SUBSET X : F[S] = IF more(S) = S THEN S ELSE F[more(S)]
  <2> DEFINE body(S) == IF more(S) = S THEN S ELSE F[more(S)]
  <2>1. F = [S \in SUBSET X |-> body(S)] BY <1>6
  <2> HIDE DEF body
  <2>2. \A S \in SUBSET X : F[S] = body(S) BY <2>1
  <2>3. QED BY <2>2 DEF body
<1>8. ASSUME NEW S \in SUBSET X PROVE Cardinality(X \ S) \in Nat /\ (more(S) # S => Cardinality(X \ more(S)) < Cardinality(X \ S))
  <2>1. IsFiniteSet(X \ S) BY StatesFinite, FS_Difference
  <2>2. IsFiniteSet(X \ more(S)) BY StatesFinite, FS_Difference
  <2>3. Cardinality(X \ S) \in Nat /\ Cardinality(X \ more(S)) \in Nat BY <2>1, <2>2, FS_CardinalityType
  <2>4. S \subseteq more(S) /\ more(S) \subseteq X BY <1>2
  <2>5. X \ more(S) \in SUBSET (X \ S) BY <2>4
  <2>6. more(S) # S => X \ more(S) # X \ S BY <2>4
  <2> HIDE DEF X
  <2>7. QED BY <2>1, <2>3, <2>5, <2>6, FS_Subset
<1>9. \A S \in SUBSET X : F[S] = least(S)
  <2> DEFINE Bad == {S \in SUBSET X : F[S] # least(S)}   Sizes == {Cardinality(X \ S) : S \in Bad}
  <2>1. SUFFICES ASSUME Bad # {} PROVE FALSE OBVIOUS
  <2> HIDE DEF X, F, least
  <2>2. Sizes \subseteq Nat /\ Sizes # {} BY <1>8, <2>1
  <2>3. PICK x \in Sizes : \A y \in Sizes : x <= y BY <2>2, LeastOf
  <2>4. PICK S \in Bad : x = Cardinality(X \ S) BY <2>3
  <2>5. CASE more(S) = S BY <1>4, <1>7, <2>4, <2>5
  <2>6. CASE more(S) # S
    <3>1. more(S) \in SUBSET X /\ F[S] = F[more(S)] /\ least(S) = least(more(S)) BY <1>2, <1>5, <1>7, <2>4, <2>6
    <3>2. more(S) \in Bad BY <2>4, <3>1
    <3>3. Cardinality(X \ more(S)) \in Sizes BY <3>2
    <3>4. x <= Cardinality(X \ more(S)) BY <2>3, <3>3
    <3>5. Cardinality(X \ more(S)) < x /\ x \in Nat /\ Cardinality(X \ more(S)) \in Nat
      BY <1>8, <2>4, <2>6, <3>1
    <3>6. QED BY <3>4, <3>5
  <2>7. QED BY <2>5, <2>6
<1>10. Closure(pattern, start) = least(start) BY <1>1, <1>9
<1>11. least(start) \in SUBSET X /\ start \subseteq least(start) OBVIOUS
<1>12. Closed(pattern, least(start))
  <2>1. SUFFICES ASSUME NEW q \in least(start), NEW r \in Epsilon(pattern, q) PROVE r \in least(start)
    BY DEF Closed
  <2>2. r \in X BY EpsilonInside
  <2>3. ASSUME NEW C \in SUBSET X, start \subseteq C, Closed(pattern, C) PROVE r \in C
    <3>1. q \in C BY <2>3
    <3>2. QED BY <2>3, <3>1 DEF Closed
  <2>4. QED BY <2>2, <2>3
<1>13. \A C \in SUBSET X : start \subseteq C /\ Closed(pattern, C) => least(start) \subseteq C OBVIOUS
<1>14. QED
  <2> HIDE DEF least
  <2>1. QED BY <1>10, <1>11, <1>12, <1>13

-----------------------------------------------------------------------------
\* The reference definitions, as tables.

\* The tables from which the reference definitions read.
SegmentRest(tokens, segment) ==
  CHOOSE from : from =
    [i \in 1 .. Len(tokens) + 1 |->
      IF i > Len(tokens) THEN {Len(segment) + 1}
      ELSE IF tokens[i] = Star THEN {j \in 1 .. Len(segment) + 1 : \E k \in from[i + 1] : j <= k}
      ELSE {j \in DOMAIN segment : tokens[i] \in {Query, segment[j]} /\ j + 1 \in from[i + 1]}]

PathRest(pattern, path) ==
  CHOOSE from : from =
    [i \in 1 .. Len(pattern) + 1 |->
      IF i > Len(pattern) THEN {Len(path) + 1}
      ELSE IF pattern[i] = Doubled THEN {j \in 1 .. Len(path) + 1 : \E k \in from[i + 1] : j <= k}
      ELSE {j \in DOMAIN path : path[j] # << >> /\ MatchesSegment(pattern[i], path[j])
                                 /\ j + 1 \in from[i + 1]}]

\* The table of a component against a segment, row by row.
LEMMA SegmentRestIs ==
  ASSUME NEW A, NEW tokens \in Seq(A), NEW B, NEW segment \in Seq(B)
  PROVE  LET R == SegmentRest(tokens, segment)   ends == 1 .. Len(segment) + 1
         IN /\ MatchesSegment(tokens, segment) <=> 1 \in R[1]
            /\ R[Len(tokens) + 1] = {Len(segment) + 1}
            /\ \A i \in 1 .. Len(tokens) : \A j \in ends :
                 j \in R[i] <=> IF tokens[i] = Star THEN \E k \in R[i + 1] : j <= k
                                ELSE /\ j \in 1 .. Len(segment) /\ tokens[i] \in {Query, segment[j]}
                                     /\ j + 1 \in R[i + 1]
            /\ \A i \in 1 .. Len(tokens) + 1 : R[i] \subseteq ends
<1> DEFINE n == Len(tokens)   m == Len(segment)   R == SegmentRest(tokens, segment)
           V == SUBSET (1 .. m + 1)
           body(i, T) == IF tokens[i] = Star THEN {j \in 1 .. m + 1 : \E k \in T : j <= k}
                         ELSE {j \in DOMAIN segment : tokens[i] \in {Query, segment[j]} /\ j + 1 \in T}
           step == [i \in 1 .. n |-> [T \in V |-> body(i, T)]]
           whole(i, T) == IF i > n THEN {m + 1} ELSE body(i, T)
<1>1. n \in Nat /\ m \in Nat /\ DOMAIN segment = 1 .. m OBVIOUS
<1>2. MatchesSegment(tokens, segment) <=> 1 \in R[1] BY DEF MatchesSegment, SegmentRest
<1>3. R = CHOOSE from : from = [i \in 1 .. n + 1 |-> whole(i, from[i + 1])] BY DEF SegmentRest
<1>4. \A i \in 1 .. n : \A T : body(i, T) \in V
  <2>1. SUFFICES ASSUME NEW i \in 1 .. n, NEW T PROVE body(i, T) \in V OBVIOUS
  <2>2. body(i, T) \subseteq 1 .. m + 1 BY <1>1
  <2>3. QED BY <2>2
<1> HIDE DEF n, m, R, body
<1>5. step \in [1 .. n -> [V -> V]] BY <1>4
<1>6. {m + 1} \in V BY <1>1
<1>7. PICK f \in [1 .. n + 1 -> V] : f[n + 1] = {m + 1} /\ \A i \in 1 .. n : f[i] = step[i][f[i + 1]]
  <2> DEFINE base == {m + 1}
  <2>1. base \in V BY <1>6
  <2> HIDE DEF step, V, base
  <2>2. \E f : Backwards(f, n, V, base, step) BY <1>1, <1>5, <2>1, IteratedBack
  <2>3. QED BY <2>2 DEF base, Backwards
<1>8. \A i \in 1 .. n : f[i] = body(i, f[i + 1])
  <2>1. SUFFICES ASSUME NEW i \in 1 .. n PROVE f[i] = body(i, f[i + 1]) OBVIOUS
  <2>2. i + 1 \in 1 .. n + 1 BY <1>1
  <2>3. f[i + 1] \in V BY <1>7, <2>2
  <2> HIDE DEF V
  <2>4. step[i][f[i + 1]] = body(i, f[i + 1]) BY <2>3
  <2>5. QED BY <1>7, <2>4
<1>9. \A i \in 1 .. n + 1 : f[i] = whole(i, f[i + 1])
  <2>1. \A i \in 1 .. n + 1 : (i > n <=> i = n + 1) /\ (~(i > n) => i \in 1 .. n) BY <1>1
  <2>2. QED BY <1>7, <1>8, <2>1
<1> HIDE DEF whole, step, V
<1>10. f = [i \in 1 .. n + 1 |-> whole(i, f[i + 1])]
  <2>1. f = [i \in 1 .. n + 1 |-> f[i]] BY <1>7
  <2>2. QED BY <1>9, <2>1
<1>11. R = [i \in 1 .. n + 1 |-> whole(i, R[i + 1])] BY <1>3, <1>10
<1>12. \A i \in 1 .. n + 1 : R[i] = whole(i, R[i + 1])
  <2> DEFINE b(i) == whole(i, R[i + 1])
  <2>1. R = [i \in 1 .. n + 1 |-> b(i)] BY <1>11
  <2> HIDE DEF b
  <2>2. \A i \in 1 .. n + 1 : R[i] = b(i) BY <2>1
  <2>3. QED BY <2>2 DEF b
<1>13. R[n + 1] = {m + 1}
  <2>1. n + 1 \in 1 .. n + 1 /\ n + 1 > n BY <1>1
  <2>2. QED BY <1>12, <2>1 DEF whole
<1>14. \A i \in 1 .. n : R[i] = body(i, R[i + 1])
  <2>1. \A i \in 1 .. n : i \in 1 .. n + 1 /\ ~(i > n) BY <1>1
  <2>2. QED BY <1>12, <2>1 DEF whole
<1>15. \A i \in 1 .. n + 1 : R[i] \subseteq 1 .. m + 1
  <2>1. \A i \in 1 .. n + 1 : i \in 1 .. n \/ i = n + 1 BY <1>1
  <2>2. \A i \in 1 .. n : R[i] \subseteq 1 .. m + 1 BY <1>4, <1>14 DEF V
  <2>3. R[n + 1] \subseteq 1 .. m + 1 BY <1>1, <1>13
  <2>4. QED BY <2>1, <2>2, <2>3
<1>16. ASSUME NEW i \in 1 .. n, NEW j \in 1 .. m + 1
       PROVE  j \in R[i] <=> IF tokens[i] = Star THEN \E k \in R[i + 1] : j <= k
                             ELSE /\ j \in 1 .. m /\ tokens[i] \in {Query, segment[j]}
                                  /\ j + 1 \in R[i + 1]
  <2>1. R[i] = body(i, R[i + 1]) BY <1>14
  <2>2. QED BY <1>1, <2>1 DEF body
<1>17. QED BY <1>2, <1>13, <1>15, <1>16 DEF n, m, R

\* The table of a pattern against a path, row by row.
LEMMA PathRestIs ==
  ASSUME NEW A, NEW pattern \in Seq(A), NEW B, NEW path \in Seq(B)
  PROVE  LET R == PathRest(pattern, path)   ends == 1 .. Len(path) + 1
         IN /\ Matches(pattern, path) <=> 1 \in R[1]
            /\ R[Len(pattern) + 1] = {Len(path) + 1}
            /\ \A i \in 1 .. Len(pattern) : \A j \in ends :
                 j \in R[i] <=> IF pattern[i] = Doubled THEN \E k \in R[i + 1] : j <= k
                                ELSE /\ j \in 1 .. Len(path) /\ path[j] # << >>
                                     /\ MatchesSegment(pattern[i], path[j]) /\ j + 1 \in R[i + 1]
            /\ \A i \in 1 .. Len(pattern) + 1 : R[i] \subseteq ends
<1> DEFINE n == Len(pattern)   m == Len(path)   R == PathRest(pattern, path)
           V == SUBSET (1 .. m + 1)
           body(i, T) == IF pattern[i] = Doubled THEN {j \in 1 .. m + 1 : \E k \in T : j <= k}
                         ELSE {j \in DOMAIN path : path[j] # << >> /\ MatchesSegment(pattern[i], path[j])
                                                   /\ j + 1 \in T}
           step == [i \in 1 .. n |-> [T \in V |-> body(i, T)]]
           whole(i, T) == IF i > n THEN {m + 1} ELSE body(i, T)
<1>1. n \in Nat /\ m \in Nat /\ DOMAIN path = 1 .. m OBVIOUS
<1>2. Matches(pattern, path) <=> 1 \in R[1] BY DEF Matches, PathRest
<1>3. R = CHOOSE from : from = [i \in 1 .. n + 1 |-> whole(i, from[i + 1])] BY DEF PathRest
<1>4. \A i \in 1 .. n : \A T : body(i, T) \in V
  <2>1. SUFFICES ASSUME NEW i \in 1 .. n, NEW T PROVE body(i, T) \in V OBVIOUS
  <2>2. body(i, T) \subseteq 1 .. m + 1 BY <1>1
  <2>3. QED BY <2>2
<1> HIDE DEF n, m, R, body
<1>5. step \in [1 .. n -> [V -> V]] BY <1>4
<1>6. {m + 1} \in V BY <1>1
<1>7. PICK f \in [1 .. n + 1 -> V] : f[n + 1] = {m + 1} /\ \A i \in 1 .. n : f[i] = step[i][f[i + 1]]
  <2> DEFINE base == {m + 1}
  <2>1. base \in V BY <1>6
  <2> HIDE DEF step, V, base
  <2>2. \E f : Backwards(f, n, V, base, step) BY <1>1, <1>5, <2>1, IteratedBack
  <2>3. QED BY <2>2 DEF base, Backwards
<1>8. \A i \in 1 .. n : f[i] = body(i, f[i + 1])
  <2>1. SUFFICES ASSUME NEW i \in 1 .. n PROVE f[i] = body(i, f[i + 1]) OBVIOUS
  <2>2. i + 1 \in 1 .. n + 1 BY <1>1
  <2>3. f[i + 1] \in V BY <1>7, <2>2
  <2> HIDE DEF V
  <2>4. step[i][f[i + 1]] = body(i, f[i + 1]) BY <2>3
  <2>5. QED BY <1>7, <2>4
<1>9. \A i \in 1 .. n + 1 : f[i] = whole(i, f[i + 1])
  <2>1. \A i \in 1 .. n + 1 : (i > n <=> i = n + 1) /\ (~(i > n) => i \in 1 .. n) BY <1>1
  <2>2. QED BY <1>7, <1>8, <2>1
<1> HIDE DEF whole, step, V
<1>10. f = [i \in 1 .. n + 1 |-> whole(i, f[i + 1])]
  <2>1. f = [i \in 1 .. n + 1 |-> f[i]] BY <1>7
  <2>2. QED BY <1>9, <2>1
<1>11. R = [i \in 1 .. n + 1 |-> whole(i, R[i + 1])] BY <1>3, <1>10
<1>12. \A i \in 1 .. n + 1 : R[i] = whole(i, R[i + 1])
  <2> DEFINE b(i) == whole(i, R[i + 1])
  <2>1. R = [i \in 1 .. n + 1 |-> b(i)] BY <1>11
  <2> HIDE DEF b
  <2>2. \A i \in 1 .. n + 1 : R[i] = b(i) BY <2>1
  <2>3. QED BY <2>2 DEF b
<1>13. R[n + 1] = {m + 1}
  <2>1. n + 1 \in 1 .. n + 1 /\ n + 1 > n BY <1>1
  <2>2. QED BY <1>12, <2>1 DEF whole
<1>14. \A i \in 1 .. n : R[i] = body(i, R[i + 1])
  <2>1. \A i \in 1 .. n : i \in 1 .. n + 1 /\ ~(i > n) BY <1>1
  <2>2. QED BY <1>12, <2>1 DEF whole
<1>15. \A i \in 1 .. n + 1 : R[i] \subseteq 1 .. m + 1
  <2>1. \A i \in 1 .. n + 1 : i \in 1 .. n \/ i = n + 1 BY <1>1
  <2>2. \A i \in 1 .. n : R[i] \subseteq 1 .. m + 1 BY <1>4, <1>14 DEF V
  <2>3. R[n + 1] \subseteq 1 .. m + 1 BY <1>1, <1>13
  <2>4. QED BY <2>1, <2>2, <2>3
<1>16. ASSUME NEW i \in 1 .. n, NEW j \in 1 .. m + 1
       PROVE  j \in R[i] <=> IF pattern[i] = Doubled THEN \E k \in R[i + 1] : j <= k
                             ELSE /\ j \in 1 .. m /\ path[j] # << >>
                                  /\ MatchesSegment(pattern[i], path[j]) /\ j + 1 \in R[i + 1]
  <2>1. R[i] = body(i, R[i + 1]) BY <1>14
  <2>2. QED BY <1>1, <2>1 DEF body
<1>17. QED BY <1>2, <1>13, <1>15, <1>16 DEF n, m, R

-----------------------------------------------------------------------------
\* The segments of a text, scalar by scalar.

\* The segments of every beginning of a text.
Cut(word) ==
  CHOOSE upTo : upTo =
    [n \in 0 .. Len(word) |->
      IF n = 0 THEN << << >> >>
      ELSE IF word[n] = Slash THEN Append(upTo[n - 1], << >>)
      ELSE [upTo[n - 1] EXCEPT ![Len(upTo[n - 1])] = Append(@, word[n])]]

\* One more scalar.
Longer(segments, x) ==
  IF x = Slash THEN Append(segments, << >>)
  ELSE [segments EXCEPT ![Len(segments)] = Append(@, x)]

\* U has the segments of T and one more scalar x.
Grows(T, x, U) ==
  /\ x = Slash => /\ Len(U) = Len(T) + 1
                  /\ \A i \in 1 .. Len(T) : U[i] = T[i]
                  /\ U[Len(T) + 1] = << >>
  /\ x # Slash => /\ Len(U) = Len(T)
                  /\ \A i \in 1 .. Len(T) - 1 : U[i] = T[i]
                  /\ U[Len(T)] = Append(T[Len(T)], x)

\* One more scalar makes the last segment longer, or begins another.
LEMMA LongerIs ==
  ASSUME NEW A, NEW T \in Seq(Seq(A)) \ {<< >>}, NEW x \in A
  PROVE  Longer(T, x) \in Seq(Seq(A)) \ {<< >>} /\ Grows(T, x, Longer(T, x))
<1> DEFINE n == Len(T)
<1>1. n \in Nat \ {0} /\ T \in [1 .. n -> Seq(A)] OBVIOUS
<1>2. CASE x = Slash
  <2>1. Longer(T, x) = Append(T, << >>) BY <1>2 DEF Longer
  <2>2. << >> \in Seq(A) OBVIOUS
  <2>3. Append(T, << >>) \in Seq(Seq(A)) /\ Len(Append(T, << >>)) = n + 1 BY <2>2
  <2>4. \A i \in 1 .. n : Append(T, << >>)[i] = T[i] BY <2>2
  <2>5. Append(T, << >>)[n + 1] = << >> BY <2>2
  <2>6. Append(T, << >>) # << >> BY <1>1, <2>3
  <2>7. QED BY <1>2, <2>1, <2>3, <2>4, <2>5, <2>6 DEF Grows
<1>3. CASE x # Slash
  <2> DEFINE last == Append(T[n], x)
             U == [T EXCEPT ![n] = last]
  <2>1. Longer(T, x) = U BY <1>3 DEF Longer
  <2>2. n \in 1 .. n /\ T[n] \in Seq(A) BY <1>1
  <2>3. last \in Seq(A) BY <2>2
  <2> HIDE DEF n, last
  <2>9. \A i \in 1 .. n - 1 : i \in 1 .. n /\ i # n BY <1>1
  <2> DEFINE V == Seq(A)
  <2> HIDE DEF V
  <2>4. U \in [1 .. n -> V] /\ U[n] = last BY <1>1, <2>2, <2>3 DEF V
  <2>5. \A i \in 1 .. n - 1 : U[i] = T[i] BY <1>1, <2>9
  <2> HIDE DEF U
  <2>6. U \in Seq(V) /\ Len(U) = n /\ U # << >> BY <1>1, <2>4
  <2>7. QED BY <1>3, <2>1, <2>4, <2>5, <2>6 DEF n, last, V, Grows
<1>4. QED BY <1>2, <1>3

\* The segments of every beginning are those of the one before it, and one scalar.
LEMMA CutIs ==
  ASSUME NEW A, NEW word \in Seq(A)
  PROVE  /\ Segments(word) = Cut(word)[Len(word)]
         /\ Cut(word)[0] = << << >> >>
         /\ \A k \in 0 .. Len(word) : Cut(word)[k] \in Seq(Seq(A)) \ {<< >>}
         /\ \A k \in 1 .. Len(word) : Cut(word)[k] = Longer(Cut(word)[k - 1], word[k])
<1> DEFINE n == Len(word)   V == Seq(Seq(A)) \ {<< >>}   R == Cut(word)   base == << << >> >>
           step == [i \in 1 .. n |-> [T \in V |-> Longer(T, word[i])]]
           whole(i, T) == IF i = 0 THEN base ELSE Longer(T, word[i])
<1>1. n \in Nat /\ \A i \in 1 .. n : word[i] \in A OBVIOUS
<1>2. Segments(word) = R[n] BY DEF Segments, Cut
<1>3. R = CHOOSE upTo : upTo = [i \in 0 .. n |-> whole(i, upTo[i - 1])] BY DEF Cut, Longer
<1>4. base \in V
  <2>1. << >> \in Seq(A) OBVIOUS
  <2> DEFINE e == << >>
  <2>2. e \in Seq(A) BY <2>1
  <2> HIDE DEF e
  <2>3. <<e>> \in Seq(Seq(A)) /\ Len(<<e>>) = 1 BY <2>2
  <2>4. QED BY <2>3 DEF e
<1>5. \A i \in 1 .. n, T \in V : Longer(T, word[i]) \in V BY <1>1, LongerIs
<1> HIDE DEF n, R, V, base
<1>6. step \in [1 .. n -> [V -> V]] BY <1>5
<1>7. PICK f : Forwards(f, n, V, base, step)
  <2> HIDE DEF step
  <2>1. QED BY <1>1, <1>4, <1>6, Iterated
<1>8. f \in [0 .. n -> V] /\ f[0] = base /\ \A i \in 1 .. n : f[i] = step[i][f[i - 1]] BY <1>7 DEF Forwards
<1>9. \A i \in 0 .. n : f[i] = whole(i, f[i - 1])
  <2>1. SUFFICES ASSUME NEW i \in 0 .. n PROVE f[i] = whole(i, f[i - 1]) OBVIOUS
  <2>2. CASE i = 0 BY <1>8, <2>2
  <2>3. CASE i # 0
    <3>1. i \in 1 .. n /\ i - 1 \in 0 .. n BY <1>1, <2>3
    <3>2. f[i - 1] \in V BY <1>8, <3>1
    <3>3. step[i][f[i - 1]] = Longer(f[i - 1], word[i]) BY <3>1, <3>2
    <3>4. QED BY <1>8, <2>3, <3>1, <3>3
  <2>4. QED BY <2>2, <2>3
<1> HIDE DEF whole, step
<1>10. f = [i \in 0 .. n |-> whole(i, f[i - 1])]
  <2>1. f = [i \in 0 .. n |-> f[i]] BY <1>8
  <2>2. QED BY <1>9, <2>1
<1>11. R = [i \in 0 .. n |-> whole(i, R[i - 1])] BY <1>3, <1>10
<1>12. \A i \in 0 .. n : R[i] = whole(i, R[i - 1])
  <2> DEFINE b(i) == whole(i, R[i - 1])
  <2>1. R = [i \in 0 .. n |-> b(i)] BY <1>11
  <2> HIDE DEF b
  <2>2. \A i \in 0 .. n : R[i] = b(i) BY <2>1
  <2>3. QED BY <2>2 DEF b
<1>13. R[0] = base
  <2>1. 0 \in 0 .. n BY <1>1
  <2>2. QED BY <1>12, <2>1 DEF whole
<1>14. \A i \in 1 .. n : R[i] = Longer(R[i - 1], word[i])
  <2>1. \A i \in 1 .. n : i \in 0 .. n /\ i # 0 BY <1>1
  <2>2. QED BY <1>12, <2>1 DEF whole
<1>15. \A k \in 0 .. n : R[k] \in V
  <2> DEFINE S == {k \in 0 .. n : R[k] \in V}
  <2>1. 0 \in S BY <1>1, <1>4, <1>13
  <2>2. \A i \in 1 .. n : i - 1 \in S => i \in S BY <1>1, <1>5, <1>14
  <2> HIDE DEF S
  <2>3. \A i \in 0 .. n : i \in S BY <1>1, <2>1, <2>2, UpTo
  <2>4. QED BY <2>3 DEF S
<1>16. QED BY <1>2, <1>13, <1>14, <1>15 DEF n, R, V, base

\* What the segments of a text are at its beginning.
Begins(T, U) ==
  /\ Len(T) <= Len(U) /\ \A i \in 1 .. Len(T) - 1 : U[i] = T[i]
  /\ Len(T[Len(T)]) <= Len(U[Len(T)])
  /\ \A y \in 1 .. Len(T[Len(T)]) : U[Len(T)][y] = T[Len(T)][y]

\* A beginning stays one when the text gets longer.
LEMMA BeginsLonger ==
  ASSUME NEW A, NEW T \in Seq(Seq(A)) \ {<< >>}, NEW U \in Seq(Seq(A)) \ {<< >>}, NEW x \in A, Begins(T, U)
  PROVE  Begins(T, Longer(U, x))
<1> DEFINE W == Longer(U, x)   n == Len(T)   m == Len(U)
<1>1. /\ n \in Nat \ {0} /\ m \in Nat \ {0} /\ n <= m /\ T[n] \in Seq(A) /\ U[n] \in Seq(A) /\ U[m] \in Seq(A)
      /\ \A i \in 1 .. n - 1 : U[i] = T[i]
      /\ Len(T[n]) <= Len(U[n])
      /\ \A y \in 1 .. Len(T[n]) : U[n][y] = T[n][y]
  <2>1. n \in Nat \ {0} /\ m \in Nat \ {0} OBVIOUS
  <2>2. n <= m BY DEF Begins
  <2>3. n \in 1 .. n /\ n \in 1 .. m /\ m \in 1 .. m BY <2>1, <2>2
  <2>4. QED BY <2>1, <2>2, <2>3 DEF Begins
<1>2. CASE x = Slash
  <2>0. Grows(U, x, W) BY LongerIs
  <2>1. Len(W) = m + 1 /\ \A i \in 1 .. m : W[i] = U[i] BY <1>2, <2>0 DEF Grows
  <2> HIDE DEF W, n, m
  <2>2. n \in 1 .. m /\ \A i \in 1 .. n - 1 : i \in 1 .. m BY <1>1
  <2>3. n <= Len(W) /\ W[n] = U[n] /\ \A i \in 1 .. n - 1 : W[i] = T[i] BY <1>1, <2>1, <2>2
  <2>4. QED BY <1>1, <2>3 DEF Begins, n, W
<1>3. CASE x # Slash
  <2>0. Grows(U, x, W) BY LongerIs
  <2>1. Len(W) = m /\ (\A i \in 1 .. m - 1 : W[i] = U[i]) /\ W[m] = Append(U[m], x) BY <1>3, <2>0 DEF Grows
  <2> HIDE DEF W, n, m
  <2>2. \A i \in 1 .. n - 1 : i \in 1 .. m - 1 BY <1>1
  <2>3. n <= Len(W) /\ \A i \in 1 .. n - 1 : W[i] = T[i] BY <1>1, <2>1, <2>2
  <2>4. CASE n = m
    <3>1. W[n] = Append(U[n], x) BY <2>1, <2>4
    <3>2. Len(Append(U[n], x)) = Len(U[n]) + 1 /\ \A y \in 1 .. Len(U[n]) : Append(U[n], x)[y] = U[n][y] BY <1>1
    <3>3. Len(T[n]) \in Nat /\ Len(U[n]) \in Nat BY <1>1
    <3>4. \A y \in 1 .. Len(T[n]) : y \in 1 .. Len(U[n]) BY <1>1, <3>3
    <3>5. Len(T[n]) <= Len(W[n]) BY <1>1, <3>1, <3>2, <3>3
    <3>6. \A y \in 1 .. Len(T[n]) : W[n][y] = T[n][y] BY <1>1, <3>1, <3>2, <3>4
    <3>7. QED BY <2>3, <3>5, <3>6 DEF Begins, n, W
  <2>5. CASE n # m
    <3>1. n \in 1 .. m - 1 BY <1>1, <2>5
    <3>2. W[n] = U[n] BY <2>1, <3>1
    <3>3. QED BY <1>1, <2>3, <3>2 DEF Begins, n, W
  <2>6. QED BY <2>4, <2>5
<1>4. QED BY <1>2, <1>3

\* The segments of a beginning of a text are at the beginning of its segments.
LEMMA CutBegins ==
  ASSUME NEW A, NEW word \in Seq(A)
  PROVE  \A k \in 0 .. Len(word) : \A l \in k .. Len(word) : Begins(Cut(word)[k], Cut(word)[l])
<1> DEFINE n == Len(word)   R == Cut(word)   V == Seq(Seq(A)) \ {<< >>}
           S == {l \in 0 .. n : \A k \in 0 .. l : Begins(R[k], R[l])}
<1>1. n \in Nat /\ \A k \in 1 .. n : word[k] \in A OBVIOUS
<1>2. (\A k \in 0 .. n : R[k] \in V) /\ \A k \in 1 .. n : R[k] = Longer(R[k - 1], word[k]) BY CutIs
<1> HIDE DEF n, R
<1>9. \A l \in 1 .. n : l \in 0 .. n /\ l - 1 \in 0 .. n /\ \A k \in 0 .. l : k = l \/ k \in 0 .. (l - 1) BY <1>1
<1>3. ASSUME NEW k \in 0 .. n PROVE Begins(R[k], R[k])
  <2>1. R[k] \in V BY <1>2
  <2> HIDE DEF V
  <2>2. Len(R[k]) \in Nat \ {0} /\ R[k][Len(R[k])] \in Seq(A) BY <2>1 DEF V
  <2>3. Len(R[k][Len(R[k])]) \in Nat BY <2>2
  <2>4. QED BY <2>2, <2>3 DEF Begins
<1>4. 0 \in S
  <2>1. 0 \in 0 .. n /\ \A k \in 0 .. 0 : k = 0 BY <1>1
  <2>2. QED BY <1>3, <2>1
<1>5. ASSUME NEW l \in 1 .. n, l - 1 \in S PROVE l \in S
  <2>1. SUFFICES ASSUME NEW k \in 0 .. l PROVE Begins(R[k], R[l])
    <3>1. l \in 0 .. n BY <1>1
    <3>2. QED BY <2>1, <3>1
  <2>2. l \in 0 .. n /\ l - 1 \in 0 .. n BY <1>1
  <2>3. CASE k = l BY <1>3, <2>2, <2>3
  <2>4. CASE k # l
    <3>0. k \in 0 .. (l - 1) BY <1>9, <2>4
    <3>1. k \in 0 .. (l - 1) /\ k \in 0 .. n BY <1>1, <3>0
    <3>2. Begins(R[k], R[l - 1]) BY <1>5, <3>1
    <3>3. R[k] \in V /\ R[l - 1] \in V /\ word[l] \in A BY <1>1, <1>2, <2>2, <3>1
    <3>4. Begins(R[k], Longer(R[l - 1], word[l])) BY <3>2, <3>3, BeginsLonger
    <3>5. QED BY <1>2, <3>4
  <2>5. QED BY <2>3, <2>4
<1> HIDE DEF S
<1>6. \A l \in 0 .. n : l \in S BY <1>1, <1>4, <1>5, UpTo
<1>7. \A k \in 0 .. n : \A l \in k .. n : l \in 0 .. n /\ k \in 0 .. l BY <1>1
<1>8. QED BY <1>6, <1>7 DEF S, n, R

\* The segment the first k scalars of a text end in, and how far into it.
Row(word, k) == Len(Cut(word)[k])
Col(word, k) == Len(Cut(word)[k][Row(word, k)])

\* The place after k scalars lies within the segments of the text.
LEMMA PlaceAre ==
  ASSUME NEW A, NEW word \in Seq(A), NEW k \in 0 .. Len(word)
  PROVE  LET path == Segments(word)   r == Row(word, k)   c == Col(word, k)
         IN /\ path \in Seq(Seq(A)) /\ r \in 1 .. Len(path)
            /\ path[r] \in Seq(A) /\ c \in 0 .. Len(path[r])
            /\ Cut(word)[k] \in Seq(Seq(A)) \ {<< >>} /\ Begins(Cut(word)[k], path)
<1> DEFINE path == Segments(word)   T == Cut(word)[k]   r == Len(T)   V == Seq(Seq(A)) \ {<< >>}
<1>1. T \in V /\ path \in V /\ path = Cut(word)[Len(word)]
  <2>1. Len(word) \in 0 .. Len(word) OBVIOUS
  <2>2. QED BY <2>1, CutIs
<1>2. Begins(T, path)
  <2>1. Len(word) \in k .. Len(word) OBVIOUS
  <2>2. QED BY <1>1, <2>1, CutBegins
<1> HIDE DEF T, path
<1>3. r \in Nat \ {0} /\ T[r] \in Seq(A) BY <1>1
<1>4. r \in 1 .. Len(path) BY <1>1, <1>2, <1>3 DEF Begins
<1>5. path[r] \in Seq(A) BY <1>1, <1>4
<1>6. Len(T[r]) \in 0 .. Len(path[r]) BY <1>2, <1>3, <1>5 DEF Begins
<1>7. QED BY <1>1, <1>2, <1>4, <1>5, <1>6 DEF Row, Col, T, path

\* A text begins in front of its first segment.
LEMMA PlaceAtStart ==
  ASSUME NEW A, NEW word \in Seq(A) PROVE Row(word, 0) = 1 /\ Col(word, 0) = 0
<1>1. Cut(word)[0] = << << >> >> BY CutIs
<1>2. QED BY <1>1 DEF Row, Col

\* And ends behind its last.
LEMMA PlaceAtEnd ==
  ASSUME NEW A, NEW word \in Seq(A)
  PROVE  /\ Row(word, Len(word)) = Len(Segments(word))
         /\ Col(word, Len(word)) = Len(Segments(word)[Len(Segments(word))])
<1>1. Segments(word) = Cut(word)[Len(word)] BY CutIs
<1>2. QED BY <1>1 DEF Row, Col

\* One more scalar: a slash ends the segment, another goes on with it.
LEMMA PlaceSteps ==
  ASSUME NEW A, NEW word \in Seq(A), NEW k \in 1 .. Len(word)
  PROVE  LET path == Segments(word)   r == Row(word, k - 1)   c == Col(word, k - 1)
         IN /\ word[k] = Slash => /\ Row(word, k) = r + 1 /\ Col(word, k) = 0
                                  /\ c = Len(path[r])
            /\ word[k] # Slash => /\ Row(word, k) = r /\ Col(word, k) = c + 1
                                  /\ c < Len(path[r]) /\ path[r][c + 1] = word[k]
<1> DEFINE path == Segments(word)   T == Cut(word)[k - 1]   r == Len(T)   x == word[k]   U == Cut(word)[k]
           c == Len(T[r])
<1>1. k - 1 \in 0 .. Len(word) /\ k \in 0 .. Len(word) /\ x \in A OBVIOUS
<1>2. T \in Seq(Seq(A)) \ {<< >>} /\ U = Longer(T, x) BY <1>1, CutIs
<1>3. Begins(U, path) /\ path \in Seq(Seq(A)) BY <1>1, PlaceAre
<1>4. Begins(T, path) /\ path[r] \in Seq(A) BY <1>1, PlaceAre DEF Row
<1> HIDE DEF path, T, x, U
<1>5. /\ x = Slash => /\ Len(U) = Len(T) + 1
                      /\ \A i \in 1 .. Len(T) : U[i] = T[i]
                      /\ U[Len(T) + 1] = << >>
      /\ x # Slash => /\ Len(U) = Len(T) /\ U[Len(T)] = Append(T[Len(T)], x)
  <2>1. T \in Seq(Seq(A)) \ {<< >>} /\ x \in A BY <1>1, <1>2
  <2>2. Grows(T, x, Longer(T, x)) BY <2>1, LongerIs
  <2>3. Grows(T, x, U) BY <1>2, <2>2
  <2>4. QED BY <2>3 DEF Grows
<1>6. r \in Nat \ {0} /\ T[r] \in Seq(A) BY <1>2
<1>7. c \in Nat BY <1>6
<1>8. CASE x = Slash
  <2>1. Len(U) = r + 1 /\ U[r] = T[r] /\ U[r + 1] = << >> BY <1>5, <1>6, <1>8
  <2>2. r \in 1 .. Len(U) - 1 BY <1>6, <2>1
  <2>3. path[r] = U[r] BY <1>3, <2>2 DEF Begins
  <2>4. c = Len(path[r]) BY <2>1, <2>3
  <2>5. Row(word, k) = r + 1 /\ Col(word, k) = 0 BY <2>1 DEF Row, Col, U
  <2>6. QED BY <1>8, <2>4, <2>5 DEF Row, Col, T, x, path
<1>9. CASE x # Slash
  <2>1. Len(U) = r /\ U[r] = Append(T[r], x) BY <1>5, <1>9
  <2>2. Len(U[r]) = c + 1 /\ U[r][c + 1] = x BY <1>6, <2>1
  <2>3. Len(U[r]) <= Len(path[r]) /\ \A y \in 1 .. Len(U[r]) : path[r][y] = U[r][y] BY <1>3, <2>1 DEF Begins
  <2>4. c + 1 \in 1 .. Len(U[r]) BY <1>7, <2>2
  <2>5. path[r][c + 1] = x BY <2>2, <2>3, <2>4
  <2>6. Len(path[r]) \in Nat BY <1>4
  <2>7. c < Len(path[r]) BY <1>7, <2>2, <2>3, <2>6
  <2>8. Row(word, k) = r /\ Col(word, k) = c + 1 BY <2>1, <2>2 DEF Row, Col, U
  <2>9. QED BY <1>9, <2>5, <2>7, <2>8 DEF Row, Col, T, x, path
<1>10. QED BY <1>8, <1>9

-----------------------------------------------------------------------------
\* What is ahead of an automaton in a word.

\* A word whose segments are not empty, of scalars and slashes.
IsWord(word) ==
  /\ word \in Seq(CodePoints) /\ << >> \notin Range(Segments(word))
  /\ \A k \in DOMAIN word : word[k] = Slash \/ IsScalar(word[k])

\* A word has segments, none of them empty.
LEMMA SegmentsOf ==
  ASSUME NEW word, IsWord(word)
  PROVE  /\ Segments(word) \in Seq(Seq(CodePoints)) /\ Len(Segments(word)) \in Nat \ {0}
         /\ \A j \in 1 .. Len(Segments(word)) :
              Segments(word)[j] \in Seq(CodePoints) /\ Len(Segments(word)[j]) \in Nat \ {0}
<1>1. word \in Seq(CodePoints) BY DEF IsWord
<1>2. 0 \in 0 .. Len(word) BY <1>1
<1> DEFINE path == Segments(word)
<1>3. path \in Seq(Seq(CodePoints)) /\ Row(word, 0) \in 1 .. Len(path) BY <1>1, <1>2, PlaceAre
<1>4. << >> \notin Range(path) BY DEF IsWord
<1> HIDE DEF path
<1>5. Len(path) \in Nat \ {0} BY <1>3
<1>6. \A j \in 1 .. Len(path) : path[j] \in Seq(CodePoints) /\ path[j] # << >>
  <2>1. \A j \in 1 .. Len(path) : path[j] \in Range(path) BY <1>3 DEF Range
  <2>2. QED BY <1>3, <1>4, <2>1
<1>7. \A j \in 1 .. Len(path) : Len(path[j]) \in Nat \ {0} BY <1>6
<1>8. QED BY <1>3, <1>5, <1>6, <1>7 DEF path

\* The components after the first i match the segments after the first j.
Ahead(pattern, word, i, j) == j + 1 \in PathRest(pattern, Segments(word))[i + 1]

\* The tokens of component i + 1 after the first p match the scalars of segment
\* j after the first c.
Inside(pattern, word, i, j, p, c) ==
  c + 1 \in SegmentRest(Tokens(pattern[i + 1]), Segments(word)[j])[p + 1]

\* The component that a segment leaves a pattern at: "**" is not left.
Following(pattern, i) == IF pattern[i + 1] = Doubled THEN i ELSE i + 1

\* What is ahead inside a component, token by token.
LEMMA InsideIs ==
  ASSUME NEW pattern, IsPattern(pattern), NEW word, IsWord(word),
         NEW i \in 0 .. Len(pattern) - 1, NEW j \in 1 .. Len(Segments(word)),
         NEW c \in 0 .. Len(Segments(word)[j])
  PROVE  LET tokens == Tokens(pattern[i + 1])   segment == Segments(word)[j]
         IN /\ Inside(pattern, word, i, j, Len(tokens), c) <=> c = Len(segment)
            /\ \A p \in 0 .. Len(tokens) - 1 :
                 Inside(pattern, word, i, j, p, c) <=>
                   IF tokens[p + 1] = Star
                   THEN \/ Inside(pattern, word, i, j, p + 1, c)
                        \/ (c < Len(segment) /\ Inside(pattern, word, i, j, p, c + 1))
                   ELSE /\ c < Len(segment) /\ tokens[p + 1] \in {Query, segment[c + 1]}
                        /\ Inside(pattern, word, i, j, p + 1, c + 1)
<1> DEFINE tokens == Tokens(pattern[i + 1])   segment == Segments(word)[j]
           R == SegmentRest(tokens, segment)   n == Len(tokens)   m == Len(segment)
           In(p, d) == Inside(pattern, word, i, j, p, d)
<1>1. i + 1 \in DOMAIN pattern BY DEF IsPattern
<1>2. tokens \in Seq(CodePoints) /\ n \in Nat \ {0} BY <1>1, TokensFacts
<1>3. segment \in Seq(CodePoints) /\ m \in Nat BY SegmentsOf
<1>4. \A p, d : In(p, d) <=> d + 1 \in R[p + 1] BY DEF Inside
<1> HIDE DEF tokens, segment, In
<1>5. /\ R[n + 1] = {m + 1}
      /\ \A p \in 1 .. n : \A d \in 1 .. m + 1 :
           d \in R[p] <=> IF tokens[p] = Star THEN \E k \in R[p + 1] : d <= k
                          ELSE /\ d \in 1 .. m /\ tokens[p] \in {Query, segment[d]}
                               /\ d + 1 \in R[p + 1]
      /\ \A p \in 1 .. n + 1 : R[p] \subseteq 1 .. m + 1
  <2>1. LET ends == 1 .. Len(segment) + 1
        IN /\ MatchesSegment(tokens, segment) <=> 1 \in R[1]
           /\ R[Len(tokens) + 1] = {Len(segment) + 1}
           /\ \A k \in 1 .. Len(tokens) : \A l \in ends :
                l \in R[k] <=> IF tokens[k] = Star THEN \E h \in R[k + 1] : l <= h
                               ELSE /\ l \in 1 .. Len(segment) /\ tokens[k] \in {Query, segment[l]}
                                    /\ l + 1 \in R[k + 1]
           /\ \A k \in 1 .. Len(tokens) + 1 : R[k] \subseteq ends
    BY <1>2, <1>3, SegmentRestIs, Zenon
  <2>2. QED BY <2>1
<1> HIDE DEF R, n, m
<1>6. c \in 0 .. m BY DEF m, segment
<1>7. In(n, c) <=> c = m BY <1>3, <1>4, <1>5, <1>6
<1>8. ASSUME NEW p \in 0 .. n - 1
      PROVE In(p, c) <=> IF tokens[p + 1] = Star
                         THEN In(p + 1, c) \/ (c < m /\ In(p, c + 1))
                         ELSE /\ c < m /\ tokens[p + 1] \in {Query, segment[c + 1]}
                              /\ In(p + 1, c + 1)
  <2>1. p + 1 \in 1 .. n /\ p + 2 \in 1 .. n + 1 /\ c + 1 \in 1 .. m + 1 /\ p \in Int /\ c \in Int /\ (p + 1) + 1 = p + 2 /\ (c + 1) + 1 = c + 2
    BY <1>2, <1>3, <1>6
  <2>2. In(p, c) <=> IF tokens[p + 1] = Star THEN \E k \in R[p + 2] : c + 1 <= k
                     ELSE /\ c + 1 \in 1 .. m /\ tokens[p + 1] \in {Query, segment[c + 1]}
                          /\ c + 2 \in R[p + 2]
    <3>1. c + 1 \in R[p + 1] <=> IF tokens[p + 1] = Star THEN \E k \in R[(p + 1) + 1] : c + 1 <= k
                     ELSE /\ c + 1 \in 1 .. m /\ tokens[p + 1] \in {Query, segment[c + 1]}
                          /\ (c + 1) + 1 \in R[(p + 1) + 1] BY <1>5, <2>1
    <3>2. QED BY <1>4, <2>1, <3>1
  <2>3. (In(p + 1, c) <=> c + 1 \in R[p + 2]) /\ (In(p + 1, c + 1) <=> c + 2 \in R[p + 2])
        /\ (In(p, c + 1) <=> c + 2 \in R[p + 1]) BY <1>4, <2>1
  <2>4. c + 1 \in 1 .. m <=> c < m BY <1>3, <1>6
  <2>5. CASE tokens[p + 1] # Star BY <2>2, <2>3, <2>4, <2>5
  <2>6. CASE tokens[p + 1] = Star
    <3>1. c < m => (c + 2 \in R[p + 1] <=> \E k \in R[p + 2] : c + 2 <= k)
      <4>1. c < m => c + 2 \in 1 .. m + 1 BY <1>3, <1>6
      <4>2. c < m => (c + 2 \in R[p + 1] <=> \E k \in R[(p + 1) + 1] : c + 2 <= k) BY <1>5, <2>1, <2>6, <4>1
      <4>3. QED BY <4>2, <2>1
    <3>2. R[p + 2] \subseteq 1 .. m + 1 BY <1>5, <2>1
    <3>3. (\E k \in R[p + 2] : c + 1 <= k) <=> c + 1 \in R[p + 2] \/ (c < m /\ \E k \in R[p + 2] : c + 2 <= k)
      BY <1>3, <1>6, <3>2
    <3>4. QED BY <2>2, <2>3, <2>6, <3>1, <3>3
  <2>7. QED BY <2>5, <2>6
<1>9. QED BY <1>7, <1>8 DEF In, n, m, tokens, segment

\* A whole component.
LEMMA InsideFromStart ==
  ASSUME NEW pattern, IsPattern(pattern), NEW word, IsWord(word),
         NEW i \in 0 .. Len(pattern) - 1, NEW j \in 1 .. Len(Segments(word))
  PROVE  /\ pattern[i + 1] = Doubled => Inside(pattern, word, i, j, 0, 0)
         /\ pattern[i + 1] # Doubled =>
              (Inside(pattern, word, i, j, 0, 0) <=> MatchesSegment(pattern[i + 1], Segments(word)[j]))
<1> DEFINE tokens == Tokens(pattern[i + 1])   segment == Segments(word)[j]
           R == SegmentRest(tokens, segment)   n == Len(tokens)   m == Len(segment)
<1>1. i + 1 \in DOMAIN pattern BY DEF IsPattern
<1>2. tokens \in Seq(CodePoints) BY <1>1, TokensFacts
<1>3. segment \in Seq(CodePoints) /\ m \in Nat BY SegmentsOf
<1>4. Inside(pattern, word, i, j, 0, 0) <=> 1 \in R[1] BY DEF Inside
<1>5. CASE pattern[i + 1] # Doubled
  <2>1. tokens = pattern[i + 1] BY <1>1, <1>5, TokensFacts
  <2>2. MatchesSegment(tokens, segment) <=> 1 \in R[1] BY <1>2, <1>3, SegmentRestIs
  <2>3. QED BY <1>4, <1>5, <2>1, <2>2
<1>6. CASE pattern[i + 1] = Doubled
  <2>1. tokens = <<Star>> BY <1>1, <1>6, TokensFacts
  <2>2. n = 1 /\ tokens[1] = Star BY <2>1
  <2> HIDE DEF tokens, segment, n, m
  <2>3. /\ R[n + 1] = {m + 1}
        /\ \A p \in 1 .. n : \A d \in 1 .. m + 1 :
             d \in R[p] <=> IF tokens[p] = Star THEN \E k \in R[p + 1] : d <= k
                            ELSE /\ d \in 1 .. m /\ tokens[p] \in {Query, segment[d]}
                                 /\ d + 1 \in R[p + 1]
    BY <1>2, <1>3, SegmentRestIs DEF n, m
  <2> HIDE DEF R
  <2>4. R[2] = {m + 1} /\ 1 \in 1 .. n /\ 1 \in 1 .. m + 1 /\ 1 <= m + 1 BY <1>3, <2>2, <2>3
  <2>5. 1 \in R[1] <=> \E k \in R[2] : 1 <= k
    <3>1. 1 \in R[1] <=> \E k \in R[1 + 1] : 1 <= k BY <2>2, <2>3, <2>4
    <3>2. QED BY <3>1
  <2>6. 1 \in R[1] BY <2>4, <2>5
  <2>7. QED BY <1>4, <1>6, <2>6
<1>7. QED BY <1>5, <1>6

\* What is ahead in a path, component by component.
LEMMA AheadIs ==
  ASSUME NEW pattern, IsPattern(pattern), NEW word, IsWord(word), NEW j \in 0 .. Len(Segments(word))
  PROVE  LET m == Len(Segments(word))
         IN /\ Ahead(pattern, word, Len(pattern), j) <=> j = m
            /\ \A i \in 0 .. Len(pattern) - 1 :
                 Ahead(pattern, word, i, j) <=>
                   \/ pattern[i + 1] = Doubled /\ Ahead(pattern, word, i + 1, j)
                   \/ /\ j < m /\ Inside(pattern, word, i, j + 1, 0, 0)
                      /\ Ahead(pattern, word, Following(pattern, i), j + 1)
<1> DEFINE path == Segments(word)   n == Len(pattern)   m == Len(path)   R == PathRest(pattern, path)
           Is(i, l) == Ahead(pattern, word, i, l)   In(i, l) == Inside(pattern, word, i, l, 0, 0)
<1>1. pattern \in Seq(Seq(CodePoints)) /\ n \in Nat \ {0} BY DEF IsPattern
<1>2. /\ path \in Seq(Seq(CodePoints)) /\ m \in Nat \ {0}
      /\ \A l \in 1 .. m : path[l] # << >>
  <2>1. path \in Seq(Seq(CodePoints)) /\ m \in Nat \ {0} /\ \A l \in 1 .. m : Len(path[l]) # 0 BY SegmentsOf
  <2>2. QED BY <2>1
<1>3. \A i, l : Is(i, l) <=> l + 1 \in R[i + 1] BY DEF Ahead
<1>4. \A i \in 0 .. n - 1, l \in 1 .. m :
        /\ pattern[i + 1] = Doubled => In(i, l)
        /\ pattern[i + 1] # Doubled => (In(i, l) <=> MatchesSegment(pattern[i + 1], path[l]))
  BY InsideFromStart
<1>5. /\ R[n + 1] = {m + 1}
      /\ \A i \in 1 .. n : \A l \in 1 .. m + 1 :
           l \in R[i] <=> IF pattern[i] = Doubled THEN \E k \in R[i + 1] : l <= k
                          ELSE /\ l \in 1 .. m /\ path[l] # << >>
                               /\ MatchesSegment(pattern[i], path[l]) /\ l + 1 \in R[i + 1]
      /\ \A i \in 1 .. n + 1 : R[i] \subseteq 1 .. m + 1
  <2> HIDE DEF path
  <2>1. QED BY <1>1, <1>2, PathRestIs
<1> HIDE DEF n, m, R, path, Is, In
<1>6. j \in 0 .. m BY DEF m, path
<1>7. Is(n, j) <=> j = m BY <1>2, <1>3, <1>5, <1>6
<1>8. ASSUME NEW i \in 0 .. n - 1
      PROVE Is(i, j) <=> \/ pattern[i + 1] = Doubled /\ Is(i + 1, j)
                         \/ /\ j < m /\ In(i, j + 1)
                            /\ Is(Following(pattern, i), j + 1)
  <2>1. i + 1 \in 1 .. n /\ i + 2 \in 1 .. n + 1 /\ j + 1 \in 1 .. m + 1 /\ i \in Int /\ j \in Int /\ (i + 1) + 1 = i + 2 /\ (j + 1) + 1 = j + 2
    BY <1>1, <1>2, <1>6
  <2>2. Is(i, j) <=> IF pattern[i + 1] = Doubled THEN \E k \in R[i + 2] : j + 1 <= k
                     ELSE /\ j + 1 \in 1 .. m /\ path[j + 1] # << >>
                          /\ MatchesSegment(pattern[i + 1], path[j + 1]) /\ j + 2 \in R[i + 2]
    <3>1. j + 1 \in R[i + 1] <=> IF pattern[i + 1] = Doubled THEN \E k \in R[(i + 1) + 1] : j + 1 <= k
                     ELSE /\ j + 1 \in 1 .. m /\ path[j + 1] # << >>
                          /\ MatchesSegment(pattern[i + 1], path[j + 1]) /\ (j + 1) + 1 \in R[(i + 1) + 1]
      BY <1>5, <2>1
    <3>2. QED BY <1>3, <2>1, <3>1
  <2>3. (Is(i + 1, j) <=> j + 1 \in R[i + 2]) /\ (Is(i + 1, j + 1) <=> j + 2 \in R[i + 2])
        /\ (Is(i, j + 1) <=> j + 2 \in R[i + 1]) BY <1>3, <2>1
  <2>4. j + 1 \in 1 .. m <=> j < m BY <1>2, <1>6
  <2>5. CASE pattern[i + 1] # Doubled
    <3>1. Following(pattern, i) = i + 1 BY <2>5 DEF Following
    <3>2. j < m => path[j + 1] # << >> /\ (In(i, j + 1) <=> MatchesSegment(pattern[i + 1], path[j + 1]))
      BY <1>2, <1>4, <2>4, <2>5
    <3>3. QED BY <2>2, <2>3, <2>4, <2>5, <3>1, <3>2
  <2>6. CASE pattern[i + 1] = Doubled
    <3>0. Following(pattern, i) = i /\ (j < m => In(i, j + 1)) BY <1>4, <2>4, <2>6 DEF Following
    <3>1. j < m => (j + 2 \in R[i + 1] <=> \E k \in R[i + 2] : j + 2 <= k)
      <4>1. j < m => j + 2 \in 1 .. m + 1 BY <1>2, <1>6
      <4>2. j < m => (j + 2 \in R[i + 1] <=> \E k \in R[(i + 1) + 1] : j + 2 <= k) BY <1>5, <2>1, <2>6, <4>1
      <4>3. QED BY <4>2, <2>1
    <3>2. R[i + 2] \subseteq 1 .. m + 1 BY <1>5, <2>1
    <3>3. (\E k \in R[i + 2] : j + 1 <= k) <=> j + 1 \in R[i + 2] \/ (j < m /\ \E k \in R[i + 2] : j + 2 <= k)
      BY <1>2, <1>6, <3>2
    <3>4. QED BY <2>2, <2>3, <2>6, <3>0, <3>1, <3>3
  <2>7. QED BY <2>5, <2>6
<1>9. QED BY <1>7, <1>8 DEF Is, In, n, m, path

\* All of it is ahead at the start.
LEMMA MatchesIs ==
  ASSUME NEW pattern, IsPattern(pattern), NEW word, IsWord(word)
  PROVE  Matches(pattern, Segments(word)) <=> Ahead(pattern, word, 0, 0)
<1>1. pattern \in Seq(Seq(CodePoints)) BY DEF IsPattern
<1> DEFINE path == Segments(word)
<1>2. path \in Seq(Seq(CodePoints)) BY SegmentsOf
<1>3. Ahead(pattern, word, 0, 0) <=> 1 \in PathRest(pattern, path)[1] BY DEF Ahead
<1> HIDE DEF path
<1>4. Matches(pattern, path) <=> 1 \in PathRest(pattern, path)[1] BY <1>1, <1>2, PathRestIs
<1>5. QED BY <1>3, <1>4 DEF path

\* The edges of a boundary, and of a place within a component.
LEMMA BoundaryEdges ==
  ASSUME NEW pattern, IsPattern(pattern), NEW i \in 0 .. Len(pattern), NEW seen \in BOOLEAN, NEW x
  PROVE  /\ i = Len(pattern) => Epsilon(pattern, Boundary(i, seen)) = {} /\ Edges(pattern, Boundary(i, seen), x) = {}
         /\ i # Len(pattern) =>
              /\ Epsilon(pattern, Boundary(i, seen)) =
                   (IF pattern[i + 1] = Doubled THEN {Boundary(i + 1, seen)} ELSE {})
                     \cup (IF seen THEN {} ELSE {<<i, seen, 0, FALSE>>})
              /\ Edges(pattern, Boundary(i, seen), x) =
                   IF seen /\ x = Slash THEN {<<i, seen, 0, FALSE>>} ELSE {}
<1>1. Len(pattern) \in Nat BY DEF IsPattern
<1> DEFINE q == Boundary(i, seen)   n == Len(pattern)
<1>2. q[1] = i /\ q[2] = seen /\ q[3] = AtBoundary BY DEF Boundary
<1> HIDE DEF n, q
<1>3. i # n => i < n BY <1>1 DEF n
<1>4. Epsilon(pattern, q) = IF i = n THEN {}
          ELSE (IF pattern[i + 1] = Doubled THEN {Boundary(i + 1, seen)} ELSE {})
                 \cup (IF seen THEN {} ELSE {<<i, seen, 0, FALSE>>}) BY <1>2 DEF Epsilon, n
<1>5. Edges(pattern, q, x) = IF i < n /\ seen /\ x = Slash THEN {<<i, seen, 0, FALSE>>} ELSE {}
  BY <1>2 DEF Edges, n
<1>6. i = n => ~(i < n) BY <1>1
<1>7. QED BY <1>3, <1>4, <1>5, <1>6 DEF n, q

\* Without a scalar, "*" is passed, and a consumed component left.
LEMMA TokenEpsilon ==
  ASSUME NEW pattern, NEW i, NEW seen, NEW p \in Nat, NEW consumed
  PROVE  LET tokens == Tokens(pattern[i + 1])
         IN Epsilon(pattern, <<i, seen, p, consumed>>) =
              IF p = Len(tokens)
              THEN IF consumed THEN {Boundary(Following(pattern, i), TRUE)} ELSE {}
              ELSE IF tokens[p + 1] = Star THEN {<<i, seen, p + 1, consumed>>} ELSE {}
<1> DEFINE q == <<i, seen, p, consumed>>
<1>1. q[1] = i /\ q[2] = seen /\ q[3] = p /\ q[4] = consumed OBVIOUS
<1>2. p # AtBoundary BY DEF AtBoundary
<1> HIDE DEF q
<1>3. Segment(pattern, i) = Boundary(Following(pattern, i), TRUE) BY DEF Segment, Following
<1>4. QED BY <1>1, <1>2, <1>3 DEF Epsilon, q

\* A scalar is taken by "*", by "?" or by the token that it is.
LEMMA TokenEdges ==
  ASSUME NEW pattern, NEW i, NEW seen, NEW p \in Nat, NEW consumed, NEW x
  PROVE  LET tokens == Tokens(pattern[i + 1])
         IN Edges(pattern, <<i, seen, p, consumed>>, x) =
              IF p = Len(tokens) THEN {}
              ELSE IF tokens[p + 1] = Star THEN IF IsScalar(x) THEN {<<i, seen, p, TRUE>>} ELSE {}
              ELSE IF \/ tokens[p + 1] = Query /\ IsScalar(x)
                      \/ tokens[p + 1] # Query /\ x = tokens[p + 1]
                   THEN {<<i, seen, p + 1, TRUE>>} ELSE {}
<1> DEFINE q == <<i, seen, p, consumed>>   tokens == Tokens(pattern[i + 1])   n == Len(tokens)
<1>1. q[1] = i /\ q[2] = seen /\ q[3] = p /\ q[4] = consumed OBVIOUS
<1>2. p # AtBoundary BY DEF AtBoundary
<1> HIDE DEF q
<1>5. Edges(pattern, q, x) =
        IF p = n \/ ~(IF tokens[p + 1] \in {Star, Query} THEN IsScalar(x) ELSE x = tokens[p + 1]) THEN {}
        ELSE {<<i, seen, IF tokens[p + 1] = Star THEN p ELSE p + 1, TRUE>>}
  BY <1>1, <1>2 DEF Edges
<1> HIDE DEF n, tokens
<1>6. Star # Query BY DEF Star, Query
<1>7. QED BY <1>5, <1>6 DEF n, tokens, q

\* From state q, after k scalars of the word, the rest of it can be accepted.
Promising(pattern, word, k, q) ==
  LET j == Row(word, k)   c == Col(word, k)   end == Len(Segments(word)[j])
  IN IF q[3] # AtBoundary
     THEN /\ q[4] \/ c < end
          /\ Inside(pattern, word, q[1], j, q[3], c)
          /\ Ahead(pattern, word, Following(pattern, q[1]), j)
     ELSE IF q[2] THEN c = end /\ Ahead(pattern, word, q[1], j)
     ELSE k = 0 /\ Ahead(pattern, word, q[1], 0)

\* What the states of an automaton promise.
LEMMA PromisingIs ==
  ASSUME NEW pattern, NEW word, NEW k, NEW i
  PROVE  LET j == Row(word, k)   c == Col(word, k)   end == Len(Segments(word)[j])
         IN /\ Promising(pattern, word, k, Boundary(i, TRUE)) <=> c = end /\ Ahead(pattern, word, i, j)
            /\ Promising(pattern, word, k, Boundary(i, FALSE)) <=> k = 0 /\ Ahead(pattern, word, i, 0)
            /\ \A seen, consumed \in BOOLEAN : \A p \in Nat :
                 Promising(pattern, word, k, <<i, seen, p, consumed>>) <=>
                   /\ consumed \/ c < end
                   /\ Inside(pattern, word, i, j, p, c)
                   /\ Ahead(pattern, word, Following(pattern, i), j)
<1>1. \A p \in Nat : p # AtBoundary BY DEF AtBoundary
<1>2. \A seen \in BOOLEAN : Boundary(i, seen)[1] = i /\ Boundary(i, seen)[2] = seen /\ Boundary(i, seen)[3] = AtBoundary
  BY DEF Boundary
<1>3. ASSUME NEW seen \in BOOLEAN, NEW consumed \in BOOLEAN, NEW p \in Nat
      PROVE  Promising(pattern, word, k, <<i, seen, p, consumed>>) <=>
                   /\ consumed \/ Col(word, k) < Len(Segments(word)[Row(word, k)])
                   /\ Inside(pattern, word, i, Row(word, k), p, Col(word, k))
                   /\ Ahead(pattern, word, Following(pattern, i), Row(word, k))
  <2> DEFINE q == <<i, seen, p, consumed>>
  <2>1. q[1] = i /\ q[3] = p /\ q[4] = consumed OBVIOUS
  <2> HIDE DEF q
  <2>2. QED BY <1>1, <2>1 DEF Promising, q
<1>4. QED BY <1>2, <1>3 DEF Promising

-----------------------------------------------------------------------------
\* The promises of states: edges make none, and in a closed set one is kept.

\* An edge without a scalar leads to no promise that was not there before it.
LEMMA EpsilonBack ==
  ASSUME NEW pattern, IsPattern(pattern), NEW word, IsWord(word), NEW k \in 0 .. Len(word),
         NEW q \in States(pattern), k = 0 \/ ~First(q),
         NEW r \in Epsilon(pattern, q), Promising(pattern, word, k, r)
  PROVE  Promising(pattern, word, k, q)
<1> DEFINE n == Len(pattern)   path == Segments(word)   m == Len(path)   j == Row(word, k)   c == Col(word, k)
           Is(i, l) == Ahead(pattern, word, i, l)   In(i, l, p, d) == Inside(pattern, word, i, l, p, d)
<1>1. n \in Nat /\ word \in Seq(CodePoints) BY DEF IsPattern, IsWord
<1>2. m \in Nat \ {0} /\ j \in 1 .. m /\ c \in 0 .. Len(path[j]) /\ \A l \in 1 .. m : Len(path[l]) \in Nat \ {0}
  BY <1>1, PlaceAre, SegmentsOf
<1>3. ASSUME NEW l \in 0 .. m
      PROVE  /\ Is(n, l) <=> l = m
             /\ \A i \in 0 .. n - 1 :
                 Is(i, l) <=>
                   \/ pattern[i + 1] = Doubled /\ Is(i + 1, l)
                   \/ l < m /\ In(i, l + 1, 0, 0) /\ Is(Following(pattern, i), l + 1)
  BY AheadIs
<1>4. CASE \E i \in 0 .. n, seen \in BOOLEAN : q = Boundary(i, seen)
  <2>1. PICK i \in 0 .. n, seen \in BOOLEAN : q = Boundary(i, seen) BY <1>4
  <2>2. i # n /\ r \in (IF pattern[i + 1] = Doubled THEN {Boundary(i + 1, seen)} ELSE {})
                     \cup (IF seen THEN {} ELSE {<<i, seen, 0, FALSE>>})
    BY <2>1, BoundaryEdges
  <2>3. i \in 0 .. n - 1 /\ 0 \in 0 .. m /\ j \in 0 .. m BY <1>1, <1>2, <2>2
  <2>4. ~seen => k = 0
    <3>1. ~seen => First(q) BY <2>1 DEF First, Boundary
    <3>2. QED BY <3>1
  <2>5. CASE seen
    <3>1. pattern[i + 1] = Doubled /\ r = Boundary(i + 1, TRUE) /\ q = Boundary(i, TRUE) BY <2>1, <2>2, <2>5
    <3>2. c = Len(path[j]) /\ Is(i + 1, j) BY <3>1, PromisingIs
    <3> HIDE DEF Is, In
    <3>3. Is(i, j) BY <1>3, <2>3, <3>1, <3>2
    <3>4. QED BY <3>1, <3>2, <3>3, PromisingIs DEF Is
  <2>6. CASE ~seen
    <3>1. k = 0 /\ q = Boundary(i, FALSE) BY <2>1, <2>4, <2>6
    <3>2. CASE pattern[i + 1] = Doubled /\ r = Boundary(i + 1, FALSE)
      <4>1. Is(i + 1, 0) BY <3>2, PromisingIs
      <4> HIDE DEF Is, In
      <4>2. Is(i, 0) BY <1>3, <2>3, <3>2, <4>1
      <4>3. QED BY <3>1, <4>2, PromisingIs DEF Is
    <3>3. CASE r = <<i, FALSE, 0, FALSE>>
      <4>1. In(i, j, 0, c) /\ Is(Following(pattern, i), j)
        <5>1. 0 \in Nat OBVIOUS
        <5>2. QED BY <3>3, <5>1, PromisingIs
      <4>2. j = 1 /\ c = 0 BY <1>1, <3>1, PlaceAtStart
      <4> HIDE DEF Is, In
      <4>3. Is(i, 0) BY <1>2, <1>3, <2>3, <4>1, <4>2
      <4>4. QED BY <3>1, <4>3, PromisingIs DEF Is
    <3>4. QED BY <2>2, <2>6, <3>2, <3>3
  <2>7. QED BY <2>5, <2>6
<1>5. CASE \E i \in 0 .. n - 1, seen \in BOOLEAN, consumed \in BOOLEAN :
             \E p \in 0 .. Len(Tokens(pattern[i + 1])) : q = <<i, seen, p, consumed>>
  <2>1. PICK i \in 0 .. n - 1, seen \in BOOLEAN, consumed \in BOOLEAN :
             \E p \in 0 .. Len(Tokens(pattern[i + 1])) : q = <<i, seen, p, consumed>> BY <1>5
  <2>2. PICK p \in 0 .. Len(Tokens(pattern[i + 1])) : q = <<i, seen, p, consumed>> BY <2>1
  <2> DEFINE tokens == Tokens(pattern[i + 1])   nt == Len(tokens)
  <2>3. i + 1 \in DOMAIN pattern BY DEF IsPattern
  <2>4. nt \in Nat BY <2>3, TokensFacts
  <2>5. /\ In(i, j, nt, c) <=> c = Len(path[j])
        /\ \A s \in 0 .. nt - 1 : tokens[s + 1] = Star /\ In(i, j, s + 1, c) => In(i, j, s, c)
    <3>1. /\ In(i, j, nt, c) <=> c = Len(path[j])
          /\ \A s \in 0 .. nt - 1 :
               In(i, j, s, c) <=>
                 IF tokens[s + 1] = Star
                 THEN In(i, j, s + 1, c) \/ (c < Len(path[j]) /\ In(i, j, s, c + 1))
                 ELSE /\ c < Len(path[j]) /\ tokens[s + 1] \in {Query, path[j][c + 1]}
                      /\ In(i, j, s + 1, c + 1) BY <1>2, InsideIs
    <3> HIDE DEF In, nt, tokens
    <3>2. QED BY <3>1
  <2>9. r \in IF p = nt THEN IF consumed THEN {Boundary(Following(pattern, i), TRUE)} ELSE {}
              ELSE IF tokens[p + 1] = Star THEN {<<i, seen, p + 1, consumed>>} ELSE {}
    <3>1. p \in Nat BY <2>4
    <3>2. QED BY <2>2, <3>1, TokenEpsilon
  <2>6. CASE p = nt
    <3>1. consumed /\ r = Boundary(Following(pattern, i), TRUE) BY <2>6, <2>9
    <3>2. c = Len(path[j]) /\ Is(Following(pattern, i), j) BY <3>1, PromisingIs
    <3>3. In(i, j, p, c) BY <2>5, <2>6, <3>2
    <3>4. p \in Nat BY <2>4
    <3>5. QED BY <2>2, <3>1, <3>2, <3>3, <3>4, PromisingIs
  <2>7. CASE p # nt
    <3>1. tokens[p + 1] = Star /\ r = <<i, seen, p + 1, consumed>> BY <2>7, <2>9
    <3>2. p \in Nat /\ p + 1 \in Nat /\ p \in 0 .. nt - 1 BY <2>4, <2>7
    <3>3. (consumed \/ c < Len(path[j])) /\ In(i, j, p + 1, c) /\ Is(Following(pattern, i), j)
      BY <3>1, <3>2, PromisingIs
    <3>4. In(i, j, p, c) BY <2>5, <3>1, <3>2, <3>3
    <3>5. QED BY <2>2, <3>2, <3>3, <3>4, PromisingIs
  <2>8. QED BY <2>6, <2>7
<1>6. QED BY <1>4, <1>5, StatesAre

\* Nor does an edge on the next scalar.
LEMMA EdgeBack ==
  ASSUME NEW pattern, IsPattern(pattern), NEW word, IsWord(word), NEW k \in 1 .. Len(word),
         NEW q \in States(pattern), NEW r \in Edges(pattern, q, word[k]), Promising(pattern, word, k, r)
  PROVE  Promising(pattern, word, k - 1, q)
<1> DEFINE n == Len(pattern)   path == Segments(word)   m == Len(path)
           j == Row(word, k - 1)   c == Col(word, k - 1)
           Is(i, l) == Ahead(pattern, word, i, l)   In(i, l, p, d) == Inside(pattern, word, i, l, p, d)
<1>1. n \in Nat /\ word \in Seq(CodePoints) BY DEF IsPattern, IsWord
<1>0. k - 1 \in 0 .. Len(word) /\ k \in 0 .. Len(word) BY <1>1
<1>2. m \in Nat \ {0} /\ j \in 1 .. m /\ c \in 0 .. Len(path[j]) /\ \A l \in 1 .. m : Len(path[l]) \in Nat \ {0}
  BY <1>0, <1>1, PlaceAre, SegmentsOf
<1>7. Row(word, k) \in 1 .. m BY <1>0, <1>1, PlaceAre
<1>8. /\ word[k] = Slash => Row(word, k) = j + 1 /\ Col(word, k) = 0 /\ c = Len(path[j])
      /\ word[k] # Slash => /\ Row(word, k) = j /\ Col(word, k) = c + 1
                            /\ c < Len(path[j]) /\ path[j][c + 1] = word[k]
  BY <1>1, PlaceSteps
<1>4. CASE \E i \in 0 .. n, seen \in BOOLEAN : q = Boundary(i, seen)
  <2>1. PICK i \in 0 .. n, seen \in BOOLEAN : q = Boundary(i, seen) BY <1>4
  <2>2. i # n /\ seen /\ word[k] = Slash /\ r = <<i, seen, 0, FALSE>>
    <3>1. i # n /\ r \in IF seen /\ word[k] = Slash THEN {<<i, seen, 0, FALSE>>} ELSE {}
      BY <2>1, BoundaryEdges
    <3>2. QED BY <3>1
  <2>3. i \in 0 .. n - 1 /\ j \in 0 .. m /\ 0 \in Nat BY <1>1, <1>2, <2>2
  <2>4. In(i, j + 1, 0, 0) /\ Is(Following(pattern, i), j + 1)
    <3>1. In(i, Row(word, k), 0, Col(word, k)) /\ Is(Following(pattern, i), Row(word, k))
      BY <2>2, <2>3, PromisingIs
    <3>2. QED BY <1>8, <2>2, <3>1
  <2>5. j < m BY <1>2, <1>7, <1>8, <2>2
  <2>6. Is(i, j) BY <2>3, <2>4, <2>5, AheadIs
  <2>7. QED BY <1>8, <2>1, <2>2, <2>6, PromisingIs
<1>5. CASE \E i \in 0 .. n - 1, seen \in BOOLEAN, consumed \in BOOLEAN :
             \E p \in 0 .. Len(Tokens(pattern[i + 1])) : q = <<i, seen, p, consumed>>
  <2>1. PICK i \in 0 .. n - 1, seen \in BOOLEAN, consumed \in BOOLEAN :
             \E p \in 0 .. Len(Tokens(pattern[i + 1])) : q = <<i, seen, p, consumed>> BY <1>5
  <2>2. PICK p \in 0 .. Len(Tokens(pattern[i + 1])) : q = <<i, seen, p, consumed>> BY <2>1
  <2> DEFINE tokens == Tokens(pattern[i + 1])   nt == Len(tokens)
  <2>3. i + 1 \in DOMAIN pattern BY DEF IsPattern
  <2>4. nt \in Nat /\ tokens \in Seq(CodePoints) /\ Slash \notin Range(tokens) BY <2>3, TokensFacts
  <2>5. \A s \in 0 .. nt - 1 :
          /\ tokens[s + 1] = Star /\ c < Len(path[j]) /\ In(i, j, s, c + 1) => In(i, j, s, c)
          /\ tokens[s + 1] # Star /\ c < Len(path[j]) /\ tokens[s + 1] \in {Query, path[j][c + 1]}
               /\ In(i, j, s + 1, c + 1) => In(i, j, s, c)
    <3>1. /\ In(i, j, nt, c) <=> c = Len(path[j])
          /\ \A s \in 0 .. nt - 1 :
               In(i, j, s, c) <=>
                 IF tokens[s + 1] = Star
                 THEN In(i, j, s + 1, c) \/ (c < Len(path[j]) /\ In(i, j, s, c + 1))
                 ELSE /\ c < Len(path[j]) /\ tokens[s + 1] \in {Query, path[j][c + 1]}
                      /\ In(i, j, s + 1, c + 1) BY <1>2, InsideIs
    <3> HIDE DEF In, nt, tokens
    <3>2. QED BY <3>1
  <2>12. r \in IF p = nt THEN {}
              ELSE IF tokens[p + 1] = Star THEN IF IsScalar(word[k]) THEN {<<i, seen, p, TRUE>>} ELSE {}
              ELSE IF \/ tokens[p + 1] = Query /\ IsScalar(word[k])
                      \/ tokens[p + 1] # Query /\ word[k] = tokens[p + 1]
                   THEN {<<i, seen, p + 1, TRUE>>} ELSE {}
    <3>1. p \in Nat BY <2>4
    <3>2. QED BY <2>2, <3>1, TokenEdges
  <2>6. p # nt BY <2>12
  <2>7. p \in Nat /\ p + 1 \in Nat /\ p \in 0 .. nt - 1 /\ p + 1 \in 1 .. nt BY <2>4, <2>6
  <2>8. tokens[p + 1] # Slash BY <2>4, <2>7 DEF Range
  <2>9. CASE tokens[p + 1] = Star
    <3>1. r \in IF IsScalar(word[k]) THEN {<<i, seen, p, TRUE>>} ELSE {} BY <2>6, <2>9, <2>12
    <3>2. r = <<i, seen, p, TRUE>> /\ IsScalar(word[k]) BY <3>1
    <3>3. word[k] # Slash BY <3>2 DEF IsScalar
    <3>4. In(i, Row(word, k), p, Col(word, k)) /\ Is(Following(pattern, i), Row(word, k))
      BY <2>7, <3>2, PromisingIs
    <3>5. c < Len(path[j]) /\ In(i, j, p, c + 1) /\ Is(Following(pattern, i), j) BY <1>8, <3>3, <3>4
    <3>6. In(i, j, p, c) BY <2>5, <2>7, <2>9, <3>5
    <3>7. QED BY <2>2, <2>7, <3>5, <3>6, PromisingIs
  <2>10. CASE tokens[p + 1] # Star
    <3>1. r \in IF \/ tokens[p + 1] = Query /\ IsScalar(word[k])
                   \/ tokens[p + 1] # Query /\ word[k] = tokens[p + 1]
                THEN {<<i, seen, p + 1, TRUE>>} ELSE {} BY <2>6, <2>10, <2>12
    <3>2. r = <<i, seen, p + 1, TRUE>> /\ ((tokens[p + 1] = Query /\ IsScalar(word[k])) \/ word[k] = tokens[p + 1]) BY <3>1
    <3>3. word[k] # Slash BY <2>8, <3>2 DEF IsScalar
    <3>4. In(i, Row(word, k), p + 1, Col(word, k)) /\ Is(Following(pattern, i), Row(word, k))
      BY <2>7, <3>2, PromisingIs
    <3>5. c < Len(path[j]) /\ In(i, j, p + 1, c + 1) /\ Is(Following(pattern, i), j) /\ path[j][c + 1] = word[k]
      BY <1>8, <3>3, <3>4
    <3>6. In(i, j, p, c) BY <2>5, <2>7, <2>10, <3>2, <3>5
    <3>7. QED BY <2>2, <2>7, <3>5, <3>6, PromisingIs
  <2>11. QED BY <2>9, <2>10
<1>6. QED BY <1>4, <1>5, StatesAre

\* The automaton goes on: the next scalar leads to a promise, or the word ends in
\* acceptance.
GoesOn(pattern, word, k, S) ==
  IF k = Len(word) THEN DfaAccepts(pattern, S)
  ELSE \E q \in S : \E r \in Edges(pattern, q, word[k + 1]) : Promising(pattern, word, k + 1, r)

\* In front of a scalar of the segment, or behind its last.
LEMMA PlaceWithin ==
  ASSUME NEW word, IsWord(word), NEW k \in 0 .. Len(word)
  PROVE  LET path == Segments(word)   j == Row(word, k)   c == Col(word, k)   x == word[k + 1]
         IN /\ Len(path) \in Nat \ {0} /\ j \in 1 .. Len(path) /\ c \in 0 .. Len(path[j])
            /\ Len(path[j]) \in Nat \ {0}
            /\ c < Len(path[j]) => /\ k # Len(word) /\ x # Slash /\ IsScalar(x) /\ x = path[j][c + 1]
                                   /\ Row(word, k + 1) = j /\ Col(word, k + 1) = c + 1
            /\ c = Len(path[j]) /\ k # Len(word) =>
                 /\ x = Slash /\ j < Len(path) /\ Row(word, k + 1) = j + 1 /\ Col(word, k + 1) = 0
            /\ k = Len(word) => j = Len(path) /\ c = Len(path[j])
<1> DEFINE path == Segments(word)   j == Row(word, k)   c == Col(word, k)   x == word[k + 1]
<1>1. word \in Seq(CodePoints) BY DEF IsWord
<1>2. Len(path) \in Nat \ {0} /\ j \in 1 .. Len(path) /\ c \in 0 .. Len(path[j]) /\ Len(path[j]) \in Nat \ {0}
  BY <1>1, PlaceAre, SegmentsOf
<1>3. k = Len(word) => j = Len(path) /\ c = Len(path[j]) BY <1>1, PlaceAtEnd
<1>4. CASE k = Len(word) BY <1>2, <1>3, <1>4
<1>5. CASE k # Len(word)
  <2>1. k + 1 \in 1 .. Len(word) /\ (k + 1) - 1 = k /\ k + 1 \in DOMAIN word /\ k + 1 \in 0 .. Len(word) BY <1>1, <1>5
  <2>2. /\ word[k + 1] = Slash => Row(word, k + 1) = Row(word, (k + 1) - 1) + 1 /\ Col(word, k + 1) = 0
                                  /\ Col(word, (k + 1) - 1) = Len(path[Row(word, (k + 1) - 1)])
        /\ word[k + 1] # Slash => /\ Row(word, k + 1) = Row(word, (k + 1) - 1) /\ Col(word, k + 1) = Col(word, (k + 1) - 1) + 1
                            /\ Col(word, (k + 1) - 1) < Len(path[Row(word, (k + 1) - 1)]) /\ path[Row(word, (k + 1) - 1)][Col(word, (k + 1) - 1) + 1] = word[k + 1]
    BY <1>1, <2>1, PlaceSteps
  <2>3. /\ x = Slash => Row(word, k + 1) = j + 1 /\ Col(word, k + 1) = 0 /\ c = Len(path[j])
        /\ x # Slash => /\ Row(word, k + 1) = j /\ Col(word, k + 1) = c + 1
                        /\ c < Len(path[j]) /\ path[j][c + 1] = x BY <2>1, <2>2
  <2>4. x # Slash => IsScalar(x) BY <2>1 DEF IsWord
  <2>5. Row(word, k + 1) \in 1 .. Len(path) BY <1>1, <2>1, PlaceAre
  <2>6. ~(c < Len(path[j]) /\ c = Len(path[j])) BY <1>2
  <2> HIDE DEF path, j, c, x
  <2>7. x = Slash => j < Len(path) BY <1>2, <2>3, <2>5
  <2>8. QED BY <1>2, <1>5, <2>3, <2>4, <2>6, <2>7 DEF path, j, c, x
<1>6. QED BY <1>4, <1>5

\* Behind a segment, the word ends or a slash leads to the next component.
LEMMA SeenGoesOn ==
  ASSUME NEW pattern, IsPattern(pattern), NEW word, IsWord(word), NEW k \in 0 .. Len(word),
         NEW S \in SUBSET States(pattern), Closed(pattern, S),
         NEW i \in 0 .. Len(pattern), Boundary(i, TRUE) \in S, Promising(pattern, word, k, Boundary(i, TRUE))
  PROVE  GoesOn(pattern, word, k, S)
<1> DEFINE n == Len(pattern)   path == Segments(word)   m == Len(path)   j == Row(word, k)   c == Col(word, k)
           Is(h, l) == Ahead(pattern, word, h, l)   In(h, l, p, d) == Inside(pattern, word, h, l, p, d)
           Fine == {h \in 0 .. n : Boundary(h, TRUE) \in S /\ Promising(pattern, word, k, Boundary(h, TRUE))
                                     => GoesOn(pattern, word, k, S)}
<1>1. n \in Nat BY DEF IsPattern
<1>2. /\ m \in Nat \ {0} /\ j \in 1 .. m /\ j \in 0 .. m
      /\ c = Len(path[j]) /\ k # Len(word) =>
           word[k + 1] = Slash /\ j < m /\ Row(word, k + 1) = j + 1 /\ Col(word, k + 1) = 0
      /\ k = Len(word) => j = m BY PlaceWithin
<1>3. Is(n, j) <=> j = m BY <1>2, AheadIs
<1>4. n \in Fine
  <2>0. n \in 0 .. n BY <1>1
  <2>1. SUFFICES ASSUME Boundary(n, TRUE) \in S, Promising(pattern, word, k, Boundary(n, TRUE))
                 PROVE  GoesOn(pattern, word, k, S) BY <2>0
  <2>2. c = Len(path[j]) /\ Is(n, j) BY <2>1, PromisingIs
  <2>3. k = Len(word) BY <1>2, <1>3, <2>2
  <2>4. QED BY <2>1, <2>3 DEF GoesOn, DfaAccepts
<1>5. ASSUME NEW h \in 0 .. n - 1, h + 1 \in Fine PROVE h \in Fine
  <2>0. h \in 0 .. n /\ h # n BY <1>1
  <2>1. SUFFICES ASSUME Boundary(h, TRUE) \in S, Promising(pattern, word, k, Boundary(h, TRUE))
                 PROVE  GoesOn(pattern, word, k, S) BY <2>0
  <2>2. c = Len(path[j]) /\ Is(h, j) BY <2>1, PromisingIs
  <2>3. \/ pattern[h + 1] = Doubled /\ Is(h + 1, j)
        \/ j < m /\ In(h, j + 1, 0, 0) /\ Is(Following(pattern, h), j + 1) BY <1>2, <2>2, AheadIs
  <2>4. CASE pattern[h + 1] = Doubled /\ Is(h + 1, j)
    <3>1. Boundary(h + 1, TRUE) \in Epsilon(pattern, Boundary(h, TRUE)) BY <2>0, <2>4, BoundaryEdges
    <3>2. Boundary(h + 1, TRUE) \in S BY <2>1, <3>1 DEF Closed
    <3>3. Promising(pattern, word, k, Boundary(h + 1, TRUE)) BY <2>2, <2>4, PromisingIs
    <3>4. QED BY <1>5, <3>2, <3>3
  <2>5. CASE j < m /\ In(h, j + 1, 0, 0) /\ Is(Following(pattern, h), j + 1)
    <3>1. k # Len(word) BY <1>2, <2>5
    <3>2. word[k + 1] = Slash /\ Row(word, k + 1) = j + 1 /\ Col(word, k + 1) = 0 BY <1>2, <2>2, <3>1
    <3> DEFINE r == <<h, TRUE, 0, FALSE>>
    <3>3. r \in Edges(pattern, Boundary(h, TRUE), word[k + 1]) BY <2>0, <3>2, BoundaryEdges
    <3>4. j + 1 \in 1 .. m BY <1>2, <2>5
    <3>10. Len(path[j + 1]) \in Nat \ {0} BY <3>4, SegmentsOf
    <3>5. 0 < Len(path[j + 1]) BY <3>10
    <3>6. /\ FALSE \/ Col(word, k + 1) < Len(path[Row(word, k + 1)])
          /\ Inside(pattern, word, h, Row(word, k + 1), 0, Col(word, k + 1))
          /\ Ahead(pattern, word, Following(pattern, h), Row(word, k + 1)) BY <2>5, <3>2, <3>5
    <3>7. 0 \in Nat /\ TRUE \in BOOLEAN /\ FALSE \in BOOLEAN OBVIOUS
    <3>8. Promising(pattern, word, k + 1, r) BY <3>6, <3>7, PromisingIs
    <3>9. QED BY <2>1, <3>1, <3>3, <3>8 DEF GoesOn
  <2>6. QED BY <2>3, <2>4, <2>5
<1> HIDE DEF Fine
<1>6. \A h \in 0 .. n : h \in Fine BY <1>1, <1>4, <1>5, DownTo
<1>7. QED BY <1>6 DEF Fine

\* Within a component, a token takes the next scalar or the component is left.
LEMMA TokenGoesOn ==
  ASSUME NEW pattern, IsPattern(pattern), NEW word, IsWord(word), NEW k \in 0 .. Len(word),
         NEW S \in SUBSET States(pattern), Closed(pattern, S),
         NEW i \in 0 .. Len(pattern) - 1, NEW seen \in BOOLEAN, NEW consumed \in BOOLEAN,
         NEW p \in 0 .. Len(Tokens(pattern[i + 1])), <<i, seen, p, consumed>> \in S,
         Promising(pattern, word, k, <<i, seen, p, consumed>>)
  PROVE  GoesOn(pattern, word, k, S)
<1> DEFINE n == Len(pattern)   path == Segments(word)   m == Len(path)   j == Row(word, k)   c == Col(word, k)
           Is(h, l) == Ahead(pattern, word, h, l)   In(h, l, s, d) == Inside(pattern, word, h, l, s, d)
           tokens == Tokens(pattern[i + 1])   nt == Len(tokens)   x == word[k + 1]
           at(s) == <<i, seen, s, consumed>>
           Fine == {s \in 0 .. nt : at(s) \in S /\ Promising(pattern, word, k, at(s))
                                     => GoesOn(pattern, word, k, S)}
<1>1. n \in Nat /\ i + 1 \in DOMAIN pattern /\ i \in 0 .. n BY DEF IsPattern
<1>2. nt \in Nat BY <1>1, TokensFacts
<1>3. /\ m \in Nat \ {0} /\ j \in 1 .. m /\ c \in 0 .. Len(path[j]) /\ Len(path[j]) \in Nat
      /\ c < Len(path[j]) => /\ k # Len(word) /\ x # Slash /\ IsScalar(x) /\ x = path[j][c + 1]
                             /\ Row(word, k + 1) = j /\ Col(word, k + 1) = c + 1
  BY PlaceWithin
<1>4. /\ In(i, j, nt, c) <=> c = Len(path[j])
      /\ \A s \in 0 .. nt - 1 :
           In(i, j, s, c) <=>
             IF tokens[s + 1] = Star
             THEN In(i, j, s + 1, c) \/ (c < Len(path[j]) /\ In(i, j, s, c + 1))
             ELSE /\ c < Len(path[j]) /\ tokens[s + 1] \in {Query, path[j][c + 1]}
                  /\ In(i, j, s + 1, c + 1) BY <1>3, InsideIs
<1>5. \A s \in Nat : Promising(pattern, word, k, at(s)) <=>
                       (consumed \/ c < Len(path[j])) /\ In(i, j, s, c) /\ Is(Following(pattern, i), j)
  BY PromisingIs
<1>6. \A s \in Nat : Epsilon(pattern, at(s)) =
              IF s = nt
              THEN IF consumed THEN {Boundary(Following(pattern, i), TRUE)} ELSE {}
              ELSE IF tokens[s + 1] = Star THEN {at(s + 1)} ELSE {} BY TokenEpsilon
<1>7. \A s \in Nat : Edges(pattern, at(s), x) =
              IF s = nt THEN {}
              ELSE IF tokens[s + 1] = Star THEN IF IsScalar(x) THEN {<<i, seen, s, TRUE>>} ELSE {}
              ELSE IF \/ tokens[s + 1] = Query /\ IsScalar(x)
                      \/ tokens[s + 1] # Query /\ x = tokens[s + 1]
                   THEN {<<i, seen, s + 1, TRUE>>} ELSE {} BY TokenEdges
<1> HIDE DEF x, at
<1>8. nt \in Fine
  <2>1. SUFFICES ASSUME at(nt) \in S, Promising(pattern, word, k, at(nt))
                 PROVE  GoesOn(pattern, word, k, S)
    <3>1. nt \in 0 .. nt BY <1>2
    <3>2. QED BY <2>1, <3>1
  <2>2. (consumed \/ c < Len(path[j])) /\ In(i, j, nt, c) /\ Is(Following(pattern, i), j) BY <1>2, <1>5, <2>1
  <2>3. c = Len(path[j]) /\ ~(c < Len(path[j])) BY <1>3, <1>4, <2>2
  <2>4. Boundary(Following(pattern, i), TRUE) \in S
    <3>1. Boundary(Following(pattern, i), TRUE) \in Epsilon(pattern, at(nt)) BY <1>2, <1>6, <2>2, <2>3
    <3>2. QED BY <2>1, <3>1 DEF Closed
  <2>5. Promising(pattern, word, k, Boundary(Following(pattern, i), TRUE)) BY <2>2, <2>3, PromisingIs
  <2>6. Following(pattern, i) \in 0 .. n BY <1>1 DEF Following
  <2>7. QED BY <2>4, <2>5, <2>6, SeenGoesOn
<1>9. ASSUME NEW s \in 0 .. nt - 1, s + 1 \in Fine PROVE s \in Fine
  <2>0. s \in 0 .. nt /\ s # nt /\ s \in Nat /\ s + 1 \in Nat BY <1>2
  <2>1. SUFFICES ASSUME at(s) \in S, Promising(pattern, word, k, at(s))
                 PROVE  GoesOn(pattern, word, k, S) BY <2>0
  <2>2. (consumed \/ c < Len(path[j])) /\ In(i, j, s, c) /\ Is(Following(pattern, i), j) BY <1>5, <2>0, <2>1
  <2>3. IF tokens[s + 1] = Star
        THEN In(i, j, s + 1, c) \/ (c < Len(path[j]) /\ In(i, j, s, c + 1))
        ELSE /\ c < Len(path[j]) /\ tokens[s + 1] \in {Query, path[j][c + 1]}
             /\ In(i, j, s + 1, c + 1) BY <1>4, <2>2
  <2>4. CASE tokens[s + 1] = Star /\ In(i, j, s + 1, c)
    <3>1. at(s + 1) \in S
      <4>1. at(s + 1) \in Epsilon(pattern, at(s)) BY <1>6, <2>0, <2>4
      <4>2. QED BY <2>1, <4>1 DEF Closed
    <3>2. Promising(pattern, word, k, at(s + 1)) BY <1>5, <2>0, <2>2, <2>4
    <3>3. QED BY <1>9, <3>1, <3>2
  <2>5. CASE c < Len(path[j]) /\ (\/ tokens[s + 1] = Star /\ In(i, j, s, c + 1)
                                  \/ /\ tokens[s + 1] # Star /\ tokens[s + 1] \in {Query, path[j][c + 1]}
                                     /\ In(i, j, s + 1, c + 1))
    <3> DEFINE t == IF tokens[s + 1] = Star THEN s ELSE s + 1
               r == <<i, seen, t, TRUE>>
    <3>1. r \in Edges(pattern, at(s), x) BY <1>3, <1>7, <2>0, <2>5
    <3>2. In(i, j, t, c + 1) /\ t \in Nat BY <2>0, <2>5
    <3> HIDE DEF t
    <3>3. /\ Inside(pattern, word, i, Row(word, k + 1), t, Col(word, k + 1))
          /\ Ahead(pattern, word, Following(pattern, i), Row(word, k + 1)) BY <1>3, <2>2, <2>5, <3>2
    <3>4. TRUE \in BOOLEAN OBVIOUS
    <3>5. Promising(pattern, word, k + 1, r) BY <3>2, <3>3, <3>4, PromisingIs
    <3>6. k # Len(word) BY <1>3, <2>5
    <3>7. QED BY <2>1, <3>1, <3>5, <3>6 DEF GoesOn, x
  <2>6. QED BY <2>3, <2>4, <2>5
<1> HIDE DEF Fine
<1>10. \A s \in 0 .. nt : s \in Fine BY <1>2, <1>8, <1>9, DownTo
<1>11. QED BY <1>10 DEF Fine, at

\* In front of the word, its first component is entered.
LEMMA FirstGoesOn ==
  ASSUME NEW pattern, IsPattern(pattern), NEW word, IsWord(word),
         NEW S \in SUBSET States(pattern), Closed(pattern, S),
         NEW i \in 0 .. Len(pattern), Boundary(i, FALSE) \in S, Promising(pattern, word, 0, Boundary(i, FALSE))
  PROVE  GoesOn(pattern, word, 0, S)
<1> DEFINE n == Len(pattern)   path == Segments(word)   m == Len(path)
           Is(h, l) == Ahead(pattern, word, h, l)   In(h, l, p, d) == Inside(pattern, word, h, l, p, d)
           Fine == {h \in 0 .. n : Boundary(h, FALSE) \in S /\ Promising(pattern, word, 0, Boundary(h, FALSE))
                                     => GoesOn(pattern, word, 0, S)}
<1>1. n \in Nat /\ word \in Seq(CodePoints) BY DEF IsPattern, IsWord
<1>2. m \in Nat \ {0} /\ 0 \in 0 .. m /\ m # 0 /\ 1 \in 1 .. m BY SegmentsOf
<1>3. Is(n, 0) <=> 0 = m BY <1>2, AheadIs
<1>4. n \in Fine
  <2>0. n \in 0 .. n BY <1>1
  <2>1. Promising(pattern, word, 0, Boundary(n, FALSE)) => Is(n, 0) BY PromisingIs
  <2>2. QED BY <1>2, <1>3, <2>0, <2>1
<1>5. ASSUME NEW h \in 0 .. n - 1, h + 1 \in Fine PROVE h \in Fine
  <2>0. h \in 0 .. n /\ h # n BY <1>1
  <2>1. SUFFICES ASSUME Boundary(h, FALSE) \in S, Promising(pattern, word, 0, Boundary(h, FALSE))
                 PROVE  GoesOn(pattern, word, 0, S) BY <2>0
  <2>2. Is(h, 0) BY <2>1, PromisingIs
  <2>3. \/ pattern[h + 1] = Doubled /\ Is(h + 1, 0)
        \/ 0 < m /\ In(h, 0 + 1, 0, 0) /\ Is(Following(pattern, h), 0 + 1) BY <1>2, <2>2, AheadIs
  <2>4. CASE pattern[h + 1] = Doubled /\ Is(h + 1, 0)
    <3>1. Boundary(h + 1, FALSE) \in Epsilon(pattern, Boundary(h, FALSE)) BY <2>0, <2>4, BoundaryEdges
    <3>2. Boundary(h + 1, FALSE) \in S BY <2>1, <3>1 DEF Closed
    <3>3. Promising(pattern, word, 0, Boundary(h + 1, FALSE)) BY <2>2, <2>4, PromisingIs
    <3>4. QED BY <1>5, <3>2, <3>3
  <2>5. CASE In(h, 1, 0, 0) /\ Is(Following(pattern, h), 1)
    <3> DEFINE r == <<h, FALSE, 0, FALSE>>
    <3>1. r \in Epsilon(pattern, Boundary(h, FALSE)) BY <2>0, BoundaryEdges
    <3>2. r \in S BY <2>1, <3>1 DEF Closed
    <3>3. Row(word, 0) = 1 /\ Col(word, 0) = 0 BY <1>1, PlaceAtStart
    <3>4. Len(path[1]) \in Nat \ {0} BY <1>2, SegmentsOf
    <3>5. 0 < Len(path[1]) BY <3>4
    <3>6. /\ FALSE \/ Col(word, 0) < Len(path[Row(word, 0)])
          /\ Inside(pattern, word, h, Row(word, 0), 0, Col(word, 0))
          /\ Ahead(pattern, word, Following(pattern, h), Row(word, 0)) BY <2>5, <3>3, <3>5
    <3>7. 0 \in Nat /\ TRUE \in BOOLEAN /\ FALSE \in BOOLEAN /\ 0 \in 0 .. Len(word) BY <1>1
    <3>8. Promising(pattern, word, 0, r) BY <3>6, <3>7, PromisingIs
    <3>9. h + 1 \in DOMAIN pattern BY DEF IsPattern
    <3>10. Len(Tokens(pattern[h + 1])) \in Nat BY <3>9, TokensFacts
    <3>11. 0 \in 0 .. Len(Tokens(pattern[h + 1])) BY <3>10
    <3>12. QED BY <3>2, <3>7, <3>8, <3>11, TokenGoesOn
  <2>6. QED BY <2>3, <2>4, <2>5
<1> HIDE DEF Fine
<1>6. \A h \in 0 .. n : h \in Fine BY <1>1, <1>4, <1>5, DownTo
<1>7. QED BY <1>6 DEF Fine

\* A promise is kept: in a closed set, some state goes on.
LEMMA PromiseGoesOn ==
  ASSUME NEW pattern, IsPattern(pattern), NEW word, IsWord(word), NEW k \in 0 .. Len(word),
         NEW S \in SUBSET States(pattern), Closed(pattern, S),
         NEW q \in S, Promising(pattern, word, k, q)
  PROVE  GoesOn(pattern, word, k, S)
<1>1. CASE \E i \in 0 .. Len(pattern), seen \in BOOLEAN : q = Boundary(i, seen)
  <2>1. PICK i \in 0 .. Len(pattern), seen \in BOOLEAN : q = Boundary(i, seen) BY <1>1
  <2>2. CASE seen BY <2>1, <2>2, SeenGoesOn
  <2>3. CASE ~seen
    <3>1. q = Boundary(i, FALSE) BY <2>1, <2>3
    <3>4. Promising(pattern, word, k, Boundary(i, FALSE)) <=> k = 0 /\ Ahead(pattern, word, i, 0) BY PromisingIs
    <3>2. k = 0 BY <3>1, <3>4
    <3>3. QED BY <3>1, <3>2, FirstGoesOn
  <2>4. QED BY <2>2, <2>3
<1>2. CASE \E i \in 0 .. Len(pattern) - 1, seen \in BOOLEAN, consumed \in BOOLEAN :
             \E p \in 0 .. Len(Tokens(pattern[i + 1])) : q = <<i, seen, p, consumed>>
  BY <1>2, TokenGoesOn
<1>3. q \in States(pattern) OBVIOUS
<1>4. QED BY <1>1, <1>2, <1>3, StatesAre

\* The front is not entered again.
LEMMA EpsilonLeavesFirst ==
  ASSUME NEW pattern, IsPattern(pattern), NEW q \in States(pattern), ~First(q),
         NEW r \in Epsilon(pattern, q)
  PROVE  ~First(r)
<1>1. CASE \E i \in 0 .. Len(pattern), seen \in BOOLEAN : q = Boundary(i, seen)
  <2>1. PICK i \in 0 .. Len(pattern), seen \in BOOLEAN : q = Boundary(i, seen) BY <1>1
  <2>2. seen BY <2>1 DEF First, Boundary
  <2>3. r = Boundary(i + 1, seen)
    <3>1. i # Len(pattern) => Epsilon(pattern, Boundary(i, seen)) =
                   (IF pattern[i + 1] = Doubled THEN {Boundary(i + 1, seen)} ELSE {})
                     \cup (IF seen THEN {} ELSE {<<i, seen, 0, FALSE>>}) BY BoundaryEdges
    <3>2. i = Len(pattern) => Epsilon(pattern, Boundary(i, seen)) = {} BY BoundaryEdges
    <3>3. QED BY <2>1, <2>2, <3>1, <3>2
  <2>4. QED BY <2>2, <2>3 DEF First, Boundary
<1>2. CASE \E i \in 0 .. Len(pattern) - 1, seen \in BOOLEAN, consumed \in BOOLEAN :
             \E p \in 0 .. Len(Tokens(pattern[i + 1])) : q = <<i, seen, p, consumed>>
  <2>1. PICK i \in 0 .. Len(pattern) - 1, seen \in BOOLEAN, consumed \in BOOLEAN :
             \E p \in 0 .. Len(Tokens(pattern[i + 1])) : q = <<i, seen, p, consumed>> BY <1>2
  <2>2. PICK p \in 0 .. Len(Tokens(pattern[i + 1])) : q = <<i, seen, p, consumed>> BY <2>1
  <2>3. i + 1 \in DOMAIN pattern BY DEF IsPattern
  <2>4. Len(Tokens(pattern[i + 1])) \in Nat BY <2>3, TokensFacts
  <2>5. p \in Nat /\ p + 1 # AtBoundary BY <2>4 DEF AtBoundary
  <2>6. r \in IF p = Len(Tokens(pattern[i + 1]))
              THEN IF consumed THEN {Boundary(Following(pattern, i), TRUE)} ELSE {}
              ELSE IF Tokens(pattern[i + 1])[p + 1] = Star THEN {<<i, seen, p + 1, consumed>>} ELSE {}
    BY <2>2, <2>5, TokenEpsilon
  <2>7. r = Boundary(Following(pattern, i), TRUE) \/ r = <<i, seen, p + 1, consumed>> BY <2>6
  <2>8. CASE r = Boundary(Following(pattern, i), TRUE) BY <2>8 DEF First, Boundary
  <2>9. CASE r = <<i, seen, p + 1, consumed>>
    <3>1. r[3] = p + 1 BY <2>9
    <3>2. QED BY <2>5, <3>1 DEF First
  <2>10. QED BY <2>7, <2>8, <2>9
<1>3. QED BY <1>1, <1>2, StatesAre

\* A promise in a closure is one of the set it closes.
LEMMA ClosurePromise ==
  ASSUME NEW pattern, IsPattern(pattern), NEW word, IsWord(word), NEW k \in 0 .. Len(word),
         NEW S \in SUBSET States(pattern), \A q \in S : k = 0 \/ ~First(q)
  PROVE  /\ (\E q \in Closure(pattern, S) : Promising(pattern, word, k, q)) <=> \E q \in S : Promising(pattern, word, k, q)
         /\ \A q \in Closure(pattern, S) : k = 0 \/ ~First(q)
<1>1. S \subseteq Closure(pattern, S) BY ClosureFacts
<1>2. ASSUME \A q \in S : ~Promising(pattern, word, k, q)
      PROVE  \A q \in Closure(pattern, S) : ~Promising(pattern, word, k, q)
  <2> DEFINE C == {q \in States(pattern) : ~Promising(pattern, word, k, q) /\ (k = 0 \/ ~First(q))}
  <2>1. Closed(pattern, C)
    <3>1. SUFFICES ASSUME NEW q \in C, NEW r \in Epsilon(pattern, q) PROVE r \in C BY DEF Closed
    <3>2. r \in States(pattern) BY EpsilonInside
    <3>3. ~Promising(pattern, word, k, r) BY EpsilonBack
    <3>4. k = 0 \/ ~First(r) BY EpsilonLeavesFirst
    <3>5. QED BY <3>2, <3>3, <3>4
  <2>2. S \subseteq C BY <1>2
  <2>3. C \in SUBSET States(pattern) OBVIOUS
  <2>4. Closure(pattern, S) \subseteq C BY <2>1, <2>2, <2>3, ClosureFacts
  <2>5. QED BY <2>4
<1>3. \A q \in Closure(pattern, S) : k = 0 \/ ~First(q)
  <2> DEFINE C == {q \in States(pattern) : k = 0 \/ ~First(q)}
  <2>1. Closed(pattern, C)
    <3>1. SUFFICES ASSUME NEW q \in C, NEW r \in Epsilon(pattern, q) PROVE r \in C BY DEF Closed
    <3>2. r \in States(pattern) BY EpsilonInside
    <3>4. k = 0 \/ ~First(r) BY EpsilonLeavesFirst
    <3>5. QED BY <3>2, <3>4
  <2>2. S \subseteq C /\ C \in SUBSET States(pattern) OBVIOUS
  <2>4. Closure(pattern, S) \subseteq C BY <2>1, <2>2, ClosureFacts
  <2>5. QED BY <2>4
<1>4. QED BY <1>1, <1>2, <1>3

\* The automaton of a pattern reads a word.
IsRun(pattern, word, run) ==
  /\ run[0] = DfaStart(pattern)
  /\ \A k \in 1 .. Len(word) : run[k] = DfaStep(pattern, run[k - 1], word[k])

\* The automaton starts in a closed set of its states.
LEMMA StartFacts ==
  ASSUME NEW pattern, IsPattern(pattern)
  PROVE  DfaStart(pattern) \in SUBSET States(pattern) /\ Closed(pattern, DfaStart(pattern))
<1>1. {Boundary(0, FALSE)} \in SUBSET States(pattern)
  <2>1. 0 \in 0 .. Len(pattern) BY DEF IsPattern
  <2>2. QED BY <2>1, StatesHave
<1>2. QED BY <1>1, ClosureFacts DEF DfaStart

\* And every step leads to another.
LEMMA StepFacts ==
  ASSUME NEW pattern, IsPattern(pattern), NEW S \in SUBSET States(pattern), NEW x
  PROVE  /\ UNION {Edges(pattern, s, x) : s \in S} \in SUBSET {s \in States(pattern) : ~First(s)}
         /\ DfaStep(pattern, S, x) \in SUBSET States(pattern) /\ Closed(pattern, DfaStep(pattern, S, x))
<1>1. UNION {Edges(pattern, s, x) : s \in S} \in SUBSET {s \in States(pattern) : ~First(s)} BY EdgesInside
<1>2. UNION {Edges(pattern, s, x) : s \in S} \in SUBSET States(pattern) BY <1>1
<1>3. QED BY <1>1, <1>2, ClosureFacts DEF DfaStep

\* The automaton accepts what the pattern matches, and nothing else.
LEMMA AutomatonIsExact ==
  ASSUME NEW pattern, IsPattern(pattern), NEW word, IsWord(word), NEW run, IsRun(pattern, word, run)
  PROVE  DfaAccepts(pattern, run[Len(word)]) <=> Matches(pattern, Segments(word))
<1> DEFINE n == Len(word)
           Live(k) == \E q \in run[k] : Promising(pattern, word, k, q)
           Good(k) == /\ run[k] \in SUBSET States(pattern) /\ Closed(pattern, run[k])
                      /\ \A q \in run[k] : k = 0 \/ ~First(q)
                      /\ Live(k) <=> Matches(pattern, Segments(word))
           S == {k \in 0 .. n : Good(k)}
<1>1. n \in Nat /\ word \in Seq(CodePoints) BY DEF IsWord
<1>2. Good(0)
  <2>1. run[0] = DfaStart(pattern) BY DEF IsRun
  <2>2. run[0] \in SUBSET States(pattern) /\ Closed(pattern, run[0]) BY <2>1, StartFacts
  <2>3. {Boundary(0, FALSE)} \in SUBSET States(pattern)
    <3>1. 0 \in 0 .. Len(pattern) BY DEF IsPattern
    <3>2. QED BY <3>1, StatesHave
  <2>4. 0 \in 0 .. n BY <1>1
  <2>5. Live(0) <=> Promising(pattern, word, 0, Boundary(0, FALSE))
    <3>1. (\E q \in Closure(pattern, {Boundary(0, FALSE)}) : Promising(pattern, word, 0, q))
            <=> \E q \in {Boundary(0, FALSE)} : Promising(pattern, word, 0, q)
      <4> DEFINE B == {Boundary(0, FALSE)}   z == 0
      <4>1. B \in SUBSET States(pattern) /\ z \in 0 .. n /\ z = 0 BY <2>3, <2>4
      <4> HIDE DEF B, z
      <4>2. \A q \in B : z = 0 \/ ~First(q) BY <4>1
      <4>3. (\E q \in Closure(pattern, B) : Promising(pattern, word, z, q)) <=> \E q \in B : Promising(pattern, word, z, q)
        BY <4>1, <4>2, ClosurePromise
      <4>4. QED BY <4>3 DEF B, z
    <3>2. QED BY <2>1, <3>1 DEF DfaStart
  <2>6. Promising(pattern, word, 0, Boundary(0, FALSE)) <=> Ahead(pattern, word, 0, 0) BY PromisingIs
  <2>7. QED BY <2>2, <2>5, <2>6, MatchesIs
<1>3. ASSUME NEW k \in 1 .. n, k - 1 \in S PROVE k \in S
  <2>1. Good(k - 1) /\ k - 1 \in 0 .. n /\ k \in 0 .. n /\ (k - 1) + 1 = k /\ k - 1 # n /\ k # 0 BY <1>1, <1>3
  <2> DEFINE N == UNION {Edges(pattern, s, word[k]) : s \in run[k - 1]}
  <2>2. run[k] = Closure(pattern, N) BY DEF IsRun, DfaStep
  <2>3. N \in SUBSET States(pattern) /\ \A q \in N : k = 0 \/ ~First(q)
    <3>1. N \in SUBSET {s \in States(pattern) : ~First(s)} BY <2>1, StepFacts
    <3> HIDE DEF N
    <3>2. QED BY <3>1
  <2> HIDE DEF N
  <2>4. run[k] \in SUBSET States(pattern) /\ Closed(pattern, run[k]) BY <2>2, <2>3, ClosureFacts
  <2>5. /\ Live(k) <=> \E q \in N : Promising(pattern, word, k, q)
        /\ \A q \in run[k] : k = 0 \/ ~First(q) BY <2>1, <2>2, <2>3, ClosurePromise
  <2>6. (\E q \in N : Promising(pattern, word, k, q)) <=> Live(k - 1)
    <3>1. ASSUME NEW r \in N, Promising(pattern, word, k, r) PROVE Live(k - 1)
      <4>1. PICK q \in run[k - 1] : r \in Edges(pattern, q, word[k]) BY DEF N
      <4>2. q \in States(pattern) BY <2>1
      <4>3. Promising(pattern, word, k - 1, q) BY <3>1, <4>1, <4>2, EdgeBack
      <4>4. QED BY <4>3
    <3>2. ASSUME Live(k - 1) PROVE \E q \in N : Promising(pattern, word, k, q)
      <4>1. GoesOn(pattern, word, k - 1, run[k - 1]) BY <2>1, <3>2, PromiseGoesOn
      <4>2. \E q \in run[k - 1] : \E r \in Edges(pattern, q, word[k]) : Promising(pattern, word, k, r)
        BY <2>1, <4>1 DEF GoesOn
      <4>3. QED BY <4>2 DEF N
    <3>3. QED BY <3>1, <3>2
  <2>7. Good(k) BY <2>1, <2>4, <2>5, <2>6
  <2> HIDE DEF Good
  <2>8. QED BY <2>1, <2>7
<1>4. \A k \in 0 .. n : k \in S
  <2>1. 0 \in S BY <1>1, <1>2
  <2> HIDE DEF S
  <2>2. QED BY <1>1, <1>3, <2>1, UpTo
<1>5. Good(n)
  <2> HIDE DEF Good
  <2>1. n \in 0 .. n BY <1>1
  <2>2. QED BY <1>4, <2>1
<1>6. Live(n) => DfaAccepts(pattern, run[n])
  <2>1. SUFFICES ASSUME Live(n) PROVE DfaAccepts(pattern, run[n]) OBVIOUS
  <2>2. n \in 0 .. n BY <1>1
  <2>3. GoesOn(pattern, word, n, run[n]) BY <1>5, <2>1, <2>2, PromiseGoesOn
  <2>4. QED BY <2>3 DEF GoesOn
<1>7. DfaAccepts(pattern, run[n]) => Live(n)
  <2>1. SUFFICES ASSUME DfaAccepts(pattern, run[n]) PROVE Live(n) OBVIOUS
  <2>2. PICK seen \in BOOLEAN : Boundary(Len(pattern), seen) \in run[n] BY <2>1 DEF DfaAccepts
  <2> DEFINE path == Segments(word)   m == Len(path)
  <2>3. m \in Nat \ {0} /\ Len(path[m]) \in Nat \ {0}
    <3>1. m \in Nat \ {0} BY SegmentsOf
    <3>2. m \in 1 .. m BY <3>1
    <3> HIDE DEF m
    <3>3. QED BY <3>1, <3>2, SegmentsOf DEF m
  <2>4. Row(word, n) = m /\ Col(word, n) = Len(path[m]) BY <1>1, PlaceAtEnd
  <2>5. n # 0
    <3>1. n = 0 => Len(path[m]) = 0 BY <1>1, <2>4, PlaceAtStart
    <3>2. QED BY <2>3, <3>1
  <2>6. seen
    <3>1. ~First(Boundary(Len(pattern), seen)) BY <1>5, <2>2, <2>5
    <3>2. QED BY <3>1 DEF First, Boundary
  <2>7. m \in 0 .. m BY <2>3
  <2>8. Ahead(pattern, word, Len(pattern), m) BY <2>7, AheadIs
  <2>9. Promising(pattern, word, n, Boundary(Len(pattern), TRUE)) BY <2>4, <2>8, PromisingIs
  <2>10. QED BY <2>2, <2>6, <2>9
<1>8. QED BY <1>5, <1>6, <1>7

-----------------------------------------------------------------------------
\* The universe: beginnings of paths.

\* What the universe remembers of a component.
StartsReserved(component) ==
  \E r \in Reserved : Len(component) <= Len(r) /\ SubSeq(r, 1, Len(component)) = component
Remembered(component) == IF StartsReserved(component) THEN component ELSE OtherComponent

\* What is remembered in place of a component that no reserved name starts with is none.
LEMMA ReservedAre ==
  /\ OtherComponent \notin Reserved /\ ~StartsReserved(OtherComponent) /\ StartsReserved(<< >>)
  /\ << >> \in Reserved /\ \A r \in Reserved : r \in Seq(Nat) /\ StartsReserved(r)
<1>1. \A r \in Reserved : r \in Seq(Nat)
  <2>1. Dot \in Nat /\ 103 \in Nat /\ 105 \in Nat /\ 116 \in Nat BY DEF Dot
  <2>2. << >> \in Seq(Nat) /\ <<Dot>> \in Seq(Nat) /\ <<Dot, Dot>> \in Seq(Nat) /\ <<Dot, 103, 105, 116>> \in Seq(Nat)
    BY <2>1
  <2>3. QED BY <2>2 DEF Reserved
<1>2. \A r \in Reserved : r = << >> \/ r[1] = Dot BY DEF Reserved
<1>3. OtherComponent # << >> /\ OtherComponent[1] = Star /\ Star # Dot /\ Len(OtherComponent) = 1 BY DEF OtherComponent, Star, Dot
<1>4. OtherComponent \notin Reserved BY <1>2, <1>3
<1>5. \A r \in Reserved : SubSeq(r, 1, Len(r)) = r /\ Len(r) <= Len(r)
  <2>1. SUFFICES ASSUME NEW r \in Seq(Nat) PROVE SubSeq(r, 1, Len(r)) = r /\ Len(r) <= Len(r) BY <1>1
  <2>2. QED OBVIOUS
<1>6. ~StartsReserved(OtherComponent)
  <2>1. SUFFICES ASSUME NEW r \in Reserved, 1 <= Len(r), SubSeq(r, 1, 1) = OtherComponent PROVE FALSE
    BY <1>3 DEF StartsReserved
  <2>2. r \in Seq(Nat) /\ r # << >> BY <1>1, <2>1
  <2>3. SubSeq(r, 1, 1)[1] = r[1] BY <2>1, <2>2
  <2>4. QED BY <1>2, <1>3, <2>1, <2>2, <2>3
<1>7. << >> \in Reserved BY DEF Reserved
<1>8. QED BY <1>1, <1>4, <1>5, <1>6, <1>7 DEF StartsReserved

\* Enough is remembered of a component to know whether it is reserved.
LEMMA Remembering ==
  ASSUME NEW A, NEW component \in Seq(A)
  PROVE  /\ Remembered(component) \in Reserved <=> component \in Reserved
         /\ Remembered(<< >>) = << >>
         /\ \A x \in A : \A u : u.component = Remembered(component) /\ x # Slash =>
                              Reach(u, x) = Remembered(Append(component, x))
<1>1. Remembered(component) \in Reserved <=> component \in Reserved
  BY ReservedAre DEF Remembered
<1>2. Remembered(<< >>) = << >> BY ReservedAre DEF Remembered
<1>3. ASSUME NEW x \in A, NEW u, u.component = Remembered(component), x # Slash
      PROVE  Reach(u, x) = Remembered(Append(component, x))
  <2> DEFINE longer == Append(component, x)
  <2>1. StartsReserved(longer) => StartsReserved(component)
    <3>1. SUFFICES ASSUME NEW r \in Reserved, Len(longer) <= Len(r), SubSeq(r, 1, Len(longer)) = longer
                   PROVE  Len(component) <= Len(r) /\ SubSeq(r, 1, Len(component)) = component
      BY DEF StartsReserved
    <3>2. r \in Seq(Nat) BY ReservedAre
    <3> DEFINE l == Len(component)   cut == SubSeq(r, 1, l)   more == SubSeq(r, 1, l + 1)
    <3>3. l \in Nat /\ Len(longer) = l + 1 OBVIOUS
    <3>4. Len(r) \in Nat /\ l + 1 <= Len(r) BY <3>1, <3>2, <3>3
    <3>5. cut \in Seq(Nat) /\ Len(cut) = l /\ \A y \in 1 .. l : cut[y] = r[y] BY <3>2, <3>3, <3>4
    <3>6. more = longer BY <3>1, <3>3
    <3>7. \A y \in 1 .. l : more[y] = r[y] BY <3>2, <3>3, <3>4
    <3>8. \A y \in 1 .. l : longer[y] = component[y] OBVIOUS
    <3> HIDE DEF more, longer
    <3>9. \A y \in 1 .. l : cut[y] = component[y] BY <3>5, <3>6, <3>7, <3>8
    <3> HIDE DEF cut
    <3>10. cut = component BY <3>5, <3>9
    <3>11. QED BY <3>3, <3>4, <3>10 DEF cut
  <2>2. CASE StartsReserved(component)
    <3>1. u.component = component /\ component # OtherComponent BY <1>3, <2>2, ReservedAre DEF Remembered
    <3>2. QED BY <1>3, <3>1 DEF Reach, Remembered, StartsReserved
  <2>3. CASE ~StartsReserved(component)
    <3>1. u.component = OtherComponent BY <1>3, <2>3 DEF Remembered
    <3>2. Remembered(longer) = OtherComponent BY <2>1, <2>3 DEF Remembered
    <3>3. QED BY <1>3, <3>1, <3>2 DEF Reach
  <2>4. QED BY <2>2, <2>3
<1>4. QED BY <1>1, <1>2, <1>3

\* The first k scalars are those of a path so far.
Lawful(word, k) ==
  /\ k <= MaxLength
  /\ \A i \in 1 .. k : word[i] = Slash \/ IsScalar(word[i])
  /\ ~ (k > 1 /\ word[1] \in Letters /\ word[2] = Colon)
  /\ \A j \in 1 .. Row(word, k) - 1 : Segments(word)[j] \notin Reserved

\* The state of the universe after k scalars of a word.
UniverseAfter(word, k) ==
  [length |-> k, letter |-> k = 1 /\ word[1] \in Letters,
   component |-> Remembered(Cut(word)[k][Row(word, k)])]

\* The universe starts before the first scalar.
LEMMA UniverseAtStart ==
  ASSUME NEW A, NEW word \in Seq(A) PROVE Lawful(word, 0) /\ UniverseAfter(word, 0) = UniverseStart
<1>1. Row(word, 0) = 1 /\ Cut(word)[0] = << << >> >> BY PlaceAtStart, CutIs
<1>2. Cut(word)[0][1] = << >> BY <1>1
<1>3. UniverseAfter(word, 0) = UniverseStart
  <2>1. Remembered(<< >>) = << >>
    <3>1. << >> \in Seq(Nat) OBVIOUS
    <3>2. QED BY <3>1, Remembering
  <2>2. (0 = 1 /\ word[1] \in Letters) = FALSE OBVIOUS
  <2>3. QED BY <1>1, <1>2, <2>1, <2>2 DEF UniverseAfter, UniverseStart
<1>4. Lawful(word, 0) BY <1>1, LengthAssumption DEF Lawful
<1>5. QED BY <1>3, <1>4

\* The universe goes on as long as the word is that of a path so far.
LEMMA UniverseSteps ==
  ASSUME NEW A, NEW word \in Seq(A), NEW k \in 1 .. Len(word), Lawful(word, k - 1)
  PROVE  UniverseStep(UniverseAfter(word, k - 1), word[k]) = IF Lawful(word, k) THEN {UniverseAfter(word, k)} ELSE {}
<1> DEFINE x == word[k]   u == UniverseAfter(word, k - 1)   path == Segments(word)   r == Row(word, k - 1)
           last == Cut(word)[k - 1][r]
           blocked == \/ u.length = MaxLength
                      \/ x \in {0, Backslash} \/ x \in Surrogates
                      \/ u.length = 1 /\ u.letter /\ x = Colon
                      \/ x = Slash /\ u.component \in Reserved
<1>1. k \in Nat \ {0} /\ k - 1 \in 0 .. Len(word) /\ k \in 0 .. Len(word) /\ x \in A OBVIOUS
<1>2. u.length = k - 1 /\ u.letter = (k - 1 = 1 /\ word[1] \in Letters) /\ u.component = Remembered(last)
  BY DEF UniverseAfter
<1>3. /\ r \in 1 .. Len(path) /\ path \in Seq(Seq(A)) /\ Cut(word)[k - 1] \in Seq(Seq(A)) \ {<< >>}
      /\ Begins(Cut(word)[k - 1], path) /\ path[r] \in Seq(A) BY <1>1, PlaceAre
<1>4. r = Len(Cut(word)[k - 1]) BY DEF Row
<1>5. last \in Seq(A) /\ Col(word, k - 1) = Len(last) BY <1>3, <1>4 DEF Col
<1>6. Cut(word)[k] = Longer(Cut(word)[k - 1], x) BY CutIs
<1>7. /\ x = Slash => Row(word, k) = r + 1 /\ Len(last) = Len(path[r])
      /\ x # Slash => Row(word, k) = r BY <1>5, PlaceSteps
<1>8. /\ x = Slash => Cut(word)[k][r + 1] = << >>
      /\ x # Slash => Cut(word)[k][r] = Append(last, x)
  <2> DEFINE T == Cut(word)[k - 1]
  <2>1. T \in Seq(Seq(A)) \ {<< >>} BY <1>3
  <2> HIDE DEF T, x
  <2>4. x \in A BY <1>1
  <2>5. Grows(T, x, Longer(T, x)) BY <2>1, <2>4, LongerIs
  <2>2. /\ x = Slash => Longer(T, x)[Len(T) + 1] = << >>
        /\ x # Slash => Longer(T, x)[Len(T)] = Append(T[Len(T)], x) BY <2>5 DEF Grows
  <2>3. QED BY <1>4, <1>6, <2>2 DEF T
<1>9. x = Slash => path[r] = last
  <2>1. SUFFICES ASSUME x = Slash PROVE path[r] = last OBVIOUS
  <2>2. Len(last) = Len(path[r]) BY <1>7, <2>1
  <2>3. \A y \in 1 .. Len(last) : path[r][y] = last[y] BY <1>3, <1>4 DEF Begins
  <2> DEFINE segment == path[r]
  <2>4. segment \in Seq(A) /\ Len(last) = Len(segment) /\ \A y \in 1 .. Len(last) : segment[y] = last[y]
    BY <1>3, <2>2, <2>3
  <2> HIDE DEF segment, last
  <2>5. segment = last BY <1>5, <2>4
  <2>6. QED BY <2>5 DEF segment
<1>10. Lawful(word, k) <=> ~blocked
  <2>1. k <= MaxLength <=> u.length # MaxLength BY <1>1, <1>2, LengthAssumption DEF Lawful
  <2>2. (\A i \in 1 .. k : word[i] = Slash \/ IsScalar(word[i])) <=> ~(x \in {0, Backslash} \/ x \in Surrogates)
    <3>1. \A i \in 1 .. k : i = k \/ i \in 1 .. k - 1 BY <1>1
    <3>2. \A i \in 1 .. k - 1 : word[i] = Slash \/ IsScalar(word[i]) BY DEF Lawful
    <3>3. k \in 1 .. k BY <1>1
    <3>4. (x = Slash \/ IsScalar(x)) <=> ~(x \in {0, Backslash} \/ x \in Surrogates)
      <4>1. Slash # 0 /\ Slash # Backslash /\ Slash \notin Surrogates BY SMT DEF Slash, Backslash, Surrogates
      <4> HIDE DEF x
      <4>2. QED BY <4>1 DEF IsScalar
    <3>5. QED BY <3>1, <3>2, <3>3, <3>4
  <2>3. ~ (k > 1 /\ word[1] \in Letters /\ word[2] = Colon) <=> ~(u.length = 1 /\ u.letter /\ x = Colon)
    <3>1. CASE k = 2
      <4>1. k > 1 /\ k - 1 = 1 /\ x = word[2] BY <3>1
      <4> HIDE DEF x, u
      <4>2. QED BY <1>2, <4>1
    <3>2. CASE k # 2
      <4>1. k - 1 # 1 BY <1>1, <3>2
      <4>2. k > 1 => k - 1 > 1 BY <1>1, <3>2
      <4>3. QED BY <1>2, <4>1, <4>2 DEF Lawful
    <3>3. QED BY <3>1, <3>2
  <2>4. (\A j \in 1 .. Row(word, k) - 1 : path[j] \notin Reserved) <=> ~(x = Slash /\ u.component \in Reserved)
    <3>1. \A j \in 1 .. r - 1 : path[j] \notin Reserved BY DEF Lawful
    <3>2. u.component \in Reserved <=> last \in Reserved BY <1>2, <1>5, Remembering
    <3>3. r \in Nat \ {0} BY <1>3
    <3>4. CASE x = Slash
      <4>1. Row(word, k) - 1 = r BY <1>7, <3>3, <3>4
      <4>2. \A j \in 1 .. r : j = r \/ j \in 1 .. r - 1 BY <3>3
      <4>3. r \in 1 .. r BY <3>3
      <4>4. QED BY <1>9, <3>1, <3>2, <3>4, <4>1, <4>2, <4>3
    <3>5. CASE x # Slash BY <1>7, <3>1, <3>5
    <3>6. QED BY <3>4, <3>5
  <2> HIDE DEF u, x, path
  <2>5. QED BY <2>1, <2>2, <2>3, <2>4 DEF Lawful, path
<1>11. ~blocked => UniverseStep(u, x) = {UniverseAfter(word, k)}
  <2>1. SUFFICES ASSUME ~blocked PROVE UniverseStep(u, x) = {UniverseAfter(word, k)} OBVIOUS
  <2>2. UniverseStep(u, x) = {[length |-> u.length + 1, letter |-> u.length = 0 /\ x \in Letters,
                               component |-> Reach(u, x)]} BY <2>1 DEF UniverseStep
  <2>3. u.length + 1 = k /\ (u.length = 0 <=> k = 1) BY <1>1, <1>2
  <2>4. (u.length = 0 /\ x \in Letters) = (k = 1 /\ word[1] \in Letters) BY <2>3
  <2>5. Reach(u, x) = Remembered(Cut(word)[k][Row(word, k)])
    <3>1. CASE x = Slash BY <1>5, <1>7, <1>8, <3>1, Remembering DEF Reach
    <3>2. CASE x # Slash
      <4> HIDE DEF u, x, last
      <4>1. Reach(u, x) = Remembered(Append(last, x)) BY <1>1, <1>2, <1>5, <3>2, Remembering
      <4>2. QED BY <1>7, <1>8, <3>2, <4>1
    <3>3. QED BY <3>1, <3>2
  <2>6. QED BY <2>2, <2>3, <2>4, <2>5 DEF UniverseAfter
<1>12. blocked => UniverseStep(u, x) = {} BY DEF UniverseStep
<1>13. QED BY <1>10, <1>11, <1>12

\* It accepts the paths, and nothing else.
LEMMA UniverseAtEnd ==
  ASSUME NEW A, NEW word \in Seq(A)
  PROVE  Lawful(word, Len(word)) /\ UniverseAccepts(UniverseAfter(word, Len(word))) <=> IsPath(word)
<1> DEFINE n == Len(word)   path == Segments(word)   m == Len(path)   u == UniverseAfter(word, n)
<1>1. n \in Nat /\ n \in 0 .. n OBVIOUS
<1>2. path = Cut(word)[n] /\ Row(word, n) = m BY CutIs, PlaceAtEnd
<1>3. path \in Seq(Seq(A)) \ {<< >>} BY <1>1, <1>2, PlaceAre
<1>4. u.length = n /\ u.component = Remembered(path[m]) BY <1>2 DEF UniverseAfter
<1>5. m \in Nat \ {0} /\ path[m] \in Seq(A) BY <1>3
<1>6. UniverseAccepts(u) <=> n > 0 /\ path[m] \notin Reserved BY <1>4, <1>5, Remembering DEF UniverseAccepts
<1>7. Range(path) \cap Reserved = {} <=> (\A j \in 1 .. m - 1 : path[j] \notin Reserved) /\ path[m] \notin Reserved
  <2>1. Range(path) = {path[j] : j \in 1 .. m} BY <1>3 DEF Range
  <2>2. \A j \in 1 .. m : j = m \/ j \in 1 .. m - 1 BY <1>5
  <2>3. m \in 1 .. m /\ \A j \in 1 .. m - 1 : j \in 1 .. m BY <1>5
  <2> HIDE DEF path, m
  <2>4. QED BY <2>1, <2>2, <2>3
<1>8. n \in 1 .. MaxLength <=> n > 0 /\ n <= MaxLength BY <1>1, LengthAssumption
<1>9. DOMAIN word = 1 .. n OBVIOUS
<1> HIDE DEF n, path, m, u
<1>10. QED BY <1>2, <1>6, <1>7, <1>8, <1>9 DEF Lawful, IsPath, n, path, m, u

\* A path has no empty segment.
LEMMA PathIsWord ==
  ASSUME NEW word \in Seq(CodePoints), IsPath(word) PROVE IsWord(word)
<1>1. << >> \in Reserved BY DEF Reserved
<1>2. QED BY <1>1 DEF IsPath, IsWord

-----------------------------------------------------------------------------
\* One path: what a walk finds.

\* There is an automaton for every pattern of the scopes.
LEMMA AutomataAre ==
  /\ \A d \in Automata : \E k \in DOMAIN question.scopes, side \in {"include", "exclude"} :
       \E j \in DOMAIN Scope(k)[side] : d = <<k, side, j>> /\ Pattern(d) = Scope(k)[side][j]
  /\ \A k \in DOMAIN question.scopes, side \in {"include", "exclude"} : \A j \in DOMAIN Scope(k)[side] :
       <<k, side, j>> \in Automata /\ Pattern(<<k, side, j>>) = Scope(k)[side][j]
<1>1. \A k, side, j : Pattern(<<k, side, j>>) = Scope(k)[side][j]
  <2>1. SUFFICES ASSUME NEW k, NEW side, NEW j PROVE Pattern(<<k, side, j>>) = Scope(k)[side][j] OBVIOUS
  <2> DEFINE d == <<k, side, j>>
  <2>2. d[1] = k /\ d[2] = side /\ d[3] = j OBVIOUS
  <2> HIDE DEF d
  <2>3. Pattern(d) = Scope(k)[side][j] BY <2>2 DEF Pattern
  <2>4. QED BY <2>3 DEF d
<1> DEFINE sides == {"include", "exclude"}
<1>2. \A d \in Automata : \E k \in DOMAIN question.scopes, side \in sides :
         \E j \in DOMAIN Scope(k)[side] : d = <<k, side, j>> BY DEF Automata
<1>3. \A k \in DOMAIN question.scopes, side \in sides : \A j \in DOMAIN Scope(k)[side] : <<k, side, j>> \in Automata
  <2>1. SUFFICES ASSUME NEW k \in DOMAIN question.scopes, NEW side \in sides, NEW j \in DOMAIN Scope(k)[side]
                 PROVE  <<k, side, j>> \in Automata OBVIOUS
  <2> DEFINE of(l, s) == {<<l, s, i>> : i \in DOMAIN Scope(l)[s]}   d == <<k, side, j>>
  <2>2. d \in of(k, side) OBVIOUS
  <2>3. Automata = UNION {of(l, s) : l \in DOMAIN question.scopes, s \in sides} BY DEF Automata
  <2> HIDE DEF of, d, sides
  <2>4. d \in Automata BY <2>2, <2>3
  <2>5. QED BY <2>4 DEF d
<1>4. QED BY <1>1, <1>2, <1>3

\* A pattern of the grammar has no reserved name for a segment.
LEMMA ParsedNames == ASSUME NEW pattern, Parses(pattern) PROVE \A i \in DOMAIN pattern : pattern[i] \notin Reserved
BY DEF Parses

\* What parses is a pattern of the language.
LEMMA ParsedIsPattern ==
  ASSUME question \in Questions, NEW d \in Automata, Parses(Pattern(d)) PROVE IsPattern(Pattern(d))
<1> DEFINE pattern == Pattern(d)
<1>1. PICK k \in DOMAIN question.scopes, side \in {"include", "exclude"} :
        \E j \in DOMAIN Scope(k)[side] : pattern = Scope(k)[side][j] BY AutomataAre
<1>2. PICK j \in DOMAIN Scope(k)[side] : pattern = Scope(k)[side][j] BY <1>1
<1>3. Scope(k) \in Range(question.scopes) BY DEF Scope, Range
<1>4. pattern \in Range(Scope(k)[side]) BY <1>2 DEF Range
<1> HIDE DEF pattern
<1>5. /\ pattern \in Seq(Range(pattern)) /\ pattern # << >>
      /\ \A c \in Range(pattern) : c \in Seq(CodePoints) /\ Slash \notin Range(c)
  BY <1>3, <1>4, QuestionsAssumption
<1>6. \A i \in DOMAIN pattern : pattern[i] \in Range(pattern) BY DEF Range
<1>7. \A i \in DOMAIN pattern : pattern[i] # << >>
  <2>1. Parses(pattern) BY DEF pattern
  <2>2. \A i \in DOMAIN pattern : pattern[i] \notin Reserved BY <2>1, ParsedNames
  <2>3. QED BY <2>2 DEF Reserved
<1>8. pattern \in Seq(Seq(CodePoints) \ {<< >>})
  <2>1. \A i \in DOMAIN pattern : pattern[i] \in Seq(CodePoints) \ {<< >>} BY <1>5, <1>6, <1>7
  <2> DEFINE C == Seq(CodePoints) \ {<< >>}   R == Range(pattern)
  <2>2. pattern \in Seq(R) BY <1>5
  <2> HIDE DEF C, R
  <2>3. pattern \in Seq(C)
    <3>1. Len(pattern) \in Nat /\ DOMAIN pattern = 1 .. Len(pattern) /\ pattern = [i \in 1 .. Len(pattern) |-> pattern[i]] BY <2>2
    <3>2. \A i \in 1 .. Len(pattern) : pattern[i] \in C BY <2>1, <3>1 DEF C
    <3>3. pattern \in [1 .. Len(pattern) -> C] BY <3>1, <3>2
    <3>4. QED BY <3>1, <3>3
  <2>4. QED BY <2>3 DEF C
<1>9. \A i \in DOMAIN pattern : Slash \notin Range(pattern[i]) BY <1>5, <1>6
<1>10. QED BY <1>5, <1>8, <1>9 DEF IsPattern, pattern

\* Automata that accept what their patterns match cover what the scopes hold.
LEMMA CoversIs ==
  ASSUME NEW at, NEW path, \A d \in Automata : DfaAccepts(Pattern(d), at[d]) <=> Matches(Pattern(d), path),
         NEW k \in DOMAIN question.scopes
  PROVE  Covers(at, k) <=> InScope(path, k)
<1> DEFINE accepts(side) == \E d \in Automata : d[1] = k /\ d[2] = side /\ DfaAccepts(Pattern(d), at[d])
           matched(side) == \E j \in DOMAIN Scope(k)[side] : Matches(Scope(k)[side][j], path)
<1>1. ASSUME NEW side \in {"include", "exclude"} PROVE accepts(side) <=> matched(side)
  <2>1. ASSUME accepts(side) PROVE matched(side)
    <3>1. PICK d \in Automata : d[1] = k /\ d[2] = side /\ DfaAccepts(Pattern(d), at[d]) BY <2>1
    <3>2. PICK l \in DOMAIN question.scopes, s \in {"include", "exclude"} :
            \E j \in DOMAIN Scope(l)[s] : d = <<l, s, j>> /\ Pattern(d) = Scope(l)[s][j] BY AutomataAre
    <3>3. PICK j \in DOMAIN Scope(l)[s] : d = <<l, s, j>> /\ Pattern(d) = Scope(l)[s][j] BY <3>2
    <3>4. l = k /\ s = side BY <3>1, <3>3
    <3>5. QED BY <3>1, <3>3, <3>4
  <2>2. ASSUME matched(side) PROVE accepts(side)
    <3>1. PICK j \in DOMAIN Scope(k)[side] : Matches(Scope(k)[side][j], path) BY <2>2
    <3> DEFINE d == <<k, side, j>>
    <3>2. d \in Automata /\ Pattern(d) = Scope(k)[side][j] BY AutomataAre
    <3>3. d[1] = k /\ d[2] = side OBVIOUS
    <3> HIDE DEF d
    <3>4. QED BY <3>1, <3>2, <3>3
  <2>3. QED BY <2>1, <2>2
<1>2. Covers(at, k) <=> accepts("include") /\ ~accepts("exclude") BY DEF Covers
<1>3. InScope(path, k) <=> matched("include") /\ ~matched("exclude") BY DEF InScope
<1> HIDE DEF accepts, matched
<1>4. QED BY <1>1, <1>2, <1>3

\* The tables of a walk.
WalkUniverse(path) ==
  CHOOSE universe : universe =
    [n \in 0 .. Len(path) |->
       IF n = 0 THEN {UniverseStart}
       ELSE UNION {UniverseStep(u, path[n]) : u \in universe[n - 1]}]
WalkAt(path) ==
  CHOOSE at : at =
    [n \in 0 .. Len(path) |->
       IF n = 0 THEN StartState.at
       ELSE [d \in Automata |-> DfaStep(Pattern(d), at[n - 1][d], path[n])]]

\* A walk ends in an accepting universe if the path is one.
LEMMA WalkUniverseIs ==
  ASSUME NEW A, NEW path \in Seq(A)
  PROVE  (\E u \in WalkUniverse(path)[Len(path)] : UniverseAccepts(u)) <=> IsPath(path)
<1> DEFINE n == Len(path)   R == WalkUniverse(path)
           after(k) == IF Lawful(path, k) THEN {UniverseAfter(path, k)} ELSE {}
           whole(k, T) == IF k = 0 THEN {UniverseStart} ELSE UNION {UniverseStep(u, path[k]) : u \in T}
           f == [k \in 0 .. n |-> after(k)]
<1>1. n \in Nat OBVIOUS
<1>2. after(0) = {UniverseStart} BY UniverseAtStart
<1>3. ASSUME NEW k \in 1 .. n PROVE after(k) = UNION {UniverseStep(u, path[k]) : u \in after(k - 1)}
  <2>1. CASE Lawful(path, k - 1)
    <3>1. UniverseStep(UniverseAfter(path, k - 1), path[k]) = after(k) BY <2>1, UniverseSteps
    <3>2. after(k - 1) = {UniverseAfter(path, k - 1)} BY <2>1
    <3> HIDE DEF after
    <3>3. QED BY <3>1, <3>2
  <2>2. CASE ~Lawful(path, k - 1)
    <3>1. ~Lawful(path, k)
      <4>1. SUFFICES ASSUME Lawful(path, k) PROVE Lawful(path, k - 1) BY <2>2
      <4>2. k \in Nat \ {0} /\ k - 1 \in 0 .. n /\ k \in 0 .. n BY <1>1
      <4>3. k - 1 <= MaxLength BY <4>1, <4>2, LengthAssumption DEF Lawful
      <4>4. \A i \in 1 .. k - 1 : path[i] = Slash \/ IsScalar(path[i]) BY <4>1, <4>2 DEF Lawful
      <4>5. ~(k - 1 > 1 /\ path[1] \in Letters /\ path[2] = Colon)
        <5>1. k - 1 > 1 => k > 1 BY <4>2
        <5>2. QED BY <4>1, <5>1 DEF Lawful
      <4>6. \A j \in 1 .. Row(path, k - 1) - 1 : Segments(path)[j] \notin Reserved
        <5>1. Row(path, k) = Row(path, k - 1) + 1 \/ Row(path, k) = Row(path, k - 1) BY PlaceSteps
        <5>2. Row(path, k - 1) \in Nat
          <6>1. Row(path, k - 1) \in 1 .. Len(Segments(path)) BY <4>2, PlaceAre
          <6>2. QED BY <6>1
        <5>3. \A j \in 1 .. Row(path, k - 1) - 1 : j \in 1 .. Row(path, k) - 1 BY <5>1, <5>2
        <5>4. QED BY <4>1, <5>3 DEF Lawful
      <4>7. QED BY <4>3, <4>4, <4>5, <4>6 DEF Lawful
    <3>2. QED BY <2>2, <3>1
  <2>3. QED BY <2>1, <2>2
<1>4. R = CHOOSE universe : universe = [k \in 0 .. n |-> whole(k, universe[k - 1])] BY DEF WalkUniverse
<1> HIDE DEF after, n, R
<1>5. \A k \in 0 .. n : f[k] = whole(k, f[k - 1])
  <2>1. SUFFICES ASSUME NEW k \in 0 .. n PROVE f[k] = whole(k, f[k - 1]) OBVIOUS
  <2>2. f[k] = after(k) OBVIOUS
  <2>3. CASE k = 0 BY <1>2, <2>2, <2>3
  <2>4. CASE k # 0
    <3>1. k \in 1 .. n /\ k - 1 \in 0 .. n BY <1>1, <2>4
    <3>2. f[k - 1] = after(k - 1) BY <3>1
    <3>3. QED BY <1>3, <2>2, <2>4, <3>1, <3>2
  <2>5. QED BY <2>3, <2>4
<1>6. f = [k \in 0 .. n |-> whole(k, f[k - 1])]
  <2>1. f = [k \in 0 .. n |-> f[k]] OBVIOUS
  <2> HIDE DEF f, whole
  <2>2. QED BY <1>5, <2>1
<1> HIDE DEF f, whole
<1>7. R = [k \in 0 .. n |-> whole(k, R[k - 1])] BY <1>4, <1>6
<1>8. \A k \in 0 .. n : R[k] = whole(k, R[k - 1])
  <2> DEFINE b(k) == whole(k, R[k - 1])
  <2>1. R = [k \in 0 .. n |-> b(k)] BY <1>7
  <2> HIDE DEF b
  <2>2. \A k \in 0 .. n : R[k] = b(k) BY <2>1
  <2>3. QED BY <2>2 DEF b
<1>9. \A k \in 0 .. n : R[k] = after(k)
  <2> DEFINE S == {k \in 0 .. n : R[k] = after(k)}
  <2>1. 0 \in S
    <3>1. 0 \in 0 .. n BY <1>1
    <3>2. QED BY <1>2, <1>8, <3>1 DEF whole
  <2>2. ASSUME NEW k \in 1 .. n, k - 1 \in S PROVE k \in S
    <3>1. k \in 0 .. n /\ k # 0 BY <1>1
    <3>2. R[k] = UNION {UniverseStep(u, path[k]) : u \in R[k - 1]} BY <1>8, <3>1 DEF whole
    <3>3. R[k - 1] = after(k - 1) BY <2>2
    <3>4. QED BY <1>3, <3>1, <3>2, <3>3
  <2> HIDE DEF S
  <2>3. \A k \in 0 .. n : k \in S BY <1>1, <2>1, <2>2, UpTo
  <2>4. QED BY <2>3 DEF S
<1>10. n \in 0 .. n BY <1>1
<1>11. R[n] = IF Lawful(path, n) THEN {UniverseAfter(path, n)} ELSE {} BY <1>9, <1>10 DEF after
<1>12. (\E u \in R[n] : UniverseAccepts(u)) <=> Lawful(path, n) /\ UniverseAccepts(UniverseAfter(path, n))
  BY <1>11
<1>13. QED BY <1>12, UniverseAtEnd DEF R, n

\* The automata of a walk, scalar by scalar.
LEMMA WalkAtSteps ==
  ASSUME \A d \in Automata : IsPattern(Pattern(d)), NEW A, NEW path \in Seq(A)
  PROVE  /\ WalkAt(path)[0] = StartState.at
         /\ \A k \in 1 .. Len(path) :
              WalkAt(path)[k] = [d \in Automata |-> DfaStep(Pattern(d), WalkAt(path)[k - 1][d], path[k])]
<1> DEFINE n == Len(path)   R == WalkAt(path)   base == StartState.at
           All == UNION {States(Pattern(e)) : e \in Automata}
           V == {f \in [Automata -> SUBSET All] : \A e \in Automata : f[e] \in SUBSET States(Pattern(e))}
           next(k, T) == [e \in Automata |-> DfaStep(Pattern(e), T[e], path[k])]
           step == [k \in 1 .. n |-> [T \in V |-> next(k, T)]]
           whole(k, T) == IF k = 0 THEN base ELSE next(k, T)
<1>1. n \in Nat OBVIOUS
<1>2. base = [e \in Automata |-> DfaStart(Pattern(e))] BY DEF StartState
<1>3. \A e \in Automata : States(Pattern(e)) \subseteq All OBVIOUS
<1>4. base \in V
  <2>1. \A e \in Automata : base[e] \in SUBSET States(Pattern(e)) BY <1>2, StartFacts
  <2> HIDE DEF All
  <2>2. \A e \in Automata : base[e] \in SUBSET All BY <1>3, <2>1
  <2>3. base \in [Automata -> SUBSET All] BY <1>2, <2>2
  <2>4. QED BY <2>1, <2>3
<1>5. \A k \in 1 .. n, T \in V : next(k, T) \in V
  <2>1. SUFFICES ASSUME NEW k \in 1 .. n, NEW T \in V PROVE next(k, T) \in V OBVIOUS
  <2>2. \A e \in Automata : DfaStep(Pattern(e), T[e], path[k]) \in SUBSET States(Pattern(e)) BY StepFacts
  <2> HIDE DEF All
  <2>3. \A e \in Automata : DfaStep(Pattern(e), T[e], path[k]) \in SUBSET All BY <1>3, <2>2
  <2>4. QED BY <2>2, <2>3
<1>6. R = CHOOSE at : at = [k \in 0 .. n |-> whole(k, at[k - 1])] BY DEF WalkAt
<1> HIDE DEF n, R, V, base
<1>7. step \in [1 .. n -> [V -> V]] BY <1>5
<1>8. PICK f : Forwards(f, n, V, base, step)
  <2> HIDE DEF step
  <2>1. QED BY <1>1, <1>4, <1>7, Iterated
<1>9. f \in [0 .. n -> V] /\ f[0] = base /\ \A k \in 1 .. n : f[k] = step[k][f[k - 1]] BY <1>8 DEF Forwards
<1> HIDE DEF next
<1>10. \A k \in 0 .. n : f[k] = whole(k, f[k - 1])
  <2>1. SUFFICES ASSUME NEW k \in 0 .. n PROVE f[k] = whole(k, f[k - 1]) OBVIOUS
  <2>2. CASE k = 0 BY <1>9, <2>2
  <2>3. CASE k # 0
    <3>1. k \in 1 .. n /\ k - 1 \in 0 .. n BY <1>1, <2>3
    <3>2. f[k - 1] \in V BY <1>9, <3>1
    <3>3. step[k][f[k - 1]] = next(k, f[k - 1]) BY <3>1, <3>2
    <3>4. QED BY <1>9, <2>3, <3>1, <3>3
  <2>4. QED BY <2>2, <2>3
<1> HIDE DEF whole, step
<1>11. f = [k \in 0 .. n |-> whole(k, f[k - 1])]
  <2>1. f = [k \in 0 .. n |-> f[k]] BY <1>9
  <2>2. QED BY <1>10, <2>1
<1>12. R = [k \in 0 .. n |-> whole(k, R[k - 1])] BY <1>6, <1>11
<1>13. \A k \in 0 .. n : R[k] = whole(k, R[k - 1])
  <2> DEFINE b(k) == whole(k, R[k - 1])
  <2>1. R = [k \in 0 .. n |-> b(k)] BY <1>12
  <2> HIDE DEF b
  <2>2. \A k \in 0 .. n : R[k] = b(k) BY <2>1
  <2>3. QED BY <2>2 DEF b
<1>14. R[0] = base
  <2>1. 0 \in 0 .. n BY <1>1
  <2>2. QED BY <1>13, <2>1 DEF whole
<1>15. \A k \in 1 .. n : R[k] = next(k, R[k - 1])
  <2>1. \A k \in 1 .. n : k \in 0 .. n /\ k # 0 BY <1>1
  <2>2. QED BY <1>13, <2>1 DEF whole
<1>16. QED BY <1>14, <1>15 DEF R, n, base, next

\* Each of them reads the path.
LEMMA WalkAtIs ==
  ASSUME \A d \in Automata : IsPattern(Pattern(d)), NEW A, NEW path \in Seq(A), NEW d \in Automata
  PROVE  LET run == [k \in 0 .. Len(path) |-> WalkAt(path)[k][d]]
         IN IsRun(Pattern(d), path, run) /\ run[Len(path)] = WalkAt(path)[Len(path)][d]
<1> DEFINE n == Len(path)   R == WalkAt(path)   run == [k \in 0 .. n |-> R[k][d]]
<1>1. n \in Nat OBVIOUS
<1>2. StartState.at = [e \in Automata |-> DfaStart(Pattern(e))] BY DEF StartState
<1>3. /\ R[0] = StartState.at
      /\ \A k \in 1 .. n : R[k] = [e \in Automata |-> DfaStep(Pattern(e), R[k - 1][e], path[k])] BY WalkAtSteps
<1> HIDE DEF n, R
<1>4. run[0] = DfaStart(Pattern(d))
  <2>1. 0 \in 0 .. n BY <1>1
  <2>2. QED BY <1>2, <1>3, <2>1
<1>5. ASSUME NEW k \in 1 .. n PROVE run[k] = DfaStep(Pattern(d), run[k - 1], path[k])
  <2>1. k \in 0 .. n /\ k - 1 \in 0 .. n BY <1>1
  <2>2. run[k] = R[k][d] /\ run[k - 1] = R[k - 1][d] BY <2>1
  <2>3. R[k] = [e \in Automata |-> DfaStep(Pattern(e), R[k - 1][e], path[k])] BY <1>3
  <2>4. R[k][d] = DfaStep(Pattern(d), R[k - 1][d], path[k]) BY <2>3
  <2>5. QED BY <2>2, <2>4
<1>6. run[n] = R[n][d]
  <2>1. n \in 0 .. n BY <1>1
  <2>2. QED BY <2>1
<1>7. IsRun(Pattern(d), path, run) BY <1>4, <1>5 DEF IsRun, n
<1>8. QED BY <1>6, <1>7 DEF n, R

\* What a walk finds.
LEMMA WalkIsExact ==
  ASSUME question \in Questions, \A d \in Automata : IsPattern(Pattern(d))
  PROVE  LET path == question.path
         IN (/\ \E u \in WalkUniverse(path)[Len(path)] : UniverseAccepts(u)
             /\ Covers(WalkAt(path)[Len(path)], 1)) <=> IsPath(path) /\ InScope(Segments(path), 1)
<1> DEFINE path == question.path   at == WalkAt(path)[Len(path)]
<1>1. path \in Seq(CodePoints) /\ 1 \in DOMAIN question.scopes
  <2>1. path \in Seq(CodePoints) /\ question.scopes \in Seq(Range(question.scopes)) /\ question.scopes # << >>
    BY QuestionsAssumption
  <2>2. Len(question.scopes) >= 1 /\ DOMAIN question.scopes = 1 .. Len(question.scopes) /\ Len(question.scopes) \in Nat BY <2>1
  <2>3. QED BY <2>1, <2>2
<1>2. (\E u \in WalkUniverse(path)[Len(path)] : UniverseAccepts(u)) <=> IsPath(path) BY <1>1, WalkUniverseIs
<1>3. IsPath(path) => (Covers(at, 1) <=> InScope(Segments(path), 1))
  <2>1. SUFFICES ASSUME IsPath(path) PROVE Covers(at, 1) <=> InScope(Segments(path), 1) OBVIOUS
  <2>2. IsWord(path) BY <1>1, <2>1, PathIsWord
  <2>3. ASSUME NEW d \in Automata PROVE DfaAccepts(Pattern(d), at[d]) <=> Matches(Pattern(d), Segments(path))
    <3> DEFINE run == [k \in 0 .. Len(path) |-> WalkAt(path)[k][d]]
    <3>1. IsRun(Pattern(d), path, run) /\ run[Len(path)] = at[d] BY <1>1, WalkAtIs
    <3> HIDE DEF run, at
    <3>2. QED BY <2>2, <3>1, AutomatonIsExact
  <2> HIDE DEF at, path
  <2>4. QED BY <1>1, <2>3, CoversIs
<1>4. QED BY <1>2, <1>3

-----------------------------------------------------------------------------
\* What every answer rests on.

\* The context is touched once, by the answer.
ContextOfAnswer ==
  /\ answer \in {"pending", "proven", "refuted", "inside", "outside", "unavailable"}
  /\ answer \in {"pending", "proven", "inside", "outside"} => ctx = NewContext
  /\ answer = "refuted" => ctx = Report(NewContext, {"violation"})
  /\ answer = "unavailable" => ctx = Unavailable(NewContext, "obligation", TRUE)

\* What compilation has settled: the budgets hold, the patterns parse.
Admitted == Within(counts) /\ \A d \in Automata : Parses(Pattern(d))

\* The inductive invariant: nothing is searched, walked or decided that was not
\* admitted; a search knows its normal forms, a walk is about one path.
Inv ==
  /\ ContextOfAnswer
  /\ phase # "done" => answer = "pending"
  /\ phase \in {"begin", "search", "walk"} \/ Decided => Admitted
  /\ phase = "search" \/ answer \in {"proven", "refuted"} => question.unicode
  /\ phase = "walk" \/ answer \in {"inside", "outside"} => question.call = "membership"

\* Nothing is admitted, nor answered, at first.
LEMMA InitInv == Init => Inv
BY DEF Init, Inv, Decided, ContextOfAnswer

\* To give up is safe at any time.
LEMMA GiveUpInv ==
  ASSUME ContextOfAnswer, answer = "pending", GiveUp PROVE Inv'
BY DEF GiveUp, Answer, Inv, Decided, ContextOfAnswer

\* Automata and limits are those of the question.
LEMMA StillAdmitted ==
  ASSUME Admitted, question' = question, Within(counts') PROVE Admitted'
BY DEF Admitted, Within, Automata, Pattern, Scope

\* Compilation admits what parses within the limits.
LEMMA CompileInv == Inv /\ Compile => Inv'
<1>1. SUFFICES ASSUME Inv, Compile PROVE Inv' OBVIOUS
<1>2. /\ ContextOfAnswer /\ answer = "pending" /\ question' = question
      /\ \/ GiveUp
         \/ /\ \A d \in Automata : Parses(Pattern(d))
            /\ Within(counts')
            /\ Go(IF question.call = "membership" THEN "walk" ELSE "begin")
  BY <1>1 DEF Inv, Compile
<1>3. CASE GiveUp BY <1>2, <1>3, GiveUpInv
<1>4. CASE /\ \A d \in Automata : Parses(Pattern(d))
           /\ Within(counts')
           /\ Go(IF question.call = "membership" THEN "walk" ELSE "begin")
  <2>1. (\A d \in Automata : Parses(Pattern(d)))'
    <3>1. Automata' = Automata BY <1>2 DEF Automata, Scope
    <3>2. \A d : Pattern(d)' = Pattern(d) BY <1>2 DEF Pattern, Scope
    <3>3. QED BY <1>4, <3>1, <3>2
  <2>2. Within(counts)' BY <1>2, <1>4 DEF Within
  <2>3. Admitted' BY <2>1, <2>2 DEF Admitted
  <2>4. QED BY <1>2, <1>4, <2>3 DEF Go, Inv, Decided, ContextOfAnswer
<1>5. QED BY <1>2, <1>3, <1>4

\* A search begins within the limits, with known normal forms.
LEMMA BeginSearchInv == Inv /\ BeginSearch => Inv'
<1>1. SUFFICES ASSUME Inv, BeginSearch PROVE Inv' OBVIOUS
<1>2. /\ ContextOfAnswer /\ answer = "pending" /\ question' = question /\ Admitted
      /\ GiveUp \/ (question.unicode /\ Within(counts') /\ Go("search"))
  BY <1>1 DEF Inv, BeginSearch
<1>3. CASE GiveUp BY <1>2, <1>3, GiveUpInv
<1>4. CASE question.unicode /\ Within(counts') /\ Go("search")
  BY <1>2, <1>4, StillAdmitted DEF Go, Inv, Decided, ContextOfAnswer
<1>5. QED BY <1>2, <1>3, <1>4

\* It goes on within them,
LEMMA ExpandInv == Inv /\ Expand => Inv'
<1>1. SUFFICES ASSUME Inv, Expand PROVE Inv' OBVIOUS
<1>2. /\ ContextOfAnswer /\ answer = "pending" /\ question' = question /\ Admitted /\ question.unicode
      /\ GiveUp \/ (Within(counts') /\ Go("search"))
  BY <1>1 DEF Inv, Expand
<1>3. CASE GiveUp BY <1>2, <1>3, GiveUpInv
<1>4. CASE Within(counts') /\ Go("search")
  BY <1>2, <1>4, StillAdmitted DEF Go, Inv, Decided, ContextOfAnswer
<1>5. QED BY <1>2, <1>3, <1>4

\* and reports one violation,
LEMMA FindWitnessInv == Inv /\ FindWitness => Inv'
<1>1. SUFFICES ASSUME Inv, FindWitness PROVE Inv' OBVIOUS
<1>2. /\ ContextOfAnswer /\ answer = "pending" /\ question' = question /\ Admitted /\ question.unicode
      /\ \/ GiveUp
         \/ Within(counts') /\ Go("begin")
         \/ Answer("refuted", Report(ctx, {"violation"})) /\ counts' = counts
  BY <1>1 DEF Inv, FindWitness
<1>3. CASE GiveUp BY <1>2, <1>3, GiveUpInv
<1>4. CASE Within(counts') /\ Go("begin")
  BY <1>2, <1>4, StillAdmitted DEF Go, Inv, Decided, ContextOfAnswer
<1>5. CASE Answer("refuted", Report(ctx, {"violation"})) /\ counts' = counts
  <2>1. Admitted' BY <1>2, <1>5, StillAdmitted DEF Admitted
  <2>2. QED BY <1>2, <1>5, <2>1 DEF Answer, Inv, Decided, ContextOfAnswer
<1>6. QED BY <1>2, <1>3, <1>4, <1>5

\* or none.
LEMMA ExhaustInv == Inv /\ Exhaust => Inv'
<1>1. SUFFICES ASSUME Inv, Exhaust PROVE Inv' OBVIOUS
<1>2. /\ ContextOfAnswer /\ answer = "pending" /\ question' = question /\ Admitted /\ question.unicode
      /\ Answer("proven", ctx) /\ counts' = counts
  BY <1>1 DEF Inv, Exhaust
<1>3. Admitted' BY <1>2, StillAdmitted DEF Admitted
<1>4. QED BY <1>2, <1>3 DEF Answer, Inv, Decided, ContextOfAnswer

\* A walk reports nothing.
LEMMA WalkInv == Inv /\ Walk => Inv'
<1>1. SUFFICES ASSUME Inv, Walk PROVE Inv' OBVIOUS
<1>2. /\ ContextOfAnswer /\ answer = "pending" /\ question' = question /\ Admitted
      /\ question.call = "membership"
      /\ \/ GiveUp
         \/ Within(counts') /\ \E a \in {"inside", "outside"} : Answer(a, ctx)
  BY <1>1 DEF Inv, Walk
<1>3. CASE GiveUp BY <1>2, <1>3, GiveUpInv
<1>4. CASE Within(counts') /\ \E a \in {"inside", "outside"} : Answer(a, ctx)
  <2>1. PICK a \in {"inside", "outside"} : Answer(a, ctx) BY <1>4
  <2>2. Admitted' BY <1>2, <1>4, StillAdmitted
  <2>3. answer' = a /\ phase' = "done" /\ ctx' = ctx BY <2>1 DEF Answer
  <2>4. ctx' = NewContext BY <1>2, <2>3 DEF ContextOfAnswer
  <2>5. ContextOfAnswer' BY <2>3, <2>4 DEF ContextOfAnswer
  <2>6. QED BY <1>2, <2>2, <2>3, <2>5 DEF Inv
<1>5. QED BY <1>2, <1>3, <1>4

\* Every step keeps the invariant.
LEMMA NextInv == Inv /\ [Next]_vars => Inv'
<1>1. SUFFICES ASSUME Inv, [Next]_vars PROVE Inv' OBVIOUS
<1>2. CASE Interrupt BY <1>1, <1>2, GiveUpInv DEF Interrupt, Inv
<1>3. CASE UNCHANGED vars
  <2>1. /\ question' = question /\ counts' = counts /\ phase' = phase
        /\ answer' = answer /\ ctx' = ctx
    BY <1>3 DEF vars
  <2>2. Admitted => Admitted' BY <2>1, StillAdmitted DEF Admitted
  <2>3. ContextOfAnswer => ContextOfAnswer' BY <2>1 DEF ContextOfAnswer
  <2>4. QED BY <1>1, <2>1, <2>2, <2>3 DEF Inv, Decided
<1>4. QED
  BY <1>1, <1>2, <1>3, CompileInv, BeginSearchInv, ExpandInv, FindWitnessInv, ExhaustInv, WalkInv DEF Next

\* A pattern of the grammar is no reserved name.
LEMMA ParsedIsNotReserved ==
  ASSUME NEW pattern, Parses(pattern) PROVE pattern \notin {<<c>> : c \in Reserved}
<1>1. SUFFICES ASSUME NEW c \in Reserved, pattern = <<c>> PROVE FALSE OBVIOUS
<1>2. 1 \in DOMAIN pattern /\ pattern[1] = c BY <1>1
<1>3. \A i \in DOMAIN pattern : pattern[i] \notin Reserved BY ParsedNames
<1>4. QED BY <1>1, <1>2, <1>3

\* The invariant is enough.
LEMMA InvFailsClosed == Inv => FailsClosed
<1>1. SUFFICES ASSUME Inv, answer # "pending" PROVE
        /\ Verdict(ctx) = "PASS" => Decided
        /\ Verdict(ctx) = "INVALID" <=> answer = "refuted"
        /\ Decided =>
             /\ \A k \in DOMAIN MaxLimits : counts[k] <= question.limits[k]
             /\ \A d \in Automata : Pattern(d) \notin {<<c>> : c \in Reserved}
             /\ question.call = "subset" => question.unicode
  BY DEF FailsClosed
<1>2. /\ Verdict(NewContext) = "PASS"
      /\ Verdict(Report(NewContext, {"violation"})) = "INVALID"
      /\ Verdict(Unavailable(NewContext, "obligation", TRUE)) = "PROOF_REQUIRED"
  BY DEF Verdict, NewContext, Report, Unavailable
<1>3. (Verdict(ctx) = "PASS" => Decided) /\ (Verdict(ctx) = "INVALID" <=> answer = "refuted")
  BY <1>1, <1>2 DEF Inv, ContextOfAnswer, Decided
<1>4. ASSUME Decided
      PROVE  /\ \A k \in DOMAIN MaxLimits : counts[k] <= question.limits[k]
             /\ \A d \in Automata : Pattern(d) \notin {<<c>> : c \in Reserved}
             /\ question.call = "subset" => question.unicode
  <2>1. Admitted BY <1>1, <1>4 DEF Inv
  <2>2. question.call = "subset" => question.unicode BY <1>1, <1>4 DEF Inv, Decided
  <2>3. QED BY <2>1, <2>2, ParsedIsNotReserved DEF Admitted, Within
<1>5. QED BY <1>3, <1>4

\* So it holds throughout.
LEMMA Inductive == Init /\ [][Next]_vars => []Inv
BY InitInv, NextInv, PTL

\* A clean context needs a decision within every budget, on patterns of the
\* grammar, under the known table of normal forms; everything else fails
\* closed, for any scopes, paths, limits and interruptions (the except clauses
\* of _prove_scope_subset and _closed_path_membership).
THEOREM ProofFailsClosed == Spec => []FailsClosed
BY Inductive, InvFailsClosed, PTL DEF Spec

-----------------------------------------------------------------------------
\* Membership.

\* The invariant of membership.
MembershipInv == Inv /\ question \in Questions /\ MembershipIsExact

\* What compilation admits are patterns of the language.
LEMMA AdmittedArePatterns ==
  ASSUME question \in Questions, Admitted PROVE \A d \in Automata : IsPattern(Pattern(d))
BY ParsedIsPattern DEF Admitted

\* The answer of a walk, from its tables.
LEMMA WalkAnswers ==
  ASSUME Walk, Within(counts')
  PROVE  answer' = IF /\ \E u \in WalkUniverse(question.path)[Len(question.path)] : UniverseAccepts(u)
                      /\ Covers(WalkAt(question.path)[Len(question.path)], 1)
                   THEN "inside" ELSE "outside"
BY DEF Walk, Answer, WalkUniverse, WalkAt

\* Nothing is answered at first.
LEMMA InitMembership == Init => MembershipInv
BY InitInv DEF Init, MembershipInv, MembershipIsExact

\* Only a walk answers, from tables that are exact.
LEMMA NextMembership == MembershipInv /\ [Next]_vars => MembershipInv'
<1>1. SUFFICES ASSUME MembershipInv, [Next]_vars PROVE MembershipInv' OBVIOUS
<1>2. Inv' BY <1>1, NextInv DEF MembershipInv
<1>3. question' = question
  BY <1>1 DEF Next, vars, Compile, BeginSearch, Expand, FindWitness, Exhaust, Walk, Interrupt
<1> DEFINE Exact == IsPath(question.path) /\ InScope(Segments(question.path), 1)
<1>4. Exact' <=> Exact BY <1>3 DEF InScope, Scope
<1>5. (answer' \in {"inside", "outside"}) => (answer' = "inside" <=> Exact)
  <2>1. CASE Walk
    <3>1. CASE Within(counts')
      <4>1. Inv /\ phase = "walk" BY <1>1, <2>1 DEF MembershipInv, Walk
      <4>2. question \in Questions /\ Admitted BY <1>1, <4>1 DEF MembershipInv, Inv
      <4>3. \A d \in Automata : IsPattern(Pattern(d)) BY <4>2, AdmittedArePatterns
      <4>4. (/\ \E u \in WalkUniverse(question.path)[Len(question.path)] : UniverseAccepts(u)
             /\ Covers(WalkAt(question.path)[Len(question.path)], 1)) <=> Exact
        BY <4>2, <4>3, WalkIsExact
      <4> HIDE DEF Exact
      <4>5. answer' = IF Exact THEN "inside" ELSE "outside" BY <2>1, <3>1, <4>4, WalkAnswers
      <4>6. QED BY <4>5
    <3>2. CASE ~Within(counts')
      <4>1. answer' = "unavailable" BY <2>1, <3>2 DEF Walk, GiveUp, Answer
      <4>2. QED BY <4>1
    <3>3. QED BY <3>1, <3>2
  <2>2. CASE ~Walk
    <3>1. answer' = answer \/ answer' \in {"unavailable", "refuted", "proven"}
      BY <1>1, <2>2 DEF Next, vars, Compile, BeginSearch, Expand, FindWitness, Exhaust, Interrupt, GiveUp, Go, Answer
    <3>2. answer \in {"inside", "outside"} => (answer = "inside" <=> Exact) BY <1>1 DEF MembershipInv, MembershipIsExact
    <3> HIDE DEF Exact
    <3>3. QED BY <3>1, <3>2
  <2>3. QED BY <2>1, <2>2
<1>6. MembershipIsExact' BY <1>4, <1>5 DEF MembershipIsExact
<1>7. QED BY <1>1, <1>2, <1>3, <1>6 DEF MembershipInv

\* Membership of one path is membership in the language: the answer "inside" or
\* "outside" is whether the path is of the grammar and in the scope, by the
\* reference matching of its segments (_closed_path_membership).
THEOREM MembershipExact == Spec => []MembershipIsExact
<1>1. MembershipInv => MembershipIsExact BY DEF MembershipInv
<1>2. QED BY <1>1, InitMembership, NextMembership, PTL DEF Spec

-----------------------------------------------------------------------------
\* The alphabet of a search.

\* A finite set of numbers is enumerated.
LEMMA AscendingIs ==
  ASSUME NEW S, S \subseteq Int, IsFiniteSet(S)
  PROVE  /\ Cardinality(S) \in Nat /\ Ascending(S) \in [1 .. Cardinality(S) -> S]
         /\ \A x \in S : \E k \in 1 .. Cardinality(S) : Ascending(S)[k] = x
<1> DEFINE n == Cardinality(S)   below(x) == {y \in S : y <= x}   rank == [x \in S |-> Cardinality(below(x))]
<1>1. n \in Nat BY FS_CardinalityType
<1>2. \A x \in S : IsFiniteSet(below(x)) /\ Cardinality(below(x)) \in Nat /\ Cardinality(below(x)) <= n
  <2>1. SUFFICES ASSUME NEW x \in S
                 PROVE IsFiniteSet(below(x)) /\ Cardinality(below(x)) \in Nat /\ Cardinality(below(x)) <= n OBVIOUS
  <2>2. below(x) \in SUBSET S OBVIOUS
  <2> HIDE DEF below
  <2>3. IsFiniteSet(below(x)) /\ Cardinality(below(x)) <= n BY <2>2, FS_Subset
  <2>4. QED BY <2>3, FS_CardinalityType
<1>3. \A x \in S : Cardinality(below(x)) # 0
  <2>1. SUFFICES ASSUME NEW x \in S PROVE Cardinality(below(x)) # 0 OBVIOUS
  <2>2. x \in below(x) OBVIOUS
  <2> HIDE DEF below
  <2>3. QED BY <1>2, <2>2, FS_EmptySet
<1>4. ASSUME NEW x \in S, NEW z \in S, x < z PROVE Cardinality(below(x)) # Cardinality(below(z))
  <2>1. below(x) \in SUBSET below(z)
    <3>1. SUFFICES ASSUME NEW y \in S, y <= x PROVE y <= z OBVIOUS
    <3>2. x \in Int /\ y \in Int /\ z \in Int OBVIOUS
    <3>3. QED BY <1>4, <3>1, <3>2
  <2>2. z \in below(z) OBVIOUS
  <2>3. z \notin below(x)
    <3>1. x \in Int /\ z \in Int OBVIOUS
    <3>2. ~(z <= x) BY <1>4, <3>1
    <3>3. QED BY <3>2
  <2>5. IsFiniteSet(below(z)) BY <1>2
  <2> HIDE DEF below
  <2>4. Cardinality(below(z)) = Cardinality(below(x)) => below(z) = below(x) BY <2>1, <2>5, FS_Subset
  <2>6. QED BY <2>2, <2>3, <2>4
<1> HIDE DEF n, below
<1>5. rank \in [S -> 1 .. n]
  <2>1. \A x \in S : Cardinality(below(x)) \in 1 .. n BY <1>1, <1>2, <1>3
  <2>2. QED BY <2>1
<1>6. \A x, z \in S : rank[x] = rank[z] => x = z
  <2>1. SUFFICES ASSUME NEW x \in S, NEW z \in S, x # z PROVE rank[x] # rank[z] OBVIOUS
  <2>2. x < z \/ z < x
    <3>1. x \in Int /\ z \in Int OBVIOUS
    <3>2. QED BY <2>1, <3>1
  <2>3. QED BY <1>4, <2>2
<1>7. rank \in Injection(S, 1 .. n) BY <1>5, <1>6 DEF Injection, IsInjective
<1>8. IsFiniteSet(1 .. n) /\ Cardinality(1 .. n) = n BY <1>1, FS_Interval
<1>9. rank \in Surjection(S, 1 .. n)
  <2> HIDE DEF rank
  <2>1. Cardinality(S) = Cardinality(1 .. n) BY <1>8 DEF n
  <2>2. QED BY <1>7, <1>8, <2>1, FS_Injection
<1>10. \A k \in 1 .. n : \E x \in S : rank[x] = k BY <1>9 DEF Surjection
<1>11. Ascending(S) = [k \in 1 .. n |-> CHOOSE x \in S : Cardinality(below(x)) = k] BY DEF Ascending, n, below
<1>12. ASSUME NEW k \in 1 .. n PROVE Ascending(S)[k] \in S /\ rank[Ascending(S)[k]] = k
  <2>1. \E x \in S : Cardinality(below(x)) = k BY <1>10
  <2>2. Ascending(S)[k] = CHOOSE x \in S : Cardinality(below(x)) = k BY <1>11
  <2>3. Ascending(S)[k] \in S /\ Cardinality(below(Ascending(S)[k])) = k BY <2>1, <2>2
  <2>4. QED BY <2>3
<1>13. Ascending(S) \in [1 .. n -> S] BY <1>11, <1>12
<1>14. ASSUME NEW x \in S PROVE \E k \in 1 .. n : Ascending(S)[k] = x
  <2>1. rank[x] \in 1 .. n BY <1>5
  <2>2. Ascending(S)[rank[x]] \in S /\ rank[Ascending(S)[rank[x]]] = rank[x] BY <1>12, <2>1
  <2>3. Ascending(S)[rank[x]] = x BY <1>6, <2>2
  <2>4. QED BY <2>1, <2>3
<1>15. QED BY <1>1, <1>13, <1>14 DEF n

\* There are finitely many scalars.
LEMMA CodePointsFinite == \A S \in SUBSET CodePoints : S \subseteq Int /\ IsFiniteSet(S)
<1>1. CodePoints \in SUBSET Nat /\ 1114112 \in Nat /\ \A x \in CodePoints : x <= 1114112 BY SMT DEF CodePoints
<1>2. IsFiniteSet(CodePoints) BY <1>1, FS_BoundedSetOfNaturals
<1>3. \A S \in SUBSET CodePoints : S \subseteq Int BY <1>1
<1>4. QED BY <1>2, <1>3, FS_Subset

\* The scalars that some edge names, and where the intervals begin.
Named ==
  Literals \cup {0, Dot, Slash, Colon, Backslash, 103, 105, 116}
    \cup UNION {Range(excluded[i]) : i \in DOMAIN excluded}
Bounds == Named \cup {x + 1 : x \in Named} \cup {65, 91, 97, 123, 55296, 57344, 1114112}

\* The scalars searched with.
LEMMA AlphabetIs ==
  ASSUME question \in Questions, excluded \in Seq(Seq(CodePoints))
  PROVE  /\ Alphabet \in Seq(CodePoints) /\ Named \subseteq CodePoints
         /\ Range(Alphabet) = Bounds \ ({1114112} \cup Surrogates)
<1> DEFINE S == Bounds \ ({1114112} \cup Surrogates)
<1>1. Literals \subseteq CodePoints
  <2>1. ASSUME NEW d \in Automata, NEW i \in DOMAIN Pattern(d) PROVE Range(Pattern(d)[i]) \subseteq CodePoints
    <3>1. PICK k \in DOMAIN question.scopes, side \in {"include", "exclude"} :
            \E j \in DOMAIN Scope(k)[side] : Pattern(d) = Scope(k)[side][j] BY AutomataAre
    <3>2. PICK j \in DOMAIN Scope(k)[side] : Pattern(d) = Scope(k)[side][j] BY <3>1
    <3>3. Scope(k) \in Range(question.scopes) BY DEF Scope, Range
    <3>4. Pattern(d) \in Range(Scope(k)[side]) BY <3>2 DEF Range
    <3>5. \A c \in Range(Pattern(d)) : c \in Seq(CodePoints) BY <3>3, <3>4, QuestionsAssumption
    <3>6. Pattern(d)[i] \in Range(Pattern(d)) BY DEF Range
    <3>7. Pattern(d)[i] \in Seq(CodePoints) BY <3>5, <3>6
    <3> DEFINE c == Pattern(d)[i]
    <3> HIDE DEF c
    <3>8. Range(c) \subseteq CodePoints BY <3>7 DEF Range, c
    <3>9. QED BY <3>8 DEF c
  <2>2. QED BY <2>1 DEF Literals
<1>2. \A i \in DOMAIN excluded : Range(excluded[i]) \subseteq CodePoints
  <2>1. \A i \in DOMAIN excluded : excluded[i] \in Seq(CodePoints) OBVIOUS
  <2>2. \A w \in Seq(CodePoints) : Range(w) \subseteq CodePoints BY DEF Range
  <2>3. QED BY <2>1, <2>2
<1>3. {0, Dot, Slash, Colon, Backslash, 103, 105, 116} \subseteq CodePoints BY SMT DEF CodePoints, Dot, Slash, Colon, Backslash
<1>4. Named \subseteq CodePoints BY <1>1, <1>2, <1>3 DEF Named
<1>5. S \subseteq CodePoints
  <2>1. {65, 91, 97, 123, 55296, 57344} \subseteq CodePoints BY SMT DEF CodePoints
  <2>2. \A x \in CodePoints : x + 1 \in CodePoints \cup {1114112} BY SMT DEF CodePoints
  <2>3. QED BY <1>4, <2>1, <2>2 DEF Bounds
<1>6. Alphabet = Ascending(S) BY DEF Alphabet, Bounds, Named
<1> HIDE DEF S
<1>7. S \subseteq Int /\ IsFiniteSet(S) BY <1>5, CodePointsFinite
<1>8. /\ Cardinality(S) \in Nat /\ Alphabet \in [1 .. Cardinality(S) -> S]
      /\ \A x \in S : \E k \in 1 .. Cardinality(S) : Alphabet[k] = x BY <1>6, <1>7, AscendingIs
<1>9. Alphabet \in [1 .. Cardinality(S) -> CodePoints] BY <1>5, <1>8
<1>10. Alphabet \in Seq(CodePoints) BY <1>8, <1>9
<1>11. Range(Alphabet) = S
  <2>1. DOMAIN Alphabet = 1 .. Cardinality(S) BY <1>8
  <2>2. \A k \in DOMAIN Alphabet : Alphabet[k] \in S BY <1>8, <2>1
  <2>3. QED BY <1>8, <2>1, <2>2 DEF Range
<1>12. QED BY <1>4, <1>10, <1>11 DEF S

-----------------------------------------------------------------------------
\* The product reads words.

\* The product reads a word: it passes these states.
IsProductRun(word, states) ==
  states[0] = StartState /\ \A k \in 1 .. Len(word) : states[k] \in Step(states[k - 1], word[k])
Reached(state, word) == \E states : IsProductRun(word, states) /\ states[Len(word)] = state

\* How much of an excluded word is a beginning of this one.
MatchedAfter(e, word, k) == IF k <= Len(e) /\ \A y \in 1 .. k : e[y] = word[y] THEN k ELSE -1

\* That is what the product counts.
LEMMA MatchedSteps ==
  ASSUME NEW A, NEW e \in Seq(A), NEW word, NEW k \in Nat \ {0}
  PROVE  Matched(e, MatchedAfter(e, word, k - 1), word[k]) = MatchedAfter(e, word, k)
<1> DEFINE n == Len(e)   before == MatchedAfter(e, word, k - 1)
<1>1. n \in Nat OBVIOUS
<1>2. \A y \in 1 .. k : y = k \/ y \in 1 .. k - 1 OBVIOUS
<1>3. k \in 1 .. k /\ \A y \in 1 .. k - 1 : y \in 1 .. k OBVIOUS
<1> DEFINE same(m) == \A y \in 1 .. m : e[y] = word[y]
<1>4. same(k) <=> same(k - 1) /\ e[k] = word[k] BY <1>2, <1>3
<1>5. before = IF k - 1 <= n /\ same(k - 1) THEN k - 1 ELSE -1 BY DEF MatchedAfter
<1>6. MatchedAfter(e, word, k) = IF k <= n /\ same(k) THEN k ELSE -1 BY DEF MatchedAfter
<1>7. Matched(e, before, word[k]) = IF before \in 0 .. n - 1 /\ e[before + 1] = word[k] THEN before + 1 ELSE -1
  BY DEF Matched
<1> HIDE DEF n, before, same
<1>8. ASSUME k - 1 <= n /\ same(k - 1) PROVE Matched(e, before, word[k]) = MatchedAfter(e, word, k)
  <2>1. before = k - 1 /\ before + 1 = k BY <1>5, <1>8
  <2>2. before \in 0 .. n - 1 <=> k <= n BY <1>1, <2>1
  <2>3. QED BY <1>4, <1>6, <1>7, <1>8, <2>1, <2>2
<1>9. ASSUME ~(k - 1 <= n /\ same(k - 1)) PROVE Matched(e, before, word[k]) = MatchedAfter(e, word, k)
  <2>1. before = -1 BY <1>5, <1>9
  <2>2. before \notin 0 .. n - 1 BY <1>1, <2>1
  <2>3. k <= n => k - 1 <= n BY <1>1
  <2>4. QED BY <1>4, <1>6, <1>7, <1>9, <2>2, <2>3
<1>10. QED BY <1>8, <1>9 DEF before

\* A step of the product is one of each part.
LEMMA StepIs ==
  ASSUME NEW state, NEW x, NEW s \in Step(state, x)
  PROVE  /\ s.universe \in UniverseStep(state.universe, x)
         /\ s.at = [d \in Automata |-> DfaStep(Pattern(d), state.at[d], x)]
         /\ s.matched = [i \in DOMAIN excluded |-> Matched(excluded[i], state.matched[i], x)]
BY DEF Step

\* For each automaton,
LEMMA StepAt ==
  ASSUME NEW state, NEW x, NEW s \in Step(state, x), NEW d \in Automata
  PROVE  s.at[d] = DfaStep(Pattern(d), state.at[d], x)
<1>1. s.at = [c \in Automata |-> DfaStep(Pattern(c), state.at[c], x)] BY DEF Step
<1>2. QED BY <1>1

\* and for each excluded word.
LEMMA StepMatched ==
  ASSUME NEW state, NEW x, NEW s \in Step(state, x), NEW i \in DOMAIN excluded
  PROVE  s.matched[i] = Matched(excluded[i], state.matched[i], x)
<1>1. s.matched = [c \in DOMAIN excluded |-> Matched(excluded[c], state.matched[c], x)] BY DEF Step
<1>2. QED BY <1>1

\* The product starts where its parts do.
LEMMA StartIs ==
  /\ StartState.universe = UniverseStart
  /\ StartState.at = [d \in Automata |-> DfaStart(Pattern(d))]
  /\ StartState.matched = [i \in DOMAIN excluded |-> 0]
BY DEF StartState

\* The universe of a run is that of the word read.
LEMMA RunUniverse ==
  ASSUME NEW A, NEW word \in Seq(A), NEW states, IsProductRun(word, states)
  PROVE  \A k \in 0 .. Len(word) : Lawful(word, k) /\ states[k].universe = UniverseAfter(word, k)
<1> DEFINE n == Len(word)   S == {k \in 0 .. n : Lawful(word, k) /\ states[k].universe = UniverseAfter(word, k)}
<1>1. n \in Nat OBVIOUS
<1>2. 0 \in S BY <1>1, UniverseAtStart, StartIs DEF IsProductRun
<1>3. ASSUME NEW k \in 1 .. n, k - 1 \in S PROVE k \in S
  <2>1. states[k] \in Step(states[k - 1], word[k]) BY DEF IsProductRun
  <2>2. states[k].universe \in UniverseStep(states[k - 1].universe, word[k]) BY <2>1, StepIs
  <2>3. Lawful(word, k - 1) /\ states[k - 1].universe = UniverseAfter(word, k - 1) BY <1>3
  <2>4. UniverseStep(UniverseAfter(word, k - 1), word[k]) = IF Lawful(word, k) THEN {UniverseAfter(word, k)} ELSE {}
    BY <2>3, UniverseSteps
  <2>5. states[k].universe \in IF Lawful(word, k) THEN {UniverseAfter(word, k)} ELSE {} BY <2>2, <2>3, <2>4
  <2>6. k \in 0 .. n BY <1>1
  <2>7. QED BY <2>5, <2>6
<1> HIDE DEF S, n
<1>4. \A k \in 0 .. n : k \in S BY <1>1, <1>2, <1>3, UpTo
<1>5. QED BY <1>4 DEF S, n

\* A run knows how much of each excluded word it has read.
LEMMA RunMatched ==
  ASSUME excluded \in Seq(Seq(CodePoints)), NEW A, NEW word \in Seq(A), NEW states, IsProductRun(word, states),
         NEW i \in DOMAIN excluded
  PROVE  \A k \in 0 .. Len(word) : states[k].matched[i] = MatchedAfter(excluded[i], word, k)
<1> DEFINE n == Len(word)   e == excluded[i]   S == {k \in 0 .. n : states[k].matched[i] = MatchedAfter(e, word, k)}
<1>1. n \in Nat /\ e \in Seq(CodePoints) OBVIOUS
<1>2. 0 \in S
  <2>1. states[0].matched[i] = 0 BY StartIs DEF IsProductRun
  <2>2. Len(e) \in Nat BY <1>1
  <2>3. MatchedAfter(e, word, 0) = 0 BY <2>2 DEF MatchedAfter
  <2>4. 0 \in 0 .. n BY <1>1
  <2>5. QED BY <2>1, <2>3, <2>4
<1>3. ASSUME NEW k \in 1 .. n, k - 1 \in S PROVE k \in S
  <2>1. states[k] \in Step(states[k - 1], word[k]) BY DEF IsProductRun
  <2>2. states[k].matched[i] = Matched(e, states[k - 1].matched[i], word[k]) BY <2>1, StepMatched, Zenon
  <2>3. states[k - 1].matched[i] = MatchedAfter(e, word, k - 1) BY <1>3
  <2>4. k \in Nat \ {0} /\ k \in 0 .. n BY <1>1
  <2> HIDE DEF e
  <2>5. Matched(e, MatchedAfter(e, word, k - 1), word[k]) = MatchedAfter(e, word, k) BY <1>1, <2>4, MatchedSteps
  <2>6. QED BY <2>2, <2>3, <2>4, <2>5
<1> HIDE DEF S, n, e
<1>4. \A k \in 0 .. n : k \in S BY <1>1, <1>2, <1>3, UpTo
<1>5. QED BY <1>4 DEF S, n, e

\* In a run of the product, each automaton reads the word.
LEMMA RunAt ==
  ASSUME NEW A, NEW word \in Seq(A), NEW states, IsProductRun(word, states), NEW d \in Automata
  PROVE  IsRun(Pattern(d), word, [k \in 0 .. Len(word) |-> states[k].at[d]])
<1> DEFINE n == Len(word)   run == [k \in 0 .. n |-> states[k].at[d]]
<1>1. n \in Nat OBVIOUS
<1>2. run[0] = DfaStart(Pattern(d))
  <2>1. states[0].at[d] = DfaStart(Pattern(d)) BY StartIs DEF IsProductRun
  <2>2. 0 \in 0 .. n BY <1>1
  <2>3. QED BY <2>1, <2>2
<1>3. ASSUME NEW k \in 1 .. n PROVE run[k] = DfaStep(Pattern(d), run[k - 1], word[k])
  <2>1. states[k] \in Step(states[k - 1], word[k]) BY DEF IsProductRun
  <2>2. states[k].at[d] = DfaStep(Pattern(d), states[k - 1].at[d], word[k]) BY <2>1, StepAt, Zenon
  <2>3. k \in 0 .. n /\ k - 1 \in 0 .. n BY <1>1
  <2>4. QED BY <2>2, <2>3
<1>4. QED BY <1>2, <1>3 DEF IsRun

\* A state of the product accepts the word that leads to it if the word is a
\* path of the overlay's scope and of no domain's, and is not removed.
LEMMA AcceptsIs ==
  ASSUME question \in Questions, \A d \in Automata : IsPattern(Pattern(d)), excluded \in Seq(Seq(CodePoints)),
         NEW word \in Seq(CodePoints), NEW s, Reached(s, word)
  PROVE  Accepts(s) <=> /\ IsPath(word) /\ Widens(Segments(word))
                        /\ \A i \in DOMAIN excluded : excluded[i] # word
<1> DEFINE n == Len(word)
<1>1. PICK states : IsProductRun(word, states) /\ states[n] = s BY DEF Reached
<1>2. n \in Nat /\ n \in 0 .. n OBVIOUS
<1>3. UniverseAccepts(s.universe) <=> IsPath(word)
  <2>1. Lawful(word, n) /\ s.universe = UniverseAfter(word, n) BY <1>1, <1>2, RunUniverse
  <2>2. QED BY <2>1, UniverseAtEnd
<1>4. ASSUME NEW i \in DOMAIN excluded PROVE s.matched[i] # Len(excluded[i]) <=> excluded[i] # word
  <2> DEFINE e == excluded[i]
  <2>1. s.matched[i] = MatchedAfter(e, word, n) BY <1>1, <1>2, RunMatched
  <2>2. e \in Seq(CodePoints) OBVIOUS
  <2> HIDE DEF e, n
  <2>3. Len(e) \in Nat BY <2>2
  <2>4. s.matched[i] = Len(e) => Len(e) = n /\ \A y \in 1 .. n : e[y] = word[y]
    BY <1>2, <2>1, <2>3 DEF MatchedAfter
  <2>5. Len(e) = n /\ (\A y \in 1 .. n : e[y] = word[y]) => e = word BY <2>2 DEF n
  <2>6. e = word => s.matched[i] = Len(e) BY <2>1, <1>2 DEF MatchedAfter, n
  <2>7. QED BY <2>4, <2>5, <2>6 DEF e
<1>5. IsPath(word) => \A k \in DOMAIN question.scopes : Covers(s.at, k) <=> InScope(Segments(word), k)
  <2>1. SUFFICES ASSUME IsPath(word), NEW k \in DOMAIN question.scopes PROVE Covers(s.at, k) <=> InScope(Segments(word), k)
    OBVIOUS
  <2>2. IsWord(word) BY <2>1, PathIsWord
  <2>3. ASSUME NEW d \in Automata PROVE DfaAccepts(Pattern(d), s.at[d]) <=> Matches(Pattern(d), Segments(word))
    <3> DEFINE run == [m \in 0 .. Len(word) |-> states[m].at[d]]
    <3>1. IsRun(Pattern(d), word, run) BY <1>1, RunAt
    <3>2. run[Len(word)] = s.at[d] BY <1>1, <1>2
    <3> HIDE DEF run
    <3>3. QED BY <2>2, <3>1, <3>2, AutomatonIsExact
  <2>4. QED BY <2>3, CoversIs
<1>6. 1 \in DOMAIN question.scopes
  <2>1. question.scopes \in Seq(Range(question.scopes)) /\ question.scopes # << >> BY QuestionsAssumption
  <2>2. Len(question.scopes) >= 1 /\ DOMAIN question.scopes = 1 .. Len(question.scopes) /\ Len(question.scopes) \in Nat BY <2>1
  <2>3. QED BY <2>2
<1>7. IsPath(word) => (Covers(s.at, 1) /\ (\A k \in DOMAIN question.scopes \ {1} : ~Covers(s.at, k)) <=> Widens(Segments(word)))
  <2>1. SUFFICES ASSUME IsPath(word)
        PROVE Covers(s.at, 1) /\ (\A k \in DOMAIN question.scopes \ {1} : ~Covers(s.at, k)) <=> Widens(Segments(word)) OBVIOUS
  <2>2. \A k \in DOMAIN question.scopes : Covers(s.at, k) <=> InScope(Segments(word), k) BY <1>5, <2>1
  <2>3. QED BY <1>6, <2>2 DEF Widens
<1>8. QED BY <1>3, <1>4, <1>7 DEF Accepts

-----------------------------------------------------------------------------
\* The search: what it has found, and the words that lead there.

\* W spells, for every product state found, the word that its predecessors do.
Follows(s, W) ==
  \/ predecessor[s] = Root /\ W[s] = << >>
  \/ \E t \in DOMAIN predecessor, x \in CodePoints : predecessor[s] = <<t, x>> /\ W[s] = Append(W[t], x)
Spells(W) ==
  /\ W \in [DOMAIN predecessor -> Seq(CodePoints)]
  /\ \A s \in DOMAIN predecessor : Reached(s, W[s]) /\ Follows(s, W)

\* The witness is the word that the state in front of the queue spells.
LEMMA WitnessIs ==
  ASSUME NEW W, Spells(W), queue \in Seq(DOMAIN predecessor), queue # << >>
  PROVE  Head(queue) \in DOMAIN predecessor /\ Witness = W[Head(queue)]
<1> DEFINE D == DOMAIN predecessor
           whole(s, word) == IF predecessor[s] = Root THEN << >> ELSE Append(word[predecessor[s][1]], predecessor[s][2])
           R == CHOOSE word : word = [s \in D |-> whole(s, word)]
<1>1. Head(queue) \in D OBVIOUS
<1>2. Witness = R[Head(queue)] BY DEF Witness
<1>3. \A s \in D : W[s] \in Seq(CodePoints) /\ Follows(s, W) BY DEF Spells
<1>4. \A t, x : <<t, x>> # Root /\ <<t, x>>[1] = t /\ <<t, x>>[2] = x BY DEF Root
<1>5. \A s \in D : W[s] = whole(s, W)
  <2>1. SUFFICES ASSUME NEW s \in D PROVE W[s] = whole(s, W) OBVIOUS
  <2>2. CASE predecessor[s] = Root /\ W[s] = << >> BY <2>2
  <2>3. CASE \E t \in D, x \in CodePoints : predecessor[s] = <<t, x>> /\ W[s] = Append(W[t], x)
    <3>1. PICK t \in D, x \in CodePoints : predecessor[s] = <<t, x>> /\ W[s] = Append(W[t], x) BY <2>3
    <3>2. predecessor[s] # Root /\ predecessor[s][1] = t /\ predecessor[s][2] = x BY <1>4, <3>1
    <3>3. QED BY <3>1, <3>2
  <2>4. QED BY <1>3, <2>2, <2>3 DEF Follows
<1>6. W = [s \in D |-> whole(s, W)]
  <2>1. W = [s \in D |-> W[s]] BY DEF Spells
  <2> HIDE DEF whole
  <2>2. QED BY <1>5, <2>1
<1> HIDE DEF whole
<1>7. R = [s \in D |-> whole(s, R)] BY <1>6
<1> HIDE DEF R
<1>8. \A s \in D : R[s] = whole(s, R)
  <2> DEFINE b(s) == whole(s, R)
  <2>1. R = [s \in D |-> b(s)] BY <1>7
  <2> HIDE DEF b
  <2>2. \A s \in D : R[s] = b(s) BY <2>1
  <2>3. QED BY <2>2 DEF b
<1>9. \A n \in Nat, s \in D : Len(W[s]) = n => R[s] = W[s]
  <2>1. SUFFICES ASSUME NEW n \in Nat PROVE \A s \in D : Len(W[s]) = n => R[s] = W[s] OBVIOUS
  <2> DEFINE S == {k \in 0 .. n : \A s \in D : Len(W[s]) = k => R[s] = W[s]}
  <2>2. 0 \in S
    <3>1. ASSUME NEW s \in D, Len(W[s]) = 0 PROVE R[s] = W[s]
      <4>1. ~\E t \in D, x \in CodePoints : predecessor[s] = <<t, x>> /\ W[s] = Append(W[t], x)
        <5>1. \A t \in D, x \in CodePoints : Len(Append(W[t], x)) = Len(W[t]) + 1 /\ Len(W[t]) \in Nat BY <1>3
        <5>2. QED BY <3>1, <5>1
      <4>2. predecessor[s] = Root /\ W[s] = << >> BY <1>3, <4>1 DEF Follows
      <4>3. QED BY <1>8, <4>2 DEF whole
    <3>2. QED BY <3>1
  <2>3. ASSUME NEW k \in 1 .. n, k - 1 \in S PROVE k \in S
    <3>1. ASSUME NEW s \in D, Len(W[s]) = k PROVE R[s] = W[s]
      <4>1. W[s] # << >> BY <3>1
      <4>2. PICK t \in D, x \in CodePoints : predecessor[s] = <<t, x>> /\ W[s] = Append(W[t], x)
        BY <1>3, <4>1 DEF Follows
      <4>3. predecessor[s] # Root /\ predecessor[s][1] = t /\ predecessor[s][2] = x BY <1>4, <4>2
      <4>4. Len(W[t]) = k - 1
        <5>1. Len(Append(W[t], x)) = Len(W[t]) + 1 /\ Len(W[t]) \in Nat BY <1>3
        <5>2. QED BY <3>1, <4>2, <5>1
      <4>5. R[t] = W[t] BY <2>3, <4>4
      <4>6. R[s] = Append(R[t], x) BY <1>8, <4>3 DEF whole
      <4>7. QED BY <4>2, <4>5, <4>6
    <3>2. k \in 0 .. n OBVIOUS
    <3>3. QED BY <3>1, <3>2
  <2> HIDE DEF S
  <2>4. \A k \in 0 .. n : k \in S BY <2>2, <2>3, UpTo
  <2>5. n \in S BY <2>4
  <2>6. QED BY <2>5 DEF S
<1>10. Len(W[Head(queue)]) \in Nat BY <1>1, <1>3
<1>11. QED BY <1>1, <1>2, <1>9, <1>10

\* The start is reached by the empty word.
LEMMA ReachedFromStart == Reached(StartState, << >>)
<1> DEFINE states == [k \in 0 .. 0 |-> StartState]
<1>1. IsProductRun(<< >>, states) /\ states[Len(<< >>)] = StartState
  <2>1. Len(<< >>) = 0 /\ 0 \in 0 .. 0 /\ 1 .. 0 = {} OBVIOUS
  <2>2. states[0] = StartState BY <2>1
  <2> HIDE DEF states
  <2>3. QED BY <2>1, <2>2 DEF IsProductRun
<1>2. QED BY <1>1 DEF Reached

\* A successor is reached by one scalar more.
LEMMA ReachedSteps ==
  ASSUME NEW A, NEW word \in Seq(A), NEW x \in A, NEW t, Reached(t, word), NEW s \in Step(t, x)
  PROVE  Reached(s, Append(word, x))
<1> DEFINE n == Len(word)   longer == Append(word, x)
<1>1. PICK states : IsProductRun(word, states) /\ states[n] = t BY DEF Reached
<1>2. n \in Nat /\ Len(longer) = n + 1 /\ longer[n + 1] = x /\ \A k \in 1 .. n : longer[k] = word[k] OBVIOUS
<1> DEFINE run == [k \in 0 .. n + 1 |-> IF k = n + 1 THEN s ELSE states[k]]
<1>3. run[n + 1] = s /\ \A k \in 0 .. n : run[k] = states[k] BY <1>2
<1>4. 0 \in 0 .. n /\ n \in 0 .. n /\ n + 1 - 1 = n BY <1>2
<1>5. \A k \in 1 .. n + 1 : k = n + 1 \/ (k \in 1 .. n /\ k \in 0 .. n /\ k - 1 \in 0 .. n) BY <1>2
<1> HIDE DEF run, longer, n
<1>6. ASSUME NEW k \in 1 .. n + 1 PROVE run[k] \in Step(run[k - 1], longer[k])
  <2>1. CASE k = n + 1
    <3>1. run[k] = s /\ run[k - 1] = t /\ longer[k] = x BY <1>1, <1>2, <1>3, <1>4, <2>1
    <3>2. QED BY <3>1
  <2>2. CASE k # n + 1
    <3>1. k \in 1 .. n /\ k \in 0 .. n /\ k - 1 \in 0 .. n BY <1>5, <2>2
    <3>2. states[k] \in Step(states[k - 1], word[k]) BY <1>1, <3>1 DEF IsProductRun, n
    <3>3. run[k] = states[k] /\ run[k - 1] = states[k - 1] /\ longer[k] = word[k] BY <1>2, <1>3, <3>1
    <3>4. QED BY <3>2, <3>3
  <2>3. QED BY <2>1, <2>2
<1>7. run[0] = StartState BY <1>1, <1>3, <1>4 DEF IsProductRun
<1>8. IsProductRun(longer, run) BY <1>2, <1>6, <1>7 DEF IsProductRun
<1>9. run[Len(longer)] = s BY <1>2, <1>3
<1>10. QED BY <1>8, <1>9 DEF Reached, longer

\* What a state accepts when it is found by the search.
LEMMA FoundWord ==
  ASSUME question \in Questions, Admitted, excluded \in Seq(Seq(CodePoints)), NEW W, Spells(W),
         queue \in Seq(DOMAIN predecessor), queue # << >>, Accepts(Head(queue))
  PROVE  /\ Witness \in Seq(CodePoints) /\ IsPath(Witness) /\ Widens(Segments(Witness))
         /\ \A i \in DOMAIN excluded : excluded[i] # Witness
<1>1. Head(queue) \in DOMAIN predecessor /\ Witness = W[Head(queue)] BY WitnessIs
<1>2. Witness \in Seq(CodePoints) /\ Reached(Head(queue), Witness) BY <1>1 DEF Spells
<1>3. \A d \in Automata : IsPattern(Pattern(d)) BY AdmittedArePatterns
<1>4. QED BY <1>2, <1>3, AcceptsIs

\* Product and runs are those of the question and of the words removed.
LEMMA SameProduct ==
  ASSUME question' = question, excluded' = excluded
  PROVE  /\ \A s, word : Reached(s, word)' <=> Reached(s, word)
         /\ \A s, x : Step(s, x)' = Step(s, x)
         /\ StartState' = StartState
<1>1. Automata' = Automata /\ \A d : Pattern(d)' = Pattern(d) BY DEF Automata, Pattern, Scope
<1>2. StartState' = StartState BY <1>1 DEF StartState
<1>3. \A at : Hopeless(at)' <=> Hopeless(at) BY <1>1 DEF Hopeless
<1>4. \A s, x : Step(s, x)' = Step(s, x) BY <1>1, <1>3 DEF Step
<1>5. \A s, word : Reached(s, word)' <=> Reached(s, word) BY <1>2, <1>4 DEF Reached, IsProductRun
<1>6. QED BY <1>2, <1>4, <1>5

\* What a search is in the middle of: every product state found is to be looked
\* at, or does not accept and leads only to states found.
Settled(s) == ~Accepts(s) /\ \A k \in DOMAIN alphabet : Step(s, alphabet[k]) \subseteq DOMAIN predecessor
Explored ==
  /\ StartState \in DOMAIN predecessor
  /\ \A s \in DOMAIN predecessor : s \in Range(queue) \/ Settled(s)

\* A scalar leads to one product state at most.
LEMMA OneStep == \A state, x : \A s, t \in Step(state, x) : s = t
<1>1. ASSUME NEW state, NEW x, NEW s \in Step(state, x), NEW t \in Step(state, x) PROVE s = t
  <2> DEFINE at == [d \in Automata |-> DfaStep(Pattern(d), state.at[d], x)]
             matched == [i \in DOMAIN excluded |-> Matched(excluded[i], state.matched[i], x)]
             of(u) == [universe |-> u, at |-> at, matched |-> matched]
  <2>1. \A v \in Step(state, x) : \E u \in UniverseStep(state.universe, x) : v = of(u) BY DEF Step
  <2>2. \A u, v \in UniverseStep(state.universe, x) : u = v BY DEF UniverseStep
  <2> HIDE DEF of
  <2>3. QED BY <2>1, <2>2
<1>2. QED BY <1>1

\* The states found by looking at one: those of its successors that were not
\* found before, each once.
Found(new, found) ==
  /\ new \in Seq(DOMAIN alphabet) /\ DOMAIN found = DOMAIN new /\ found \in Seq(Range(found))
  /\ \A i \in DOMAIN new : found[i] \in Step(Head(queue), alphabet[new[i]])
  /\ \A k \in DOMAIN alphabet : Step(Head(queue), alphabet[k]) \subseteq DOMAIN predecessor \cup Range(found)

\* What an expansion does to queue and predecessors.
LEMMA ExpandFinds ==
  ASSUME Expand, alphabet \in Seq(CodePoints)
  PROVE  \E new, found :
           /\ Found(new, found)
           /\ queue' = Tail(queue) \o found
           /\ predecessor' = [s \in DOMAIN predecessor \cup Range(found) |->
                                IF s \in DOMAIN predecessor THEN predecessor[s]
                                ELSE <<Head(queue), alphabet[new[CHOOSE i \in DOMAIN found : found[i] = s]]>>]
           /\ ~Accepts(Head(queue)) /\ queue # << >> /\ phase = "search"
           /\ counts' = [Charge("transitions", Len(alphabet)) EXCEPT !.products = @ + Len(new)]
<1> DEFINE D == DOMAIN predecessor   state == Head(queue)   N == DOMAIN alphabet
           hits  == [k \in DOMAIN alphabet |-> Step(state, alphabet[k])]
           New(k) == /\ hits[k] # {} /\ hits[k] \cap DOMAIN predecessor = {}
                     /\ \A j \in 1 .. k - 1 : hits[j] # hits[k]
           K     == {k \in DOMAIN alphabet : New(k)}
           new   == Ascending(K)
           found == [i \in DOMAIN new |-> CHOOSE s \in hits[new[i]] : TRUE]
<1>1. /\ queue' = Tail(queue) \o found
      /\ predecessor' = [s \in D \cup Range(found) |->
                           IF s \in D THEN predecessor[s]
                           ELSE <<state, alphabet[new[CHOOSE i \in DOMAIN found : found[i] = s]]>>]
      /\ ~Accepts(state) /\ queue # << >> /\ phase = "search"
      /\ counts' = [Charge("transitions", Len(alphabet)) EXCEPT !.products = @ + Len(new)]
  BY DEF Expand
<1>2. N = 1 .. Len(alphabet) /\ Len(alphabet) \in Nat OBVIOUS
<1>3. K \subseteq N OBVIOUS
<1>4. \A k \in N : hits[k] = Step(state, alphabet[k]) OBVIOUS
<1>5. \A k \in K : hits[k] # {} OBVIOUS
<1>6. \A k \in N : \A j \in 1 .. k - 1 : j \in N BY <1>2
<1> DEFINE c == Cardinality(K)
<1>7. c \in Nat /\ new \in [1 .. c -> K] /\ \A k \in K : \E i \in 1 .. c : new[i] = k
  <2> HIDE DEF K
  <2>1. N \subseteq Int /\ IsFiniteSet(N) BY <1>2, FS_Interval
  <2>2. K \subseteq Int /\ IsFiniteSet(K) BY <1>3, <2>1, FS_Subset
  <2>3. QED BY <2>2, AscendingIs
<1>8. DOMAIN new = 1 .. c BY <1>7
<1> HIDE DEF new, c
<1>9. \A i \in DOMAIN new : new[i] \in K BY <1>7, <1>8
<1>10. \A i \in DOMAIN new : found[i] \in hits[new[i]] BY <1>5, <1>9
<1>11. DOMAIN found = 1 .. c BY <1>8
<1>12. \A k \in K : hits[k] \subseteq Range(found)
  <2>1. SUFFICES ASSUME NEW k \in K, NEW s \in hits[k] PROVE s \in Range(found) OBVIOUS
  <2>2. PICK i \in 1 .. c : new[i] = k BY <1>7
  <2>3. found[i] \in hits[k] BY <1>8, <1>10, <2>2
  <2>5. i \in DOMAIN found BY <1>11
  <2> HIDE DEF found, hits, K, state
  <2>7. s \in Step(state, alphabet[k]) /\ found[i] \in Step(state, alphabet[k]) BY <1>3, <1>4, <2>3
  <2>4. found[i] = s BY <2>7, OneStep, Zenon
  <2>6. QED BY <2>4, <2>5 DEF Range
<1> HIDE DEF K
<1>13. ASSUME NEW k \in N PROVE hits[k] \subseteq D \cup Range(found)
  <2>1. CASE hits[k] = {} BY <2>1
  <2>2. CASE hits[k] \cap D # {} BY <1>4, <2>2, OneStep
  <2>3. CASE hits[k] # {} /\ hits[k] \cap D = {}
    <3> DEFINE J == {j \in N : hits[j] = hits[k]}
    <3>1. J \subseteq Nat /\ k \in J BY <1>2
    <3>2. PICK j \in J : \A y \in J : j <= y BY <3>1, LeastOf
    <3>3. \A y \in 1 .. j - 1 : hits[y] # hits[j]
      <4>1. SUFFICES ASSUME NEW y \in 1 .. j - 1, hits[y] = hits[j] PROVE FALSE OBVIOUS
      <4>2. y \in J BY <1>6, <4>1
      <4>3. j <= y /\ j \in Nat BY <3>1, <3>2, <4>2
      <4>4. QED BY <4>1, <4>3
    <3>4. j \in K BY <2>3, <3>3 DEF K
    <3>5. QED BY <1>12, <3>4
  <2>4. QED BY <2>1, <2>2, <2>3
<1> HIDE DEF hits, found
<1>14. new \in Seq(N) BY <1>3, <1>7, <1>8
<1>15. found \in Seq(Range(found))
  <2>1. found = [i \in 1 .. c |-> found[i]] /\ \A i \in 1 .. c : found[i] \in Range(found) BY <1>11 DEF Range, found
  <2>2. QED BY <1>7, <2>1
<1>16. Found(new, found)
  <2>1. \A i \in DOMAIN new : found[i] \in Step(state, alphabet[new[i]]) BY <1>3, <1>4, <1>9, <1>10
  <2>2. \A k \in N : Step(state, alphabet[k]) \subseteq D \cup Range(found) BY <1>4, <1>13
  <2>3. QED BY <1>8, <1>11, <1>14, <1>15, <2>1, <2>2 DEF Found
<1> HIDE DEF state, D
<1>17. QED BY <1>1, <1>16 DEF state, D

\* The invariant of a search: what is found, what is to be looked at, and the words that lead there.
Searching ==
  /\ alphabet = Alphabet /\ queue \in Seq(DOMAIN predecessor)
  /\ Explored
  /\ \E W : Spells(W)

\* Acceptance and alphabet are those of the question and of the words removed.
LEMMA SameLanguage ==
  ASSUME question' = question, excluded' = excluded
  PROVE  /\ \A s : Accepts(s)' <=> Accepts(s)
         /\ Alphabet' = Alphabet
<1>1. Automata' = Automata /\ \A d : Pattern(d)' = Pattern(d) BY DEF Automata, Pattern, Scope
<1>2. Literals' = Literals BY <1>1 DEF Literals
<1>3. Alphabet' = Alphabet BY <1>2 DEF Alphabet
<1>4. \A at, k : Covers(at, k)' <=> Covers(at, k) BY <1>1 DEF Covers
<1>5. \A s : Accepts(s)' <=> Accepts(s) BY <1>4 DEF Accepts
<1>6. QED BY <1>3, <1>5

\* A search begins with the start state to be looked at.
LEMMA BeginSearching ==
  ASSUME BeginSearch, phase' = "search" PROVE Searching'
<1>1. question.unicode BY DEF BeginSearch, GiveUp, Answer
<1>2. PICK start : start = StartState OBVIOUS
<1>3. /\ alphabet' = Alphabet /\ predecessor' = [s \in {start} |-> Root] /\ queue' = <<start>>
      /\ question' = question /\ excluded' = excluded
  BY <1>1, <1>2 DEF BeginSearch
<1>4. DOMAIN predecessor' = {start} /\ predecessor'[start] = Root BY <1>3
<1>5. queue' \in Seq(DOMAIN predecessor') BY <1>3, <1>4
<1>6. alphabet' = Alphabet' BY <1>3, SameLanguage
<1>7. StartState' = start BY <1>2, <1>3, SameProduct
<1>8. start \in Range(queue)'
  <2>1. queue'[1] = start /\ 1 \in DOMAIN queue' BY <1>3
  <2>2. QED BY <2>1 DEF Range
<1>9. Explored' BY <1>4, <1>7, <1>8 DEF Explored
<1>10. PICK W : W = [s \in {start} |-> << >>] OBVIOUS
<1>11. Spells(W)'
  <2>1. Reached(start, << >>)' BY <1>2, <1>3, SameProduct, ReachedFromStart
  <2>2. W \in [DOMAIN predecessor' -> Seq(CodePoints)] /\ W[start] = << >> BY <1>4, <1>10
  <2>3. Follows(start, W)' BY <1>4, <2>2 DEF Follows
  <2>4. QED BY <1>4, <2>1, <2>2, <2>3 DEF Spells
<1>12. QED BY <1>5, <1>6, <1>9, <1>11 DEF Searching

\* An expanded state is settled; those found spell words.
LEMMA ExpandSearching ==
  ASSUME Searching, Expand, alphabet \in Seq(CodePoints) PROVE Searching'
<1>1. PICK W : Spells(W) BY DEF Searching
<1>2. PICK new, found :
        /\ Found(new, found)
        /\ queue' = Tail(queue) \o found
        /\ predecessor' = [s \in DOMAIN predecessor \cup Range(found) |->
                             IF s \in DOMAIN predecessor THEN predecessor[s]
                             ELSE <<Head(queue), alphabet[new[CHOOSE i \in DOMAIN found : found[i] = s]]>>]
        /\ ~Accepts(Head(queue)) /\ queue # << >> /\ phase = "search"
        /\ counts' = [Charge("transitions", Len(alphabet)) EXCEPT !.products = @ + Len(new)]
  BY ExpandFinds
<1>3. PICK state, D, q, a, p : /\ state = Head(queue) /\ D = DOMAIN predecessor /\ q = queue
                               /\ a = alphabet /\ p = predecessor OBVIOUS
<1>4. question' = question /\ alphabet' = alphabet /\ excluded' = excluded BY DEF Expand
<1>5. q \in Seq(D) /\ q # << >> /\ state = Head(q) /\ state \in D BY <1>2, <1>3 DEF Searching
<1> DEFINE E == D \cup Range(found)
           scalar(s) == a[new[CHOOSE i \in DOMAIN found : found[i] = s]]
<1>6. /\ predecessor' = [s \in E |-> IF s \in D THEN p[s] ELSE <<state, scalar(s)>>]
      /\ queue' = Tail(q) \o found /\ a \in Seq(CodePoints) BY <1>2, <1>3
<1>7. /\ new \in Seq(DOMAIN a) /\ DOMAIN found = DOMAIN new /\ found \in Seq(Range(found))
      /\ \A i \in DOMAIN new : found[i] \in Step(state, a[new[i]])
      /\ \A k \in DOMAIN a : Step(state, a[k]) \subseteq E
  BY <1>2, <1>3 DEF Found
<1>8. ASSUME NEW s \in Range(found) PROVE scalar(s) \in CodePoints /\ s \in Step(state, scalar(s))
  <2> DEFINE i == CHOOSE i \in DOMAIN found : found[i] = s
  <2>1. i \in DOMAIN found /\ found[i] = s BY DEF Range
  <2> HIDE DEF i
  <2>2. i \in DOMAIN new BY <1>7, <2>1
  <2>3. new[i] \in DOMAIN a BY <1>7, <2>2
  <2>4. a[new[i]] \in CodePoints BY <1>6, <2>3
  <2>5. s \in Step(state, a[new[i]]) BY <1>7, <2>1, <2>2
  <2>6. QED BY <2>4, <2>5 DEF i
<1> HIDE DEF scalar
<1>9. DOMAIN predecessor' = E BY <1>6
<1> HIDE DEF E
<1>10. queue' \in Seq(DOMAIN predecessor')
  <2>1. Tail(q) \in Seq(E) /\ found \in Seq(E)
    <3>1. D \subseteq E /\ Range(found) \subseteq E BY DEF E
    <3>2. q \in Seq(E) /\ found \in Seq(E)
      <4>1. ASSUME NEW S, S \subseteq E, NEW t \in Seq(S) PROVE t \in Seq(E)
        <5>1. Len(t) \in Nat /\ t = [k \in 1 .. Len(t) |-> t[k]] /\ \A k \in 1 .. Len(t) : t[k] \in S OBVIOUS
        <5>2. QED BY <4>1, <5>1
      <4>2. QED BY <1>5, <1>7, <3>1, <4>1
    <3>3. QED BY <1>5, <3>2
  <2>2. QED BY <1>6, <1>9, <2>1
<1>11. alphabet' = Alphabet' BY <1>4, SameLanguage DEF Searching
<1>12. StartState' = StartState /\ StartState \in D BY <1>3, <1>4, SameProduct DEF Searching, Explored
<1>13. ASSUME NEW s \in E PROVE s \in Range(queue') \/ Settled(s)'
  <2>1. CASE s \in Range(found)
    <3>1. PICK i \in DOMAIN found : found[i] = s BY <2>1 DEF Range
    <3> DEFINE m == Len(Tail(q))
    <3>2. m \in Nat /\ i \in 1 .. Len(found) /\ Len(found) \in Nat BY <1>5, <1>7, <3>1
    <3>3. DOMAIN queue' = 1 .. m + Len(found) /\ queue'[m + i] = found[i]
      <4>1. Tail(q) \in Seq(D) /\ found \in Seq(Range(found)) BY <1>5, <1>7
      <4>2. QED BY <1>6, <3>2, <4>1
    <3>4. m + i \in DOMAIN queue' BY <3>2, <3>3
    <3>5. QED BY <3>1, <3>3, <3>4 DEF Range
  <2>2. CASE s \in D /\ s \in Range(q) /\ s # state
    <3>1. PICK i \in DOMAIN q : q[i] = s BY <2>2 DEF Range
    <3>2. Len(q) \in Nat /\ DOMAIN q = 1 .. Len(q) /\ q[1] = state BY <1>5
    <3>3. i - 1 \in 1 .. Len(Tail(q)) /\ Tail(q)[i - 1] = s BY <1>5, <2>2, <3>1, <3>2
    <3>4. i - 1 \in DOMAIN queue' /\ queue'[i - 1] = s BY <1>5, <1>6, <1>7, <3>3
    <3>5. QED BY <3>4 DEF Range
  <2>3. CASE s \in D /\ (s = state \/ s \notin Range(q))
    <3>1. ~Accepts(s)
      <4>1. s = state \/ Settled(s) BY <1>3, <2>3 DEF Searching, Explored
      <4>2. QED BY <1>2, <1>3, <4>1 DEF Settled
    <3>2. \A k \in DOMAIN a : Step(s, a[k]) \subseteq E
      <4>1. CASE s = state BY <1>7, <4>1
      <4>2. CASE s # state
        <5>1. Settled(s) BY <1>3, <2>3, <4>2 DEF Searching, Explored
        <5>2. QED BY <1>3, <5>1 DEF Settled, E
      <4>3. QED BY <4>1, <4>2
    <3>3. Accepts(s)' <=> Accepts(s) BY <1>4, SameLanguage
    <3>4. \A x : Step(s, x)' = Step(s, x) BY <1>4, SameProduct
    <3>5. alphabet' = a BY <1>3, <1>4
    <3>6. QED BY <1>9, <3>1, <3>2, <3>3, <3>4, <3>5 DEF Settled
  <2>4. QED BY <2>1, <2>2, <2>3 DEF E
<1>14. Explored' BY <1>9, <1>12, <1>13 DEF Explored, E
<1> DEFINE letter(s) == IF s \in D THEN W[s] ELSE Append(W[state], scalar(s))
<1>15. PICK V : V = [s \in E |-> letter(s)] OBVIOUS
<1>16. \A s \in D : W[s] \in Seq(CodePoints) /\ Reached(s, W[s]) /\ Follows(s, W) BY <1>1, <1>3 DEF Spells
<1>17. \A s \in E : s \in D \/ (s \notin D /\ s \in Range(found)) BY DEF E
<1>18. ASSUME NEW s \in E PROVE V[s] \in Seq(CodePoints) /\ Reached(s, V[s])' /\ Follows(s, V)'
  <2>1. V[s] = letter(s) BY <1>15
  <2>2. D \subseteq E /\ \A t \in D : V[t] = W[t] BY <1>15 DEF E
  <2>3. CASE s \in D
    <3>1. V[s] = W[s] /\ predecessor'[s] = p[s] BY <1>6, <2>2, <2>3
    <3>2. Reached(s, V[s])' BY <1>4, <1>16, <2>3, <3>1, SameProduct
    <3>3. Follows(s, V)'
      <4>1. CASE p[s] = Root /\ W[s] = << >> BY <3>1, <4>1 DEF Follows
      <4>2. CASE \E t \in D, x \in CodePoints : p[s] = <<t, x>> /\ W[s] = Append(W[t], x)
        BY <1>9, <2>2, <3>1, <4>2 DEF Follows
      <4>3. QED BY <1>3, <1>16, <2>3, <4>1, <4>2 DEF Follows
    <3>4. QED BY <1>16, <2>3, <3>1, <3>2, <3>3
  <2>4. CASE s \notin D /\ s \in Range(found)
    <3>1. scalar(s) \in CodePoints /\ s \in Step(state, scalar(s)) BY <1>8, <2>4
    <3>2. V[s] = Append(W[state], scalar(s)) /\ predecessor'[s] = <<state, scalar(s)>> BY <1>6, <2>1, <2>4
    <3>3. W[state] \in Seq(CodePoints) /\ Reached(state, W[state]) /\ V[state] = W[state] /\ state \in E
      BY <1>5, <1>16, <2>2
    <3>4. Reached(s, V[s]) BY <3>1, <3>2, <3>3, ReachedSteps
    <3>5. Reached(s, V[s])' BY <1>4, <3>4, SameProduct
    <3>6. V[s] \in Seq(CodePoints) BY <3>1, <3>2, <3>3
    <3>7. Follows(s, V)' BY <1>9, <3>1, <3>2, <3>3 DEF Follows
    <3>8. QED BY <3>5, <3>6, <3>7
  <2>5. QED BY <1>17, <2>3, <2>4
<1> HIDE DEF letter
<1>19. V \in [E -> Seq(CodePoints)] BY <1>15, <1>18
<1>20. Spells(V)' BY <1>9, <1>18, <1>19 DEF Spells
<1>21. QED BY <1>10, <1>11, <1>14, <1>20 DEF Searching

\* The invariant of all rounds: a search in progress is one, the words removed are new paths that
\* only widen unnormalised, and a refutation has its witness.
SearchInv ==
  /\ Inv /\ question \in Questions
  /\ excluded \in Seq(Seq(CodePoints)) /\ RoundsRemoveNewWords
  /\ phase = "search" => Searching
  /\ RefutedHasWitness

\* No search runs at first, and no word is removed.
LEMMA InitSearch == Init => SearchInv
<1>1. << >> \in Seq(Seq(CodePoints)) OBVIOUS
<1>2. QED BY <1>1, InitInv DEF Init, SearchInv, RoundsRemoveNewWords, RefutedHasWitness

\* What widens depends on the question alone.
LEMMA SameScopes == ASSUME question' = question PROVE \A path : Widens(path)' <=> Widens(path)
BY DEF Widens, InScope, Scope

\* Words that were removed stay new and lawful.
LEMMA SameRounds ==
  ASSUME question' = question, excluded' = excluded, RoundsRemoveNewWords PROVE RoundsRemoveNewWords'
BY SameScopes DEF RoundsRemoveNewWords

\* A state that accepts spells a path that widens and was not removed: removed now, or the witness.
LEMMA FindWitnessSearch ==
  ASSUME SearchInv, FindWitness
  PROVE  excluded' \in Seq(Seq(CodePoints)) /\ RoundsRemoveNewWords' /\ RefutedHasWitness' /\ phase' # "search"
<1>1. PICK w : w = Witness OBVIOUS
<1>2. /\ phase = "search" /\ queue # << >> /\ Accepts(Head(queue))
      /\ question' = question /\ predecessor' = predecessor /\ queue' = queue
      /\ \/ Nfc(w) /\ excluded' = excluded /\ phase' = "done"
         \/ /\ ~Nfc(w) /\ answer' # "refuted" /\ phase' \in {"begin", "done"}
            /\ excluded' = excluded \/ excluded' = Append(excluded, w)
  <2>1. answer = "pending" BY DEF SearchInv, Inv, FindWitness
  <2>2. QED BY <1>1, <2>1 DEF FindWitness, GiveUp, Answer, Go, searching
<1>3. Searching /\ Admitted /\ question \in Questions /\ excluded \in Seq(Seq(CodePoints)) /\ RoundsRemoveNewWords
  BY <1>2 DEF SearchInv, Inv
<1>4. PICK W : Spells(W) BY <1>3 DEF Searching
<1>5. queue \in Seq(DOMAIN predecessor) BY <1>3 DEF Searching
<1>6. /\ w \in Seq(CodePoints) /\ IsPath(w) /\ Widens(Segments(w))
      /\ \A i \in DOMAIN excluded : excluded[i] # w BY <1>1, <1>2, <1>3, <1>4, <1>5, FoundWord
<1>7. \A path : Widens(path)' <=> Widens(path) BY <1>2, SameScopes
<1>8. Witness' = w BY <1>1, <1>2 DEF Witness
<1>9. RefutedHasWitness'
  <2>1. answer' = "refuted" => Nfc(w) BY <1>2
  <2>2. QED BY <1>6, <1>7, <1>8, <2>1 DEF RefutedHasWitness
<1>10. CASE excluded' = excluded BY <1>2, <1>3, <1>9, <1>10, SameRounds
<1>11. CASE excluded' = Append(excluded, w) /\ ~Nfc(w)
  <2>1. PICK e : e = excluded OBVIOUS
  <2>2. e \in Seq(Seq(CodePoints)) BY <1>3, <2>1
  <2> DEFINE n == Len(e)
  <2>3. /\ excluded' \in Seq(Seq(CodePoints)) /\ DOMAIN excluded' = 1 .. n + 1 /\ n \in Nat
        /\ excluded'[n + 1] = w /\ (\A i \in 1 .. n : excluded'[i] = e[i]) /\ DOMAIN e = 1 .. n
    BY <1>6, <1>11, <2>1, <2>2
  <2> HIDE DEF n
  <2>4. ASSUME NEW i \in 1 .. n + 1
        PROVE  /\ ~Nfc(excluded'[i]) /\ IsPath(excluded'[i]) /\ Widens(Segments(excluded'[i]))
               /\ \A j \in 1 .. i - 1 : excluded'[j] # excluded'[i]
    <3>1. CASE i = n + 1
      <4>1. i - 1 = n /\ excluded'[i] = w BY <2>3, <3>1
      <4>2. \A j \in 1 .. n : excluded'[j] # w BY <1>6, <2>1, <2>3
      <4>3. QED BY <1>6, <1>11, <4>1, <4>2
    <3>2. CASE i # n + 1
      <4>1. i \in 1 .. n /\ (\A j \in 1 .. i - 1 : j \in 1 .. n) BY <2>3, <3>2
      <4>2. /\ ~Nfc(e[i]) /\ IsPath(e[i]) /\ Widens(Segments(e[i]))
            /\ \A j \in 1 .. i - 1 : e[j] # e[i] BY <1>3, <2>1, <2>3, <4>1 DEF RoundsRemoveNewWords
      <4>3. QED BY <2>3, <4>1, <4>2
    <3>3. QED BY <3>1, <3>2
  <2>5. RoundsRemoveNewWords' BY <1>7, <2>3, <2>4 DEF RoundsRemoveNewWords
  <2>6. QED BY <1>2, <1>9, <2>3, <2>5
<1>12. QED BY <1>2, <1>10, <1>11

\* Every step keeps the invariant of the search.
LEMMA NextSearch == SearchInv /\ [Next]_vars => SearchInv'
<1>1. SUFFICES ASSUME SearchInv, [Next]_vars PROVE SearchInv' OBVIOUS
<1>2. Inv' BY <1>1, NextInv DEF SearchInv
<1>3. question' = question
  BY <1>1 DEF Next, vars, Compile, BeginSearch, Expand, FindWitness, Exhaust, Walk, Interrupt
<1>4. question' \in Questions BY <1>1, <1>3 DEF SearchInv
<1>5. CASE FindWitness
  <2>1. excluded' \in Seq(Seq(CodePoints)) /\ RoundsRemoveNewWords' /\ RefutedHasWitness' /\ phase' # "search"
    BY <1>1, <1>5, FindWitnessSearch
  <2>2. QED BY <1>2, <1>4, <2>1 DEF SearchInv
<1>6. CASE ~FindWitness
  <2>1. excluded' = excluded
    BY <1>1, <1>6 DEF Next, vars, Compile, BeginSearch, Expand, Exhaust, Walk, Interrupt
  <2>2. excluded' \in Seq(Seq(CodePoints)) /\ RoundsRemoveNewWords' BY <1>1, <1>3, <2>1, SameRounds DEF SearchInv
  <2>3. phase' = "search" => Searching'
    <3>1. SUFFICES ASSUME phase' = "search" PROVE Searching' OBVIOUS
    <3>2. BeginSearch \/ Expand \/ UNCHANGED vars
      <4>1. ~(Compile \/ Exhaust \/ Walk \/ Interrupt)
        BY <3>1 DEF Compile, Exhaust, Walk, Interrupt, GiveUp, Answer, Go
      <4>2. QED BY <1>1, <1>6, <4>1 DEF Next
    <3>3. CASE BeginSearch BY <3>1, <3>3, BeginSearching
    <3>4. CASE Expand
      <4>1. Searching BY <1>1, <3>4 DEF SearchInv, Expand
      <4>2. alphabet \in Seq(CodePoints) BY <1>1, <4>1, AlphabetIs DEF SearchInv, Searching
      <4>3. QED BY <3>4, <4>1, <4>2, ExpandSearching
    <3>5. CASE UNCHANGED vars
      <4>1. /\ phase' = phase /\ alphabet' = alphabet /\ predecessor' = predecessor /\ queue' = queue
        BY <3>5 DEF vars
      <4>2. Searching BY <1>1, <3>1, <4>1 DEF SearchInv
      <4>3. /\ \A s, word : Reached(s, word)' <=> Reached(s, word)
            /\ \A s, x : Step(s, x)' = Step(s, x)
            /\ StartState' = StartState BY <1>3, <2>1, SameProduct
      <4>4. (\A s : Accepts(s)' <=> Accepts(s)) /\ Alphabet' = Alphabet BY <1>3, <2>1, SameLanguage
      <4>5. \A s : Settled(s)' <=> Settled(s) BY <4>1, <4>3, <4>4 DEF Settled
      <4>6. Explored' BY <4>1, <4>2, <4>3, <4>5 DEF Explored, Searching
      <4>7. \A s, W : Follows(s, W)' <=> Follows(s, W) BY <4>1 DEF Follows
      <4>8. \A W : Spells(W)' <=> Spells(W) BY <4>1, <4>3, <4>7 DEF Spells
      <4>9. QED BY <4>1, <4>2, <4>4, <4>6, <4>8 DEF Searching
    <3>6. QED BY <3>2, <3>3, <3>4, <3>5
  <2>4. RefutedHasWitness'
    <3>1. SUFFICES ASSUME answer' = "refuted" PROVE RefutedHasWitness' BY DEF RefutedHasWitness
    <3>2. UNCHANGED vars
      <4>1. ~(Exhaust \/ Walk \/ Interrupt)
        BY <3>1 DEF Exhaust, Walk, Interrupt, GiveUp, Answer
      <4>2. ASSUME Compile \/ BeginSearch \/ Expand PROVE FALSE
        <5>1. phase # "done" BY <4>2 DEF Compile, BeginSearch, Expand
        <5>2. answer = "pending" BY <1>1, <5>1 DEF SearchInv, Inv
        <5>3. answer' = answer \/ answer' = "unavailable"
          BY <4>2 DEF Compile, BeginSearch, Expand, GiveUp, Answer, Go
        <5>4. QED BY <3>1, <5>2, <5>3
      <4>3. QED BY <1>1, <1>6, <4>1, <4>2 DEF Next
    <3>3. answer' = answer /\ predecessor' = predecessor /\ queue' = queue BY <3>2 DEF vars
    <3>4. Witness' = Witness BY <3>3 DEF Witness
    <3>5. QED BY <1>1, <1>3, <3>3, <3>4, SameScopes DEF SearchInv, RefutedHasWitness
  <2>5. QED BY <1>2, <1>4, <2>2, <2>3, <2>4 DEF SearchInv
<1>7. QED BY <1>5, <1>6

\* So it holds throughout.
LEMMA SearchInductive == Spec => []SearchInv
BY InitSearch, NextSearch, PTL DEF Spec

\* A refuted narrowing has a witness: a path in normal form, of the grammar, that
\* the overlay's scope holds and no domain's does - found by the automata, true of
\* the reference definition (_Residual.search, _prove_scope_subset).
THEOREM RefutedWitness == Spec => []RefutedHasWitness
<1>1. SearchInv => RefutedHasWitness BY DEF SearchInv
<1>2. QED BY <1>1, SearchInductive, PTL

\* Every round of the refinement removes one more word: a path that widens, is not
\* in normal form and was not removed before (_exact_nfc_relative_emptiness).
THEOREM RoundsRemove == Spec => []RoundsRemoveNewWords
<1>1. SearchInv => RoundsRemoveNewWords BY DEF SearchInv
<1>2. QED BY <1>1, SearchInductive, PTL

-----------------------------------------------------------------------------
\* The scalars that are not searched with are like some that are.

\* No bound lies between two scalars.
Alike(x, y) == \A b \in Bounds : b <= x <=> b <= y

\* Every scalar is like one that is searched with.
LEMMA Represented ==
  ASSUME question \in Questions, excluded \in Seq(Seq(CodePoints)), NEW x \in CodePoints \ Surrogates
  PROVE  \E k \in DOMAIN Alphabet : Alphabet[k] \in CodePoints \ Surrogates /\ Alike(x, Alphabet[k])
<1> DEFINE S == {b \in Range(Alphabet) : b <= x}
<1>1. /\ Alphabet \in Seq(CodePoints) /\ Named \subseteq CodePoints
      /\ Range(Alphabet) = Bounds \ ({1114112} \cup Surrogates) BY AlphabetIs
<1>2. Range(Alphabet) \subseteq CodePoints BY <1>1, SMT DEF Range
<1>3. x \in Nat /\ x < 1114112 /\ \A y \in CodePoints : y \in Nat BY SMT DEF CodePoints
<1>11. x \in Nat /\ CodePoints \subseteq Nat BY SMT DEF CodePoints
<1>12. Range(Alphabet) \cap Surrogates = {} BY <1>1, SMT
<1>4. 0 \in S
  <2>1. 0 \in Bounds BY SMT DEF Bounds, Named
  <2>2. 0 # 1114112 /\ 0 \notin Surrogates /\ 0 <= x BY <1>3, SMT DEF Surrogates
  <2>3. QED BY <1>1, <2>1, <2>2, SMT
<1>5. PICK y \in S : \A b \in S : b <= y
  <2>1. S \subseteq Nat /\ S # {} /\ \A b \in S : b <= x BY <1>2, <1>4, <1>11
  <2> HIDE DEF S
  <2>2. QED BY <1>11, <2>1, GreatestOf
<1>6. PICK k \in DOMAIN Alphabet : Alphabet[k] = y BY DEF Range
<1>7. y \in CodePoints \ Surrogates /\ y \in Nat /\ y <= x BY <1>2, <1>11, <1>12
<1>8. \A b \in Bounds : b \in Nat
  <2>1. \A b \in Named : b \in Nat /\ b + 1 \in Nat BY <1>1, <1>3
  <2>2. {65, 91, 97, 123, 55296, 57344, 1114112} \subseteq Nat BY SMT
  <2>3. QED BY <2>1, <2>2, SMT DEF Bounds
<1>9. ASSUME NEW b \in Bounds PROVE b <= x <=> b <= y
  <2>1. b \in Nat BY <1>8
  <2>2. b <= y => b <= x BY <1>3, <1>7, <2>1, SMT
  <2>3. ASSUME b <= x PROVE b <= y
    <3>1. CASE b \in Surrogates
      <4>1. x >= 57344 /\ b <= 57343 BY <1>3, <2>1, <2>3, <3>1, SMT DEF Surrogates
      <4>2. 57344 \in Bounds BY SMT DEF Bounds
      <4>3. 57344 # 1114112 /\ 57344 \notin Surrogates BY SMT DEF Surrogates
      <4>4. 57344 <= x BY <1>3, <4>1, SMT
      <4>5. 57344 \in S BY <1>1, <4>2, <4>3, <4>4, SMT
      <4>6. 57344 <= y BY <1>5, <4>5
      <4>7. QED BY <1>7, <2>1, <4>1, <4>6, SMT
    <3>2. CASE b \notin Surrogates
      <4>1. b # 1114112 BY <1>3, <2>1, <2>3, SMT
      <4>2. b \in S BY <1>1, <2>3, <3>2, <4>1, SMT
      <4>3. QED BY <1>5, <4>2
    <3>3. QED BY <3>1, <3>2
  <2>4. QED BY <2>2, <2>3
<1>10. QED BY <1>6, <1>7, <1>9 DEF Alike

\* Like scalars are the same, or none that an edge names.
LEMMA AlikeAre ==
  ASSUME Named \subseteq CodePoints, NEW x \in CodePoints \ Surrogates, NEW y \in CodePoints \ Surrogates, Alike(x, y)
  PROVE  /\ x = y \/ (x \notin Named /\ y \notin Named)
         /\ x \in Letters <=> y \in Letters
<1>1. x \in Nat /\ y \in Nat /\ x < 1114112 /\ y < 1114112 BY SMT DEF CodePoints
<1>2. ASSUME NEW p \in Named PROVE x = p <=> y = p
  <2>1. p \in Bounds /\ p + 1 \in Bounds BY SMT DEF Bounds
  <2>2. (p <= x <=> p <= y) /\ (p + 1 <= x <=> p + 1 <= y) BY <2>1 DEF Alike
  <2>3. p \in Nat BY SMT DEF CodePoints
  <2>4. QED BY <1>1, <2>2, <2>3, SMT
<1>3. x \in Letters <=> y \in Letters
  <2>1. 65 \in Bounds /\ 91 \in Bounds /\ 97 \in Bounds /\ 123 \in Bounds BY SMT DEF Bounds
  <2>2. (65 <= x <=> 65 <= y) /\ (91 <= x <=> 91 <= y) /\ (97 <= x <=> 97 <= y) /\ (123 <= x <=> 123 <= y)
    BY <2>1 DEF Alike
  <2>3. QED BY <1>1, <2>2, SMT DEF Letters
<1>4. QED BY <1>2, <1>3

\* A scalar that no edge names.
Neutral(x) == x \in CodePoints \ Surrogates /\ x \notin Named

\* Such a scalar is none of those the universe looks for.
LEMMA NeutralIs ==
  ASSUME NEW x, Neutral(x)
  PROVE  IsScalar(x) /\ x \notin {0, Dot, Slash, Colon, Backslash, 103, 105, 116} /\ x \notin Surrogates
BY DEF Neutral, Named, IsScalar

\* It takes the edges of "*" and "?", like any other such scalar.
LEMMA EdgesNeutral ==
  ASSUME NEW d \in Automata, IsPattern(Pattern(d)), NEW q \in States(Pattern(d)),
         NEW x, Neutral(x), NEW y, Neutral(y)
  PROVE  Edges(Pattern(d), q, x) = Edges(Pattern(d), q, y)
<1> DEFINE pattern == Pattern(d)
<1>1. IsScalar(x) /\ IsScalar(y) /\ x # Slash /\ y # Slash /\ x \notin Literals /\ y \notin Literals
  BY NeutralIs DEF Neutral, Named
<1>2. pattern \in Seq(Seq(CodePoints)) /\ DOMAIN pattern = 1 .. Len(pattern) /\ Len(pattern) \in Nat BY DEF IsPattern
<1>3. \A j \in DOMAIN pattern : Range(pattern[j]) \ {Star, Query} \subseteq Literals
  <2>1. ASSUME NEW j \in DOMAIN Pattern(d), NEW z \in Range(Pattern(d)[j]), z \notin {Star, Query} PROVE z \in Literals
    <3> HIDE DEF pattern
    <3>1. z \in UNION {Range(Pattern(d)[i]) : i \in DOMAIN Pattern(d)} OBVIOUS
    <3>2. \E e \in Automata : z \in UNION {Range(Pattern(e)[i]) : i \in DOMAIN Pattern(e)} BY <3>1
    <3>3. QED BY <2>1, <3>2 DEF Literals
  <2>2. QED BY <2>1
<1> HIDE DEF pattern
<1>4. IsPattern(pattern) /\ q \in States(pattern) BY DEF pattern
<1>5. CASE \E i \in 0 .. Len(pattern), seen \in BOOLEAN : q = Boundary(i, seen)
  <2>1. PICK i \in 0 .. Len(pattern), seen \in BOOLEAN : q = Boundary(i, seen) BY <1>5
  <2>2. \A z : z # Slash => Edges(pattern, q, z) = {} BY <1>4, <2>1, BoundaryEdges
  <2>3. QED BY <1>1, <2>2 DEF pattern
<1>6. CASE \E i \in 0 .. Len(pattern) - 1, seen \in BOOLEAN, consumed \in BOOLEAN :
             \E p \in 0 .. Len(Tokens(pattern[i + 1])) : q = <<i, seen, p, consumed>>
  <2>1. PICK i \in 0 .. Len(pattern) - 1, seen \in BOOLEAN, consumed \in BOOLEAN :
          \E p \in 0 .. Len(Tokens(pattern[i + 1])) : q = <<i, seen, p, consumed>> BY <1>6
  <2> DEFINE tokens == Tokens(pattern[i + 1])   n == Len(tokens)
  <2>2. PICK p \in 0 .. n : q = <<i, seen, p, consumed>> BY <2>1
  <2>3. i + 1 \in DOMAIN pattern BY <1>2
  <2>4. /\ tokens \in Seq(CodePoints) /\ n \in Nat \ {0}
        /\ pattern[i + 1] = Doubled => tokens = <<Star>>
        /\ pattern[i + 1] # Doubled => tokens = pattern[i + 1] BY <1>4, <2>3, TokensFacts
  <2>5. p \in Nat BY <2>4
  <2> DEFINE edges(z) ==
               IF p = n THEN {}
               ELSE IF tokens[p + 1] = Star THEN IF IsScalar(z) THEN {<<i, seen, p, TRUE>>} ELSE {}
               ELSE IF \/ tokens[p + 1] = Query /\ IsScalar(z)
                       \/ tokens[p + 1] # Query /\ z = tokens[p + 1]
                    THEN {<<i, seen, p + 1, TRUE>>} ELSE {}
  <2>6. \A z : Edges(pattern, <<i, seen, p, consumed>>, z) = edges(z) BY <2>5, TokenEdges, Zenon
  <2>7. p = n \/ tokens[p + 1] \in {Star, Query} \/ tokens[p + 1] \in Literals
    <3>1. SUFFICES ASSUME p # n PROVE tokens[p + 1] \in {Star, Query} \/ tokens[p + 1] \in Literals OBVIOUS
    <3>2. p + 1 \in 1 .. n BY <2>4, <3>1
    <3>3. CASE pattern[i + 1] = Doubled
      <4>1. tokens = <<Star>> BY <2>4, <3>3
      <4>2. n = 1 /\ p + 1 = 1 BY <3>2, <4>1
      <4>3. tokens[1] = Star BY <4>1
      <4> HIDE DEF tokens, n
      <4>4. QED BY <4>2, <4>3
    <3>4. CASE pattern[i + 1] # Doubled
      <4>1. tokens = pattern[i + 1] BY <2>4, <3>4
      <4> HIDE DEF tokens
      <4>2. tokens[p + 1] \in Range(tokens) BY <2>4, <3>2 DEF Range
      <4>3. QED BY <1>3, <2>3, <4>1, <4>2
    <3>5. QED BY <3>3, <3>4
  <2> HIDE DEF tokens, n
  <2>8. edges(x) = edges(y) BY <1>1, <2>7
  <2> HIDE DEF edges
  <2>9. Edges(pattern, q, x) = Edges(pattern, q, y) BY <2>2, <2>6, <2>8
  <2>10. QED BY <2>9 DEF pattern
<1>7. QED BY <1>4, <1>5, <1>6, StatesAre DEF pattern

\* The universe asks of it only whether it is a letter.
LEMMA UniverseNeutral ==
  ASSUME NEW u, NEW A, u.component \in Seq(A), NEW x, Neutral(x), NEW y, Neutral(y), x \in Letters <=> y \in Letters
  PROVE  UniverseStep(u, x) = UniverseStep(u, y)
<1>1. \A r \in Reserved : \A k \in 1 .. Len(r) : r[k] \in {Dot, 103, 105, 116} BY DEF Reserved
<1>2. ASSUME NEW z, Neutral(z) PROVE Reach(u, z) = OtherComponent
  <2> DEFINE candidate == Append(u.component, z)   n == Len(u.component) + 1
  <2>1. n \in Nat \ {0} /\ Len(candidate) = n /\ candidate[n] = z OBVIOUS
  <2>2. ASSUME NEW r \in Reserved, Len(candidate) <= Len(r), SubSeq(r, 1, Len(candidate)) = candidate PROVE FALSE
    <3>1. r \in Seq(Nat) BY ReservedAre
    <3>2. n \in 1 .. Len(r) /\ n \in 1 .. n BY <2>1, <2>2, <3>1
    <3> HIDE DEF candidate, n
    <3>3. SubSeq(r, 1, n)[n] = r[n] BY <3>1, <3>2
    <3>4. z \in {Dot, 103, 105, 116} BY <1>1, <2>1, <2>2, <3>2, <3>3
    <3>5. QED BY <1>2, <3>4, NeutralIs
  <2>3. z # Slash BY <1>2, NeutralIs
  <2>4. QED BY <2>2, <2>3 DEF Reach
<1>3. Reach(u, x) = Reach(u, y) BY <1>2
<1>4. /\ x \notin {0, Backslash} /\ x \notin Surrogates /\ x # Colon /\ x # Slash
      /\ y \notin {0, Backslash} /\ y \notin Surrogates /\ y # Colon /\ y # Slash BY NeutralIs
<1>5. QED BY <1>3, <1>4 DEF UniverseStep

\* A product state whose automata are in states of theirs.
Sound(s) ==
  /\ s.universe.component \in Seq(CodePoints)
  /\ \A d \in Automata : s.at[d] \in SUBSET States(Pattern(d))

\* Scalars that no edge names lead to the same product state.
LEMMA StepNeutral ==
  ASSUME \A d \in Automata : IsPattern(Pattern(d)), NEW s, Sound(s),
         NEW x, Neutral(x), NEW y, Neutral(y), x \in Letters <=> y \in Letters
  PROVE  Step(s, x) = Step(s, y)
<1>1. UniverseStep(s.universe, x) = UniverseStep(s.universe, y) BY UniverseNeutral DEF Sound
<1>2. ASSUME NEW d \in Automata PROVE DfaStep(Pattern(d), s.at[d], x) = DfaStep(Pattern(d), s.at[d], y)
  <2>1. \A q \in s.at[d] : Edges(Pattern(d), q, x) = Edges(Pattern(d), q, y)
    <3>1. \A q \in s.at[d] : q \in States(Pattern(d)) BY DEF Sound
    <3>2. QED BY <3>1, EdgesNeutral
  <2>2. UNION {Edges(Pattern(d), q, x) : q \in s.at[d]} = UNION {Edges(Pattern(d), q, y) : q \in s.at[d]} BY <2>1
  <2>3. QED BY <2>2 DEF DfaStep
<1>3. ASSUME NEW i \in DOMAIN excluded
      PROVE Matched(excluded[i], s.matched[i], x) = Matched(excluded[i], s.matched[i], y)
  <2>1. ASSUME NEW z, Neutral(z), NEW m PROVE Matched(excluded[i], m, z) = -1
    <3>1. SUFFICES ASSUME m \in 0 .. Len(excluded[i]) - 1, excluded[i][m + 1] = z PROVE FALSE BY DEF Matched
    <3>2. z \in Range(excluded[i])
      <4>1. m + 1 \in DOMAIN excluded[i] BY <3>1
      <4>2. QED BY <3>1, <4>1 DEF Range
    <3>3. z \in Named BY <3>2 DEF Named
    <3>4. QED BY <2>1, <3>3 DEF Neutral
  <2>2. QED BY <2>1
<1>4. QED BY <1>1, <1>2, <1>3 DEF Step

\* The scalars searched with lead wherever any scalar does.
LEMMA StepRepresented ==
  ASSUME question \in Questions, excluded \in Seq(Seq(CodePoints)), \A d \in Automata : IsPattern(Pattern(d)),
         NEW s, Sound(s), NEW x \in CodePoints \ Surrogates
  PROVE  \E k \in DOMAIN Alphabet : Step(s, Alphabet[k]) = Step(s, x)
<1>1. PICK k \in DOMAIN Alphabet : Alphabet[k] \in CodePoints \ Surrogates /\ Alike(x, Alphabet[k]) BY Represented
<1>2. Named \subseteq CodePoints BY AlphabetIs
<1> DEFINE y == Alphabet[k]
<1>3. y \in CodePoints \ Surrogates /\ Alike(x, y) BY <1>1
<1> HIDE DEF y
<1>4. (x = y \/ (x \notin Named /\ y \notin Named)) /\ (x \in Letters <=> y \in Letters) BY <1>2, <1>3, AlikeAre
<1>5. Step(s, y) = Step(s, x)
  <2>1. CASE x = y BY <2>1
  <2>2. CASE x \notin Named /\ y \notin Named
    <3>1. Neutral(x) /\ Neutral(y) BY <1>3, <2>2 DEF Neutral
    <3>2. QED BY <1>4, <3>1, StepNeutral
  <2>3. QED BY <1>4, <2>1, <2>2
<1>6. QED BY <1>5 DEF y

-----------------------------------------------------------------------------
\* An exhausted search.

\* The beginnings of a path are lawful.
LEMMA PathIsLawful ==
  ASSUME NEW word \in Seq(CodePoints), IsPath(word), NEW k \in 0 .. Len(word) PROVE Lawful(word, k)
<1>1. Len(word) \in Nat /\ k \in Nat /\ k <= Len(word) OBVIOUS
<1>2. k <= MaxLength BY <1>1, LengthAssumption DEF IsPath
<1>3. \A i \in 1 .. k : word[i] = Slash \/ IsScalar(word[i])
  <2>1. \A i \in 1 .. k : i \in DOMAIN word BY <1>1
  <2>2. QED BY <2>1 DEF IsPath
<1>4. ~ (k > 1 /\ word[1] \in Letters /\ word[2] = Colon)
  <2>1. k > 1 => Len(word) > 1 BY <1>1
  <2>2. QED BY <2>1 DEF IsPath
<1>5. \A j \in 1 .. Row(word, k) - 1 : Segments(word)[j] \notin Reserved
  <2> DEFINE path == Segments(word)
  <2>1. path \in Seq(Seq(CodePoints)) /\ Row(word, k) \in 1 .. Len(path) BY PlaceAre
  <2>2. Range(path) \cap Reserved = {} BY DEF IsPath
  <2> HIDE DEF path
  <2>3. \A j \in 1 .. Row(word, k) - 1 : j \in DOMAIN path BY <2>1
  <2>4. \A j \in 1 .. Row(word, k) - 1 : path[j] \notin Reserved BY <2>2, <2>3 DEF Range
  <2>5. QED BY <2>4 DEF path
<1>6. QED BY <1>2, <1>3, <1>4, <1>5 DEF Lawful

\* An automaton without a state gets none again.
LEMMA EmptyStays == ASSUME NEW pattern, IsPattern(pattern), NEW x PROVE DfaStep(pattern, {}, x) = {}
<1>1. Closure(pattern, {}) \subseteq {}
  <2> DEFINE z == {}
  <2>1. z \in SUBSET States(pattern) /\ z \subseteq z /\ Closed(pattern, z) BY DEF Closed
  <2> HIDE DEF z
  <2>2. Closure(pattern, z) \subseteq z BY <2>1, ClosureFacts
  <2>3. QED BY <2>2 DEF z
<1>2. UNION {Edges(pattern, s, x) : s \in {}} = {} OBVIOUS
<1>3. QED BY <1>1, <1>2 DEF DfaStep

\* No path that widens escapes an exhausted search, unless it was removed.
LEMMA ExhaustedIsIncluded ==
  ASSUME question \in Questions, Admitted, excluded \in Seq(Seq(CodePoints)), alphabet = Alphabet,
         StartState \in DOMAIN predecessor, \A s \in DOMAIN predecessor : Settled(s),
         NEW word \in Seq(CodePoints), IsPath(word), Widens(Segments(word)),
         \A i \in DOMAIN excluded : excluded[i] # word
  PROVE  FALSE
<1> DEFINE n == Len(word)   R == WalkAt(word)   D == DOMAIN predecessor
           matched(k) == [i \in DOMAIN excluded |-> MatchedAfter(excluded[i], word, k)]
           states == [k \in 0 .. n |-> [universe |-> UniverseAfter(word, k), at |-> R[k], matched |-> matched(k)]]
<1>1. n \in Nat /\ n \in 0 .. n /\ 0 \in 0 .. n OBVIOUS
<1>2. \A d \in Automata : IsPattern(Pattern(d)) BY AdmittedArePatterns
<1>3. \A k \in 0 .. n : Lawful(word, k) BY PathIsLawful
<1>4. /\ R[0] = StartState.at
      /\ \A k \in 1 .. n : R[k] = [d \in Automata |-> DfaStep(Pattern(d), R[k - 1][d], word[k])]
  BY <1>2, WalkAtSteps
<1>5. \A k \in 1 .. n : k \in 0 .. n /\ k - 1 \in 0 .. n BY <1>1
<1>6. \A k \in 0 .. n : /\ states[k].universe = UniverseAfter(word, k)
                        /\ states[k].at = R[k] /\ states[k].matched = matched(k) OBVIOUS
<1>7. states[0] = StartState
  <2>1. UniverseAfter(word, 0) = UniverseStart BY UniverseAtStart
  <2>2. matched(0) = [i \in DOMAIN excluded |-> 0]
    <3>1. \A i \in DOMAIN excluded : excluded[i] \in Seq(CodePoints) OBVIOUS
    <3>2. \A e \in Seq(CodePoints) : MatchedAfter(e, word, 0) = 0
      <4>1. \A e \in Seq(CodePoints) : Len(e) \in Nat OBVIOUS
      <4>2. QED BY <4>1 DEF MatchedAfter
    <3>3. QED BY <3>1, <3>2
  <2>3. states[0] = [universe |-> UniverseAfter(word, 0), at |-> R[0], matched |-> matched(0)] BY <1>1
  <2> HIDE DEF states, R, matched
  <2>4. QED BY <1>4, <2>1, <2>2, <2>3 DEF StartState
<1>8. \A k \in 0 .. n : states[k] \in {[universe |-> u, at |-> R[k], matched |-> matched(k)] : u \in {UniverseAfter(word, k)}}
  OBVIOUS
<1> HIDE DEF states, R
<1>9. \A k \in 0 .. n, d \in Automata : R[k][d] \in SUBSET States(Pattern(d))
  <2>1. SUFFICES ASSUME NEW d \in Automata PROVE \A k \in 0 .. n : R[k][d] \in SUBSET States(Pattern(d)) OBVIOUS
  <2> DEFINE S == {k \in 0 .. n : R[k][d] \in SUBSET States(Pattern(d))}
  <2>2. 0 \in S
    <3>1. R[0][d] = DfaStart(Pattern(d)) BY <1>4 DEF StartState
    <3>2. QED BY <1>1, <1>2, <3>1, StartFacts
  <2>3. ASSUME NEW k \in 1 .. n, k - 1 \in S PROVE k \in S
    <3>1. R[k] = [e \in Automata |-> DfaStep(Pattern(e), R[k - 1][e], word[k])] BY <1>4
    <3>2. R[k][d] = DfaStep(Pattern(d), R[k - 1][d], word[k]) BY <3>1
    <3>3. R[k - 1][d] \in SUBSET States(Pattern(d)) BY <2>3
    <3>4. QED BY <1>2, <1>5, <3>2, <3>3, StepFacts
  <2> HIDE DEF S
  <2>4. \A k \in 0 .. n : k \in S BY <1>1, <2>2, <2>3, UpTo
  <2>5. QED BY <2>4 DEF S
<1>10. \A d \in Automata : DfaAccepts(Pattern(d), R[n][d]) <=> Matches(Pattern(d), Segments(word))
  <2>1. SUFFICES ASSUME NEW d \in Automata
                 PROVE DfaAccepts(Pattern(d), R[n][d]) <=> Matches(Pattern(d), Segments(word)) OBVIOUS
  <2> DEFINE run == [k \in 0 .. n |-> R[k][d]]
  <2>2. IsRun(Pattern(d), word, run) /\ run[n] = R[n][d] BY <1>2, WalkAtIs DEF R
  <2>3. IsWord(word) BY PathIsWord
  <2> HIDE DEF run
  <2>4. QED BY <1>2, <2>2, <2>3, AutomatonIsExact
<1>11. Covers(R[n], 1)
  <2>1. question.scopes \in Seq(Range(question.scopes)) /\ question.scopes # << >> BY QuestionsAssumption
  <2>2. Len(question.scopes) >= 1 /\ DOMAIN question.scopes = 1 .. Len(question.scopes) /\ Len(question.scopes) \in Nat BY <2>1
  <2>3. 1 \in DOMAIN question.scopes BY <2>2
  <2>4. InScope(Segments(word), 1) BY DEF Widens
  <2>5. QED BY <1>10, <2>3, <2>4, CoversIs
<1>12. PICK d \in Automata : d[1] = 1 /\ d[2] = "include" /\ DfaAccepts(Pattern(d), R[n][d]) BY <1>11 DEF Covers
<1>13. \A k \in 0 .. n : ~Hopeless(R[k])
  <2> DEFINE S == {k \in 0 .. n : R[k][d] # {}}
  <2>1. n \in S BY <1>1, <1>12 DEF DfaAccepts
  <2>2. ASSUME NEW k \in 0 .. n - 1, k + 1 \in S PROVE k \in S
    <3>1. k + 1 \in 1 .. n /\ (k + 1) - 1 = k /\ k \in 0 .. n BY <1>1
    <3>2. R[k + 1] = [e \in Automata |-> DfaStep(Pattern(e), R[k][e], word[k + 1])] BY <1>4, <3>1
    <3>3. R[k + 1][d] = DfaStep(Pattern(d), R[k][d], word[k + 1]) BY <3>2
    <3>4. QED BY <1>2, <2>2, <3>1, <3>3, EmptyStays
  <2> HIDE DEF S
  <2>3. \A k \in 0 .. n : k \in S BY <1>1, <2>1, <2>2, DownTo
  <2>4. QED BY <1>12, <2>3 DEF S, Hopeless
<1>14. ASSUME NEW k \in 1 .. n PROVE states[k] \in Step(states[k - 1], word[k])
  <2>1. UniverseStep(UniverseAfter(word, k - 1), word[k]) = {UniverseAfter(word, k)}
    <3>1. Lawful(word, k - 1) /\ Lawful(word, k) BY <1>3, <1>5
    <3>2. QED BY <3>1, UniverseSteps
  <2>2. R[k] = [e \in Automata |-> DfaStep(Pattern(e), R[k - 1][e], word[k])] BY <1>4
  <2>3. matched(k) = [i \in DOMAIN excluded |-> Matched(excluded[i], matched(k - 1)[i], word[k])]
    <3>1. ASSUME NEW i \in DOMAIN excluded
          PROVE MatchedAfter(excluded[i], word, k) = Matched(excluded[i], MatchedAfter(excluded[i], word, k - 1), word[k])
      <4> DEFINE e == excluded[i]
      <4>1. e \in Seq(CodePoints) /\ k \in Nat \ {0} BY <1>1
      <4> HIDE DEF e
      <4>2. Matched(e, MatchedAfter(e, word, k - 1), word[k]) = MatchedAfter(e, word, k) BY <4>1, MatchedSteps
      <4>3. QED BY <4>2 DEF e
    <3>2. QED BY <3>1
  <2> DEFINE s == states[k - 1]   x == word[k]
  <2>4. s.universe = UniverseAfter(word, k - 1) /\ s.at = R[k - 1] /\ s.matched = matched(k - 1) BY <1>5, <1>6
  <2> HIDE DEF s, matched
  <2>5. states[k] \in {[universe |-> u,
           at       |-> [e \in Automata |-> DfaStep(Pattern(e), s.at[e], x)],
           matched  |-> [i \in DOMAIN excluded |-> Matched(excluded[i], s.matched[i], x)]] :
             u \in UniverseStep(s.universe, x)} BY <1>5, <1>8, <2>1, <2>2, <2>3, <2>4
  <2>6. ~Hopeless(states[k].at) BY <1>5, <1>6, <1>13
  <2>7. states[k] \in Step(s, x) BY <2>5, <2>6 DEF Step
  <2>8. QED BY <2>7 DEF s
<1> HIDE DEF matched
<1>15. Accepts(states[n])
  <2>1. IsProductRun(word, states) BY <1>7, <1>14 DEF IsProductRun
  <2>2. Reached(states[n], word) BY <2>1 DEF Reached
  <2>3. QED BY <1>2, <2>2, AcceptsIs
<1>16. ASSUME NEW k \in 0 .. n PROVE Sound(states[k])
  <2>1. states[k].at = R[k] /\ states[k].universe = UniverseAfter(word, k) BY <1>6
  <2>2. states[k].universe.component = Remembered(Cut(word)[k][Row(word, k)]) BY <2>1 DEF UniverseAfter
  <2>3. Cut(word)[k][Row(word, k)] \in Seq(CodePoints)
    <3>1. Cut(word)[k] \in Seq(Seq(CodePoints)) \ {<< >>} BY PlaceAre
    <3> DEFINE T == Cut(word)[k]
    <3> HIDE DEF T
    <3>2. T[Len(T)] \in Seq(CodePoints) BY <3>1 DEF T
    <3>3. QED BY <3>2 DEF T, Row
  <2>4. OtherComponent \in Seq(CodePoints) BY CodePointsAre DEF OtherComponent
  <2>5. QED BY <1>9, <2>1, <2>2, <2>3, <2>4 DEF Sound, Remembered
<1>17. \A k \in 0 .. n : states[k] \in D
  <2> DEFINE S == {k \in 0 .. n : states[k] \in D}
  <2>1. 0 \in S BY <1>1, <1>7
  <2>2. ASSUME NEW k \in 1 .. n, k - 1 \in S PROVE k \in S
    <3>1. word[k] \in CodePoints \ Surrogates
      <4>1. Slash \notin Surrogates /\ Slash \in CodePoints BY SMT DEF Slash, Surrogates, CodePoints
      <4>2. k \in DOMAIN word /\ word[k] \in CodePoints OBVIOUS
      <4>3. word[k] = Slash \/ IsScalar(word[k]) BY <4>2 DEF IsPath
      <4>4. QED BY <4>1, <4>2, <4>3 DEF IsScalar
    <3>2. Sound(states[k - 1]) BY <1>5, <1>16
    <3>3. PICK j \in DOMAIN Alphabet : Step(states[k - 1], Alphabet[j]) = Step(states[k - 1], word[k])
      BY <1>2, <3>1, <3>2, StepRepresented
    <3>4. Step(states[k - 1], alphabet[j]) \subseteq D BY <2>2, <3>3 DEF Settled
    <3>5. states[k] \in D BY <1>14, <3>3, <3>4
    <3>6. QED BY <1>5, <3>5
  <2> HIDE DEF S
  <2>3. \A k \in 0 .. n : k \in S BY <1>1, <2>1, <2>2, UpTo
  <2>4. QED BY <2>3 DEF S
<1>18. ~Accepts(states[n]) BY <1>1, <1>17 DEF Settled
<1>19. QED BY <1>15, <1>18

\* Every path, over all of Unicode, is included.
Included == \A word \in Seq(CodePoints) : IsPath(word) /\ Nfc(word) => ~Widens(Segments(word))

\* The queue is empty: every product state is settled.
LEMMA ExhaustIncludes == ASSUME SearchInv, Exhaust PROVE Included
<1>1. phase = "search" /\ queue = << >> BY DEF Exhaust
<1>2. /\ question \in Questions /\ Admitted /\ excluded \in Seq(Seq(CodePoints)) /\ Searching /\ RoundsRemoveNewWords
  BY <1>1 DEF SearchInv, Inv
<1>3. alphabet = Alphabet /\ StartState \in DOMAIN predecessor /\ \A s \in DOMAIN predecessor : Settled(s)
  <2>1. Range(queue) = {} BY <1>1 DEF Range
  <2>2. QED BY <1>2, <2>1 DEF Searching, Explored
<1>4. SUFFICES ASSUME NEW word \in Seq(CodePoints), IsPath(word), Nfc(word), Widens(Segments(word)) PROVE FALSE
  BY DEF Included
<1>5. \A i \in DOMAIN excluded : excluded[i] # word BY <1>2, <1>4 DEF RoundsRemoveNewWords
<1>6. QED BY <1>2, <1>3, <1>4, <1>5, ExhaustedIsIncluded

\* A proof covers all paths.
ProvenInv == SearchInv /\ (answer = "proven" => Included)

\* Nothing is proven at first.
LEMMA InitProven == Init => ProvenInv
BY InitSearch DEF Init, ProvenInv

\* Only an exhausted search proves.
LEMMA NextProven == ProvenInv /\ [Next]_vars => ProvenInv'
<1>1. SUFFICES ASSUME ProvenInv, [Next]_vars PROVE ProvenInv' OBVIOUS
<1>2. SearchInv /\ SearchInv' BY <1>1, NextSearch DEF ProvenInv
<1>3. question' = question
  BY <1>1 DEF Next, vars, Compile, BeginSearch, Expand, FindWitness, Exhaust, Walk, Interrupt
<1>4. answer' = "proven" => Included
  <2>1. CASE Exhaust BY <1>2, <2>1, ExhaustIncludes
  <2>2. CASE ~Exhaust
    <3>1. answer' = answer \/ answer' \in {"unavailable", "refuted", "inside", "outside"}
      BY <1>1, <2>2 DEF Next, vars, Compile, BeginSearch, Expand, FindWitness, Walk, Interrupt, GiveUp, Go, Answer
    <3>2. QED BY <1>1, <3>1 DEF ProvenInv
  <2>3. QED BY <2>1, <2>2
<1>5. Included' <=> Included
  <2>1. \A p : Widens(p)' <=> Widens(p) BY <1>3, SameScopes
  <2>2. QED BY <2>1 DEF Included
<1>6. QED BY <1>2, <1>4, <1>5 DEF ProvenInv

\* The sample of a run is among the paths.
LEMMA SamplesAreWords == Included => \A p \in SamplePaths : ~Widens(p)
<1>1. SUFFICES ASSUME Included, NEW p \in SamplePaths PROVE ~Widens(p) OBVIOUS
<1>2. PICK n \in 1 .. MaxLength : \E w \in [1 .. n -> Sample \cup {Slash}] : IsPath(w) /\ Nfc(w) /\ p = Segments(w)
  BY DEF SamplePaths
<1>3. PICK w \in [1 .. n -> Sample \cup {Slash}] : IsPath(w) /\ Nfc(w) /\ p = Segments(w) BY <1>2
<1>4. w \in Seq(CodePoints)
  <2>1. Sample \cup {Slash} \subseteq CodePoints BY SampleAssumption, CodePointsAre
  <2>2. w \in [1 .. n -> CodePoints] /\ n \in Nat BY <1>3, <2>1, LengthAssumption
  <2>3. QED BY <2>2
<1>5. QED BY <1>1, <1>3, <1>4 DEF Included

\* "proven" is said of all of Unicode: no path in normal form, of any length
\* allowed, is in the overlay's scope and outside the domains', though the search
\* tries one scalar per interval only (_exact_nfc_relative_emptiness,
\* _Residual.search, _scalar_partition), whatever scalars the patterns name and
\* whatever words the normal forms admit.
THEOREM ProvenIsForAllPaths == Spec => [](answer = "proven" => Included)
<1>1. ProvenInv => (answer = "proven" => Included) BY DEF ProvenInv
<1>2. QED BY <1>1, InitProven, NextProven, PTL DEF Spec

\* So no path of a run's sample widens a scope that was proven to narrow
\* (_prove_scope_subset).
THEOREM ProvenIncluded == Spec => []ProvenIsIncluded
<1>1. (answer = "proven" => Included) => ProvenIsIncluded BY SamplesAreWords DEF ProvenIsIncluded
<1>2. QED BY <1>1, ProvenIsForAllPaths, PTL

-----------------------------------------------------------------------------
\* Types.

\* What a compiled pattern is charged for.
LEMMA NfaStatesIs == ASSUME NEW pattern, IsPattern(pattern) PROVE NfaStates(pattern) \in Nat
<1> DEFINE n == Len(pattern)   size(i) == 3 * FragmentStates(pattern[i]) + 2
           R == CHOOSE upTo : upTo = [i \in 0 .. n |-> IF i = 0 THEN 2 ELSE upTo[i - 1] + 3 * FragmentStates(pattern[i]) + 2]
           whole(i, v) == IF i = 0 THEN 2 ELSE v + 3 * FragmentStates(pattern[i]) + 2
           step == [i \in 1 .. n |-> [v \in Nat |-> whole(i, v)]]
<1>1. n \in Nat /\ DOMAIN pattern = 1 .. n BY DEF IsPattern
<1>2. ASSUME NEW i \in 1 .. n PROVE FragmentStates(pattern[i]) \in Nat
  <2>1. Len(Tokens(pattern[i])) \in Nat BY <1>1, TokensFacts
  <2>2. QED BY <2>1 DEF FragmentStates
<1>3. \A i \in 1 .. n, v \in Nat : whole(i, v) \in Nat BY <1>2
<1>4. step \in [1 .. n -> [Nat -> Nat]] BY <1>3
<1>5. NfaStates(pattern) = R[n] BY DEF NfaStates
<1>6. R = CHOOSE upTo : upTo = [i \in 0 .. n |-> whole(i, upTo[i - 1])] OBVIOUS
<1> HIDE DEF R, n
<1>7. PICK f : Forwards(f, n, Nat, 2, step)
  <2> HIDE DEF step
  <2>1. QED BY <1>1, <1>4, Iterated
<1>8. f \in [0 .. n -> Nat] /\ f[0] = 2 /\ \A i \in 1 .. n : f[i] = step[i][f[i - 1]] BY <1>7 DEF Forwards
<1>9. \A i \in 0 .. n : f[i] = whole(i, f[i - 1])
  <2>1. SUFFICES ASSUME NEW i \in 0 .. n PROVE f[i] = whole(i, f[i - 1]) OBVIOUS
  <2>2. CASE i = 0 BY <1>8, <2>2
  <2>3. CASE i # 0
    <3>1. i \in 1 .. n /\ i - 1 \in 0 .. n BY <1>1, <2>3
    <3>2. f[i - 1] \in Nat BY <1>8, <3>1
    <3> HIDE DEF whole
    <3>3. step[i][f[i - 1]] = whole(i, f[i - 1]) BY <3>1, <3>2
    <3>4. QED BY <1>8, <3>1, <3>3
  <2>4. QED BY <2>2, <2>3
<1> HIDE DEF whole, step
<1>10. f = [i \in 0 .. n |-> whole(i, f[i - 1])]
  <2>1. f = [i \in 0 .. n |-> f[i]] BY <1>8
  <2>2. QED BY <1>9, <2>1
<1>11. R = [i \in 0 .. n |-> whole(i, R[i - 1])] BY <1>6, <1>10
<1>12. \A i \in 0 .. n : R[i] = whole(i, R[i - 1])
  <2> DEFINE b(i) == whole(i, R[i - 1])
  <2>1. R = [i \in 0 .. n |-> b(i)] BY <1>11
  <2> HIDE DEF b
  <2>2. \A i \in 0 .. n : R[i] = b(i) BY <2>1
  <2>3. QED BY <2>2 DEF b
<1> DEFINE S == {i \in 0 .. n : R[i] \in Nat}
<1>13. 0 \in S
  <2>1. 0 \in 0 .. n BY <1>1
  <2>2. QED BY <1>12, <2>1 DEF whole
<1>14. ASSUME NEW i \in 1 .. n, i - 1 \in S PROVE i \in S
  <2>1. i \in 0 .. n /\ R[i - 1] \in Nat BY <1>1, <1>14
  <2>2. whole(i, R[i - 1]) \in Nat BY <1>3, <2>1
  <2>3. QED BY <1>12, <2>1, <2>2
<1> HIDE DEF S
<1>15. \A i \in 0 .. n : i \in S BY <1>1, <1>13, <1>14, UpTo
<1>16. n \in S BY <1>1, <1>15
<1>17. QED BY <1>5, <1>16 DEF S

\* There are finitely many automata.
LEMMA AutomataFinite == ASSUME question \in Questions PROVE IsFiniteSet(Automata)
<1> DEFINE sides == {"include", "exclude"}
           of(k, side) == {<<k, side, j>> : j \in DOMAIN Scope(k)[side]}
           K == DOMAIN question.scopes
<1>1. question.scopes \in Seq(Range(question.scopes)) BY QuestionsAssumption
<1>2. IsFiniteSet(K)
  <2>1. K = 1 .. Len(question.scopes) /\ Len(question.scopes) \in Nat BY <1>1
  <2>2. QED BY <2>1, FS_Interval
<1>3. ASSUME NEW k \in K, NEW side \in sides PROVE IsFiniteSet(of(k, side))
  <2> DEFINE T == Scope(k)[side]
  <2>1. Scope(k) \in Range(question.scopes) BY DEF Scope, Range
  <2>2. T \in Seq(Range(T)) BY <2>1, QuestionsAssumption
  <2> HIDE DEF T
  <2>3. DOMAIN T = 1 .. Len(T) /\ Len(T) \in Nat BY <2>2
  <2>4. IsFiniteSet(DOMAIN T) BY <2>3, FS_Interval
  <2>5. IsFiniteSet({<<k, side, j>> : j \in DOMAIN T})
    <3> DEFINE f == [j \in DOMAIN T |-> <<k, side, j>>]
    <3>1. IsFiniteSet({f[j] : j \in DOMAIN T})
      <4>1. DOMAIN f = DOMAIN T OBVIOUS
      <4> HIDE DEF f
      <4>2. QED BY <2>4, <4>1, ImageFinite
    <3>2. {f[j] : j \in DOMAIN T} = {<<k, side, j>> : j \in DOMAIN T} OBVIOUS
    <3>3. QED BY <3>1, <3>2
  <2>6. QED BY <2>5 DEF T
<1> DEFINE pairs == {of(k, "include") : k \in K} \cup {of(k, "exclude") : k \in K}
<1>4. Automata = UNION pairs
  <2>1. Automata = UNION {of(k, side) : k \in K, side \in sides} BY DEF Automata
  <2> HIDE DEF of, K
  <2>2. {of(k, side) : k \in K, side \in sides} = pairs OBVIOUS
  <2>3. QED BY <2>1, <2>2
<1>5. IsFiniteSet(pairs)
  <2> DEFINE f == [k \in K |-> of(k, "include")]   g == [k \in K |-> of(k, "exclude")]
  <2>1. IsFiniteSet({f[k] : k \in K}) /\ IsFiniteSet({g[k] : k \in K})
    <3>1. DOMAIN f = K /\ DOMAIN g = K OBVIOUS
    <3> HIDE DEF f, g, K
    <3>2. QED BY <1>2, <3>1, ImageFinite
  <2>2. {f[k] : k \in K} = {of(k, "include") : k \in K} /\ {g[k] : k \in K} = {of(k, "exclude") : k \in K} OBVIOUS
  <2>3. QED BY <2>1, <2>2, FS_Union
<1>6. \A P \in pairs : IsFiniteSet(P) BY <1>3
<1> HIDE DEF pairs
<1>7. QED BY <1>4, <1>5, <1>6, FS_UNION

\* The charge of a compilation is a number.
LEMMA ChargeIs ==
  ASSUME question \in Questions, \A d \in Automata : IsPattern(Pattern(d))
  PROVE  MapThenSumSet(LAMBDA d : NfaStates(Pattern(d)), Automata) \in Nat
<1> DEFINE X == Automata   size(d) == NfaStates(Pattern(d))   first(T) == CHOOSE x \in T : TRUE
           whole(T, F) == IF T = {} THEN 0 ELSE size(first(T)) + F[T \ {first(T)}]
           R == CHOOSE iter : iter = [T \in SUBSET X |-> whole(T, iter)]
           Small(k) == {T \in SUBSET X : Cardinality(T) <= k}
           Good(k) == \E f \in [Small(k) -> Nat] : \A T \in Small(k) : f[T] = whole(T, f)
<1>1. MapThenSumSet(LAMBDA d : NfaStates(Pattern(d)), Automata) = R[X] BY DEF MapThenSumSet, MapThenFoldSet
<1>2. IsFiniteSet(X) BY AutomataFinite
<1>3. \A d \in X : size(d) \in Nat BY NfaStatesIs
<1> HIDE DEF X, size, R
<1>4. \A T \in SUBSET X : T # {} => first(T) \in T OBVIOUS
<1> HIDE DEF first
<1>5. \A T \in SUBSET X : IsFiniteSet(T) /\ Cardinality(T) \in Nat /\ Cardinality(T) <= Cardinality(X)
  <2>1. \A T \in SUBSET X : IsFiniteSet(T) /\ Cardinality(T) <= Cardinality(X) BY <1>2, FS_Subset
  <2>2. QED BY <2>1, FS_CardinalityType
<1>6. \A T \in SUBSET X : T # {} => Cardinality(T \ {first(T)}) = Cardinality(T) - 1 /\ T \ {first(T)} \in SUBSET X
  BY <1>4, <1>5, FS_RemoveElement
<1>7. \A T \in SUBSET X : Cardinality(T) = 0 <=> T = {} BY <1>5, FS_EmptySet
<1>8. Cardinality(X) \in Nat BY <1>2, FS_CardinalityType
<1> DEFINE n == Cardinality(X)   S == {k \in 0 .. n : Good(k)}
<1>9. 0 \in S
  <2> DEFINE f == [T \in Small(0) |-> 0]
  <2>1. \A T \in Small(0) : T = {} BY <1>5, <1>7
  <2>2. f \in [Small(0) -> Nat] /\ \A T \in Small(0) : f[T] = whole(T, f) BY <2>1
  <2>3. Good(0) BY <2>2
  <2> HIDE DEF Good
  <2>4. QED BY <1>8, <2>3
<1>10. ASSUME NEW k \in 1 .. n, k - 1 \in S PROVE k \in S
  <2>1. PICK f \in [Small(k - 1) -> Nat] : \A T \in Small(k - 1) : f[T] = whole(T, f) BY <1>10
  <2> DEFINE g == [T \in Small(k) |-> IF T \in Small(k - 1) THEN f[T] ELSE whole(T, f)]
  <2>2. k \in Nat /\ k - 1 \in Nat /\ k \in 0 .. n BY <1>8
  <2>3. ASSUME NEW T \in Small(k), T # {} PROVE T \ {first(T)} \in Small(k - 1) /\ T \ {first(T)} \in Small(k)
    <3>1. T \in SUBSET X /\ Cardinality(T) <= k OBVIOUS
    <3>2. Cardinality(T) \in Nat BY <1>5, <3>1
    <3>3. Cardinality(T \ {first(T)}) = Cardinality(T) - 1 /\ T \ {first(T)} \in SUBSET X BY <1>6, <2>3, <3>1
    <3>4. QED BY <2>2, <3>1, <3>2, <3>3
  <2>4. \A T \in Small(k - 1) : T \in Small(k)
    <3>1. SUFFICES ASSUME NEW T \in Small(k - 1) PROVE T \in Small(k) OBVIOUS
    <3>2. T \in SUBSET X /\ Cardinality(T) <= k - 1 /\ Cardinality(T) \in Nat BY <1>5
    <3>3. QED BY <2>2, <3>2
  <2>5. \A T \in Small(k) : T \in SUBSET X OBVIOUS
  <2> HIDE DEF Small
  <2>6. \A T \in Small(k) : whole(T, f) \in Nat
    <3>1. SUFFICES ASSUME NEW T \in Small(k), T # {} PROVE size(first(T)) + f[T \ {first(T)}] \in Nat OBVIOUS
    <3>2. size(first(T)) \in Nat BY <1>3, <1>4, <2>5, <3>1
    <3>3. f[T \ {first(T)}] \in Nat BY <2>3, <3>1
    <3>4. QED BY <3>2, <3>3
  <2>7. g \in [Small(k) -> Nat] BY <2>6
  <2>8. ASSUME NEW T \in Small(k) PROVE g[T] = whole(T, g)
    <3>1. g[T] = whole(T, f)
      <4> HIDE DEF whole
      <4>1. QED BY <2>1
    <3>2. T # {} => g[T \ {first(T)}] = f[T \ {first(T)}] BY <2>3
    <3> HIDE DEF g
    <3>3. QED BY <3>1, <3>2
  <2> HIDE DEF g, whole
  <2>9. Good(k) BY <2>7, <2>8
  <2> HIDE DEF Good
  <2>10. QED BY <2>2, <2>9
<1> HIDE DEF S, whole
<1>11. n \in S
  <2>1. \A k \in 0 .. n : k \in S
    <3> HIDE DEF n
    <3>1. n \in Nat BY <1>8 DEF n
    <3>2. QED BY <1>9, <1>10, <3>1, UpTo
  <2>2. QED BY <1>8, <2>1
<1>12. PICK f \in [Small(n) -> Nat] : \A T \in Small(n) : f[T] = whole(T, f) BY <1>11 DEF S
<1>13. Small(n) = SUBSET X BY <1>5
<1>14. f = [T \in SUBSET X |-> whole(T, f)]
  <2>1. f = [T \in SUBSET X |-> f[T]] BY <1>12, <1>13
  <2>2. \A T \in SUBSET X : f[T] = whole(T, f) BY <1>12, <1>13
  <2>3. QED BY <2>1, <2>2
<1>15. R = [T \in SUBSET X |-> whole(T, R)] BY <1>14 DEF R
<1>16. \A T \in SUBSET X : R[T] = whole(T, R)
  <2> DEFINE b(T) == whole(T, R)
  <2>1. R = [T \in SUBSET X |-> b(T)] BY <1>15
  <2> HIDE DEF b
  <2>2. \A T \in SUBSET X : R[T] = b(T) BY <2>1
  <2>3. QED BY <2>2 DEF b
<1> DEFINE Num == {k \in 0 .. n : \A T \in Small(k) : R[T] \in Nat}
<1>17. 0 \in Num
  <2>1. \A T \in Small(0) : T = {} BY <1>5, <1>7
  <2>2. R[{}] = 0
    <3>1. {} \in SUBSET X OBVIOUS
    <3>2. QED BY <1>16, <3>1 DEF whole
  <2> HIDE DEF Small
  <2>3. ASSUME NEW T \in Small(0) PROVE R[T] \in Nat
    <3>1. T = {} BY <2>1
    <3>2. R[T] = 0 BY <2>2, <3>1
    <3>3. QED BY <3>2
  <2>4. 0 \in 0 .. n BY <1>8
  <2>5. QED BY <2>3, <2>4
<1>18. ASSUME NEW k \in 1 .. n, k - 1 \in Num PROVE k \in Num
  <2>1. SUFFICES ASSUME NEW T \in Small(k), T # {} PROVE R[T] \in Nat
    <3>1. k \in 0 .. n BY <1>8
    <3>2. R[{}] \in Nat
      <4>1. {} \in Small(k - 1)
        <5>1. {} \in SUBSET X OBVIOUS
        <5>2. Cardinality({}) = 0 BY <1>7, <5>1
        <5>3. 0 <= k - 1 BY <1>8
        <5>4. QED BY <5>1, <5>2, <5>3
      <4>2. QED BY <1>18, <4>1
    <3>3. QED BY <2>1, <3>1, <3>2
  <2>2. T \in SUBSET X /\ Cardinality(T) <= k /\ Cardinality(T) \in Nat BY <1>5, <2>1
  <2>3. Cardinality(T \ {first(T)}) = Cardinality(T) - 1 /\ T \ {first(T)} \in SUBSET X BY <1>6, <2>1, <2>2
  <2>4. T \ {first(T)} \in Small(k - 1) BY <1>8, <2>2, <2>3
  <2>5. R[T \ {first(T)}] \in Nat BY <1>18, <2>4
  <2>6. size(first(T)) \in Nat BY <1>3, <1>4, <2>1, <2>2
  <2>7. R[T] = size(first(T)) + R[T \ {first(T)}] BY <1>16, <2>1, <2>2 DEF whole
  <2>8. QED BY <2>5, <2>6, <2>7
<1> HIDE DEF Num, Small
<1>19. n \in Num
  <2> HIDE DEF n
  <2>1. n \in Nat BY <1>8 DEF n
  <2>2. \A k \in 0 .. n : k \in Num BY <1>17, <1>18, <2>1, UpTo
  <2>3. QED BY <2>1, <2>2
<1>20. X \in Small(n) BY <1>13
<1>21. R[X] \in Nat BY <1>19, <1>20 DEF Num
<1>22. QED BY <1>1, <1>21

\* The counts are numbers.
Counted == counts \in [DOMAIN MaxLimits -> Nat]

\* A charge keeps the counts numbers.
LEMMA ChargedIs ==
  ASSUME Counted, NEW key \in DOMAIN MaxLimits, NEW n \in Nat
  PROVE  Charge(key, n) \in [DOMAIN MaxLimits -> Nat]
BY DEF Counted, Charge

\* The limits have four keys.
LEMMA KeysAre == DOMAIN MaxLimits = {"nfa", "products", "transitions", "refinements"}
BY DEF MaxLimits

\* The type invariant, with what it rests on.
TypedInv ==
  /\ SearchInv /\ Counted
  /\ phase \in {"compile", "begin", "search", "walk", "done"}
  /\ queue \in Seq(DOMAIN predecessor)

\* Nothing is counted at first.
LEMMA InitTyped == Init => TypedInv
BY InitSearch DEF Init, TypedInv, Counted

\* Compilation charges for automaton states.
LEMMA CompileCounts == ASSUME TypedInv, Compile PROVE Counted'
<1>1. CASE UNCHANGED counts BY <1>1 DEF TypedInv, Counted
<1>2. CASE /\ \A d \in Automata : Parses(Pattern(d))
           /\ counts' = Charge("nfa", MapThenSumSet(LAMBDA d : NfaStates(Pattern(d)), Automata))
  <2>1. question \in Questions BY DEF TypedInv, SearchInv
  <2>2. \A d \in Automata : IsPattern(Pattern(d)) BY <1>2, <2>1, ParsedIsPattern
  <2>3. PICK n : n = MapThenSumSet(LAMBDA d : NfaStates(Pattern(d)), Automata) OBVIOUS
  <2>4. n \in Nat BY <2>1, <2>2, <2>3, ChargeIs
  <2>5. counts' = Charge("nfa", n) BY <1>2, <2>3
  <2>6. QED BY <2>4, <2>5, ChargedIs, KeysAre DEF TypedInv, Counted
<1>3. QED BY <1>1, <1>2 DEF Compile

\* An expansion charges for the transitions tried and the products found.
LEMMA ExpandCounts == ASSUME TypedInv, Expand PROVE Counted'
<1>1. Searching /\ question \in Questions /\ excluded \in Seq(Seq(CodePoints)) /\ Counted
  BY DEF TypedInv, SearchInv, Expand
<1>2. alphabet \in Seq(CodePoints) BY <1>1, AlphabetIs DEF Searching
<1>3. PICK new, found :
        /\ Found(new, found)
        /\ counts' = [Charge("transitions", Len(alphabet)) EXCEPT !.products = @ + Len(new)]
  BY <1>2, ExpandFinds
<1>4. Len(alphabet) \in Nat /\ Len(new) \in Nat BY <1>2, <1>3 DEF Found
<1>5. PICK c : c = Charge("transitions", Len(alphabet)) OBVIOUS
<1>6. c \in [DOMAIN MaxLimits -> Nat] BY <1>1, <1>4, <1>5, ChargedIs, KeysAre
<1>7. counts' = [c EXCEPT !.products = @ + Len(new)] BY <1>3, <1>5
<1>8. c["products"] \in Nat BY <1>6, KeysAre
<1>9. QED BY <1>4, <1>6, <1>7, <1>8 DEF Counted

\* Every step keeps the types.
LEMMA NextTyped == TypedInv /\ [Next]_vars => TypedInv'
<1>1. SUFFICES ASSUME TypedInv, [Next]_vars PROVE TypedInv' OBVIOUS
<1>2. SearchInv /\ SearchInv' BY <1>1, NextSearch DEF TypedInv
<1>3. phase' \in {"compile", "begin", "search", "walk", "done"}
  BY <1>1 DEF TypedInv, Next, vars, Compile, BeginSearch, Expand, FindWitness, Exhaust, Walk, Interrupt, GiveUp, Go, Answer
<1>4. Counted'
  <2>1. CASE Compile BY <1>1, <2>1, CompileCounts
  <2>2. CASE Expand BY <1>1, <2>2, ExpandCounts
  <2>3. CASE counts' = counts BY <1>1, <2>3 DEF TypedInv, Counted
  <2>4. CASE BeginSearch
    <3>1. counts' = counts \/ counts' = Charge("products", 1) BY <2>4 DEF BeginSearch
    <3>2. QED BY <1>1, <2>3, <3>1, ChargedIs, KeysAre DEF TypedInv, Counted
  <2>5. CASE FindWitness
    <3>1. counts' = counts \/ counts' = Charge("refinements", 1) BY <2>5 DEF FindWitness
    <3>2. QED BY <1>1, <2>3, <3>1, ChargedIs, KeysAre DEF TypedInv, Counted
  <2>6. CASE Walk
    <3>1. question.path \in Seq(CodePoints) BY <1>2, QuestionsAssumption DEF SearchInv
    <3>2. Len(question.path) \in Nat BY <3>1
    <3>3. counts' = Charge("transitions", Len(question.path)) BY <2>6 DEF Walk
    <3>4. QED BY <1>1, <3>2, <3>3, ChargedIs, KeysAre DEF TypedInv, Counted
  <2>7. counts' = counts \/ Compile \/ Expand \/ BeginSearch \/ FindWitness \/ Walk
    BY <1>1 DEF Next, vars, Exhaust, Interrupt
  <2>8. QED BY <2>1, <2>2, <2>3, <2>4, <2>5, <2>6, <2>7
<1>5. queue' \in Seq(DOMAIN predecessor')
  <2>1. CASE queue' = queue /\ predecessor' = predecessor BY <1>1, <2>1 DEF TypedInv
  <2>2. CASE BeginSearch /\ ~(queue' = queue /\ predecessor' = predecessor)
    <3>1. PICK start : start = StartState OBVIOUS
    <3>2. predecessor' = [s \in {start} |-> Root] /\ queue' = <<start>> BY <2>2, <3>1 DEF BeginSearch, searching
    <3>3. DOMAIN predecessor' = {start} BY <3>2
    <3>4. QED BY <3>2, <3>3
  <2>3. CASE Expand
    <3>1. Searching /\ question \in Questions /\ excluded \in Seq(Seq(CodePoints))
      BY <1>2, <2>3 DEF SearchInv, Expand
    <3>2. alphabet \in Seq(CodePoints) BY <3>1, AlphabetIs DEF Searching
    <3>3. Searching' BY <2>3, <3>1, <3>2, ExpandSearching
    <3>4. QED BY <3>3 DEF Searching
  <2>4. (queue' = queue /\ predecessor' = predecessor) \/ BeginSearch \/ Expand
    BY <1>1 DEF Next, vars, searching, Compile, FindWitness, Exhaust, Walk, Interrupt
  <2>5. QED BY <2>1, <2>2, <2>3, <2>4
<1>6. QED BY <1>2, <1>3, <1>4, <1>5 DEF TypedInv

\* Which are those that the runs check.
LEMMA TypedIsTypeOK == TypedInv => TypeOK
<1>1. SUFFICES ASSUME TypedInv PROVE TypeOK OBVIOUS
<1>2. Inv BY <1>1 DEF TypedInv, SearchInv
<1>3. ContextOfAnswer BY <1>2 DEF Inv
<1>4. Range(queue) \subseteq DOMAIN predecessor
  <2>1. queue \in Seq(DOMAIN predecessor) BY <1>1 DEF TypedInv
  <2>2. QED BY <2>1 DEF Range
<1>5. ctx \in [failed : BOOLEAN, unevaluated : BOOLEAN,
               diagnostics : SUBSET {"obligation", "violation"},
               required : SUBSET {"obligation"}, proofs : {<< >>}]
  <2> DEFINE T == [failed : BOOLEAN, unevaluated : BOOLEAN, diagnostics : SUBSET {"obligation", "violation"},
                   required : SUBSET {"obligation"}, proofs : {<< >>}]
  <2>1. NewContext \in T BY DEF NewContext
  <2>2. Report(NewContext, {"violation"}) \in T BY <2>1 DEF Report
  <2>3. Unavailable(NewContext, "obligation", TRUE) \in T BY <2>1 DEF Unavailable
  <2> HIDE DEF T
  <2>4. ctx \in T BY <1>3, <2>1, <2>2, <2>3 DEF ContextOfAnswer
  <2>5. QED BY <2>4 DEF T
<1>6. QED BY <1>1, <1>3, <1>4, <1>5 DEF TypedInv, TypeOK, ContextOfAnswer, Counted

\* The types: counts are numbers, phases and answers those of the calls, the queue
\* holds states that were found (_prove_scope_subset, _closed_path_membership).
THEOREM TypeCorrect == Spec => []TypeOK
BY InitTyped, NextTyped, TypedIsTypeOK, PTL DEF Spec

-----------------------------------------------------------------------------
\* A proof runs its course: every step uses up what its budgets still allow.

\* The limits are compared before anything is searched or walked, and nothing
\* is charged before that.
Granted ==
  /\ phase = "compile" => counts.transitions = 0 /\ counts.refinements = 0
  /\ phase \in {"begin", "search", "walk"} => ValidLimits(question.limits)

\* What a question may charge by a key: nothing, under limits that are refused.
Budget(key) == IF ValidLimits(question.limits) THEN question.limits[key] ELSE 0
Unspent(key) == Budget(key) - counts[key]

\* A search that removes a word begins anew, which the refinement must pay for.
Overhead == IF phase = "compile" THEN 2 ELSE IF phase = "begin" THEN 1 ELSE 0
Left ==
  IF phase = "done" THEN 0
  ELSE 1 + Overhead + Unspent("transitions") + 2 * Unspent("refinements")
MostSteps == 3 + Budget("transitions") + 2 * Budget("refinements")

\* A budget is a number.
LEMMA BudgetIs == ASSUME NEW key \in {"transitions", "refinements"} PROVE Budget(key) \in Nat
<1>1. MaxLimits[key] \in Nat
  <2>1. MaxLimits.transitions \in Nat /\ MaxLimits.refinements \in Nat BY SMT DEF MaxLimits
  <2>2. QED BY <2>1
<1>2. key \in DOMAIN MaxLimits BY KeysAre
<1>3. PICK most : most = MaxLimits[key] OBVIOUS
<1>4. ValidLimits(question.limits) => question.limits[key] \in 1 .. most BY <1>2, <1>3 DEF ValidLimits
<1>5. QED BY <1>1, <1>3, <1>4 DEF Budget

\* Nothing is overspent before the proof is done.
LEMMA UnspentIs ==
  ASSUME TypedInv, Granted, phase # "done"
  PROVE  Unspent("transitions") \in Nat /\ Unspent("refinements") \in Nat /\ Left \in Nat \ {0} /\ Left <= MostSteps
<1> DEFINE t == Budget("transitions")   r == Budget("refinements")
           ct == counts.transitions     cr == counts.refinements
<1>1. t \in Nat /\ r \in Nat BY BudgetIs
<1>2. ct \in Nat /\ cr \in Nat BY KeysAre DEF TypedInv, Counted
<1>3. ct <= t /\ cr <= r
  <2>1. CASE phase = "compile" BY <1>1, <2>1 DEF Granted
  <2>2. CASE phase \in {"begin", "search", "walk"}
    <3>1. Within(counts) /\ ValidLimits(question.limits) BY <2>2 DEF TypedInv, SearchInv, Inv, Admitted, Granted
    <3>2. ct <= question.limits.transitions /\ cr <= question.limits.refinements BY <3>1, KeysAre DEF Within
    <3>3. QED BY <3>1, <3>2 DEF Budget
  <2>3. QED BY <2>1, <2>2 DEF TypedInv
<1>4. Overhead \in 0 .. 2 BY DEF Overhead
<1>5. Unspent("transitions") = t - ct /\ Unspent("refinements") = r - cr BY DEF Unspent
<1>6. Left = 1 + Overhead + (t - ct) + 2 * (r - cr) /\ MostSteps = 3 + t + 2 * r BY <1>5 DEF Left, MostSteps
<1> HIDE DEF t, r, ct, cr, Left, MostSteps, Overhead
<1>7. QED BY <1>1, <1>2, <1>3, <1>4, <1>5, <1>6

\* Nothing is charged at first.
LEMMA InitGranted == Init => Granted
<1>1. SUFFICES ASSUME Init PROVE counts.transitions = 0 /\ counts.refinements = 0 BY DEF Granted, Init
<1>2. counts = [k \in DOMAIN MaxLimits |-> 0] BY <1>1 DEF Init
<1>3. QED BY <1>2, KeysAre

\* The limits hold from compilation on.
LEMMA NextGranted == Granted /\ [Next]_vars => Granted'
<1>1. SUFFICES ASSUME Granted, [Next]_vars PROVE Granted' OBVIOUS
<1>2. question' = question
  BY <1>1 DEF Next, vars, Compile, BeginSearch, Expand, FindWitness, Exhaust, Walk, Interrupt
<1>3. ValidLimits(question.limits)' <=> ValidLimits(question.limits) BY <1>2 DEF ValidLimits
<1>4. phase' = "compile" => UNCHANGED vars
  BY <1>1 DEF Next, Compile, BeginSearch, Expand, FindWitness, Exhaust, Walk, Interrupt, GiveUp, Answer, Go
<1>5. phase' \in {"begin", "search", "walk"} => ValidLimits(question.limits)
  <2>1. CASE Compile BY <2>1 DEF Compile, GiveUp, Answer
  <2>2. CASE BeginSearch \/ Expand \/ FindWitness BY <1>1, <2>2 DEF Granted, BeginSearch, Expand, FindWitness
  <2>3. CASE Exhaust \/ Walk \/ Interrupt BY <2>3 DEF Exhaust, Walk, Interrupt, GiveUp, Answer
  <2>4. CASE UNCHANGED vars BY <1>1, <2>4 DEF Granted, vars
  <2>5. QED BY <1>1, <2>1, <2>2, <2>3, <2>4 DEF Next
<1>6. QED BY <1>1, <1>3, <1>4, <1>5 DEF Granted, vars

\* No alphabet is empty.
LEMMA AlphabetCharges == ASSUME TypedInv, phase = "search" PROVE alphabet \in Seq(CodePoints) /\ Len(alphabet) \in Nat \ {0}
<1>1. Searching /\ question \in Questions /\ excluded \in Seq(Seq(CodePoints)) BY DEF TypedInv, SearchInv
<1>2. alphabet = Alphabet /\ Alphabet \in Seq(CodePoints) /\ Range(Alphabet) = Bounds \ ({1114112} \cup Surrogates)
  BY <1>1, AlphabetIs DEF Searching
<1>3. 65 \in Bounds \ ({1114112} \cup Surrogates) BY SMT DEF Bounds, Surrogates
<1>4. PICK k \in DOMAIN Alphabet : TRUE BY <1>2, <1>3 DEF Range
<1>5. QED BY <1>2, <1>4

\* An expansion tries every transition of a state, at least one, and refines nothing.
LEMMA ExpandCharges ==
  ASSUME TypedInv, Expand
  PROVE  \E n \in Nat \ {0} : counts'["transitions"] = counts["transitions"] + n /\ counts'["refinements"] = counts["refinements"]
<1>1. phase = "search" BY DEF Expand
<1>2. alphabet \in Seq(CodePoints) /\ Len(alphabet) \in Nat \ {0} BY <1>1, AlphabetCharges
<1>3. PICK new, found :
        counts' = [Charge("transitions", Len(alphabet)) EXCEPT !.products = @ + Len(new)]
  BY <1>2, ExpandFinds
<1>4. PICK c : c = Charge("transitions", Len(alphabet)) OBVIOUS
<1>5. counts \in [DOMAIN MaxLimits -> Nat] BY DEF TypedInv, Counted
<1>6. /\ DOMAIN c = DOMAIN MaxLimits /\ c["transitions"] = counts["transitions"] + Len(alphabet)
      /\ c["refinements"] = counts["refinements"] BY <1>4, <1>5, KeysAre DEF Charge
<1>7. counts' = [c EXCEPT !.products = @ + Len(new)] BY <1>3, <1>4
<1>8. counts'["transitions"] = c["transitions"] /\ counts'["refinements"] = c["refinements"] BY <1>6, <1>7, KeysAre
<1>9. QED BY <1>2, <1>6, <1>8

\* Every step leaves less to do.
LEMMA NextRuns == TypedInv /\ Granted /\ [Next]_vars => [Left' < Left]_vars
<1>1. SUFFICES ASSUME TypedInv, Granted, Next PROVE Left' < Left BY DEF Left
<1>2. TypedInv' /\ Granted' BY <1>1, NextTyped, NextGranted
<1>3. question' = question
  BY <1>1 DEF Next, Compile, BeginSearch, Expand, FindWitness, Exhaust, Walk, Interrupt
<1>4. phase # "done" BY <1>1 DEF Next, Compile, BeginSearch, Expand, FindWitness, Exhaust, Walk, Interrupt
<1>5. Left \in Nat \ {0} BY <1>1, <1>4, UnspentIs
<1>6. CASE phase' = "done" BY <1>5, <1>6 DEF Left
<1>7. CASE phase' # "done"
  <2> DEFINE t == Budget("transitions")   r == Budget("refinements")
             ct == counts["transitions"]     cr == counts["refinements"]
  <2>1. t \in Nat /\ r \in Nat BY BudgetIs
  <2>2. t' = t /\ r' = r
    <3>1. ValidLimits(question.limits)' <=> ValidLimits(question.limits) BY <1>3 DEF ValidLimits
    <3>2. QED BY <1>3, <3>1 DEF Budget
  <2>3. counts \in [DOMAIN MaxLimits -> Nat] BY <1>1 DEF TypedInv, Counted
  <2>4. ct \in Nat /\ cr \in Nat BY <2>3, KeysAre
  <2>5. Left = 1 + Overhead + (t - ct) + 2 * (r - cr) BY <1>4 DEF Left, Unspent
  <2>6. Left' = 1 + Overhead' + (t - ct') + 2 * (r - cr') BY <1>7, <2>2 DEF Left, Unspent
  <2>8. ~(Exhaust \/ Walk \/ Interrupt) BY <1>7 DEF Exhaust, Walk, Interrupt, GiveUp, Answer
  <2>9. CASE Compile
    <3>1. phase = "compile" /\ phase' \in {"begin", "walk"} BY <1>7, <2>9 DEF Compile, GiveUp, Answer, Go
    <3>2. PICK n : counts' = Charge("nfa", n) BY <1>7, <2>9 DEF Compile, GiveUp, Answer
    <3>3. ct' = ct /\ cr' = cr BY <2>3, <3>2, KeysAre DEF Charge
    <3>4. Overhead = 2 /\ (Overhead' = 0 \/ Overhead' = 1) BY <3>1 DEF Overhead
    <3> HIDE DEF t, r, ct, cr, Left, Overhead
    <3>5. QED BY <2>1, <2>4, <2>5, <2>6, <3>3, <3>4
  <2>10. CASE BeginSearch
    <3>1. phase = "begin" /\ phase' = "search" BY <1>7, <2>10 DEF BeginSearch, GiveUp, Answer, Go
    <3>2. counts' = Charge("products", 1) BY <1>7, <2>10 DEF BeginSearch, GiveUp, Answer
    <3>3. ct' = ct /\ cr' = cr BY <2>3, <3>2, KeysAre DEF Charge
    <3>4. Overhead = 1 /\ Overhead' = 0 BY <3>1 DEF Overhead
    <3> HIDE DEF t, r, ct, cr, Left, Overhead
    <3>5. QED BY <2>1, <2>4, <2>5, <2>6, <3>3, <3>4
  <2>11. CASE Expand
    <3>1. phase = "search" /\ phase' = "search" BY <1>7, <2>11 DEF Expand, GiveUp, Answer, Go
    <3>2. PICK n \in Nat \ {0} : ct' = ct + n /\ cr' = cr BY <1>1, <2>11, ExpandCharges
    <3>3. Overhead = 0 /\ Overhead' = 0 BY <3>1 DEF Overhead
    <3> HIDE DEF t, r, ct, cr, Left, Overhead
    <3>4. QED BY <2>1, <2>4, <2>5, <2>6, <3>2, <3>3
  <2>12. CASE FindWitness
    <3>1. phase = "search" /\ phase' = "begin" /\ counts' = Charge("refinements", 1)
      BY <1>7, <2>12 DEF FindWitness, GiveUp, Answer, Go
    <3>2. ct' = ct /\ cr' = cr + 1 BY <2>3, <3>1, KeysAre DEF Charge
    <3>3. Overhead = 0 /\ Overhead' = 1 BY <3>1 DEF Overhead
    <3> HIDE DEF t, r, ct, cr, Left, Overhead
    <3>4. QED BY <2>1, <2>4, <2>5, <2>6, <3>2, <3>3
  <2>13. QED BY <1>1, <2>8, <2>9, <2>10, <2>11, <2>12 DEF Next
<1>8. QED BY <1>6, <1>7

\* A proof runs its course, whatever the patterns and the normal forms: every
\* step leaves less to do, and there is never more to do than the transitions
\* and twice the refinements that the question's limits allow, and three steps
\* (the while loops of _exact_nfc_relative_emptiness and _Residual.search,
\* _AutomatonAndBudget).
THEOREM ProofRunsItsCourse == Spec => [](Left \in 0 .. MostSteps) /\ [][Left' < Left]_vars
<1>1. Init => TypedInv /\ Granted BY InitTyped, InitGranted
<1>2. TypedInv /\ Granted /\ [Next]_vars => (TypedInv /\ Granted)' BY NextTyped, NextGranted
<1>3. TypedInv /\ Granted /\ [Next]_vars => [Left' < Left]_vars BY NextRuns
<1>4. TypedInv /\ Granted => Left \in 0 .. MostSteps
  <2>1. SUFFICES ASSUME TypedInv, Granted PROVE Left \in 0 .. MostSteps OBVIOUS
  <2>2. MostSteps \in Nat
    <3>1. Budget("transitions") \in Nat /\ Budget("refinements") \in Nat BY BudgetIs
    <3>2. QED BY <3>1 DEF MostSteps
  <2>3. CASE phase = "done" BY <2>2, <2>3 DEF Left
  <2>4. CASE phase # "done"
    <3>1. Left \in Nat \ {0} /\ Left <= MostSteps BY <2>1, <2>4, UnspentIs
    <3> HIDE DEF Left, MostSteps
    <3>2. QED BY <2>2, <3>1
  <2>5. QED BY <2>3, <2>4
<1>5. QED BY <1>1, <1>2, <1>3, <1>4, PTL DEF Spec
=============================================================================
