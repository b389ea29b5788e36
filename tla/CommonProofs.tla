---------------------------- MODULE CommonProofs ----------------------------
(***************************************************************************)
(* Facts that several proofs share: what the operations on a context do to *)
(* it, for calls that hold no handles; that neighbours in order make a     *)
(* sequence in order; and what repetition and bounds are good for.         *)
(***************************************************************************)
EXTENDS StaticContext, WellFoundedInduction, TLAPS

Well(c) == \E U : c \in ContextType(U, {})

\* k is c with possibly more dents.
Onward(k, c) == Well(k) /\ (c.failed => k.failed) /\ (Untainted(k) => Untainted(c))

LEMMA NewFacts == Well(NewContext)
<1>1. NewContext \in ContextType({}, {}) BY DEF NewContext, ContextType
<1>2. QED BY <1>1 DEF Well

LEMMA ReportFacts ==
  ASSUME NEW c, Well(c), NEW v
  PROVE  Onward(Report(c, v), c) /\ (~Report(c, v).failed => ~c.failed /\ v = {})
<1>1. PICK U : c \in ContextType(U, {}) BY DEF Well
<1>2. Report(c, v) \in ContextType(U \cup v, {}) BY <1>1 DEF Report, ContextType
<1>3. Well(Report(c, v)) BY <1>2 DEF Well
<1>4. QED BY <1>1, <1>3 DEF Report, ContextType, Onward, Untainted

LEMMA UnavailableFacts ==
  ASSUME NEW c, Well(c), NEW q, NEW direct \in BOOLEAN
  PROVE  /\ Onward(Unavailable(c, q, direct), c)
         /\ Unavailable(c, q, direct).failed = c.failed
         /\ ~Untainted(Unavailable(c, q, direct))
<1>1. PICK U : c \in ContextType(U, {}) BY DEF Well
<1>2. Unavailable(c, q, direct) \in ContextType(U \cup {q}, {}) BY <1>1 DEF Unavailable, ContextType
<1>3. Well(Unavailable(c, q, direct)) BY <1>2 DEF Well
<1>4. QED BY <1>1, <1>3 DEF Unavailable, ContextType, Onward, Untainted

LEMMA LeaveFacts ==
  ASSUME NEW c, Well(c)
  PROVE  Onward(LeaveUnevaluated(c), c) /\ ~Untainted(LeaveUnevaluated(c))
<1>1. PICK U : c \in ContextType(U, {}) BY DEF Well
<1>2. LeaveUnevaluated(c) \in ContextType(U, {}) BY <1>1 DEF LeaveUnevaluated, ContextType
<1>3. Well(LeaveUnevaluated(c)) BY <1>2 DEF Well
<1>4. QED BY <1>1, <1>3 DEF LeaveUnevaluated, ContextType, Onward, Untainted

LEMMA MergeFacts ==
  ASSUME NEW c, Well(c), NEW n, Well(n) PROVE Onward(Merge(c, n), c)
<1>1. PICK U : c \in ContextType(U, {}) BY DEF Well
<1>2. PICK V : n \in ContextType(V, {}) BY DEF Well
<1>3. Merge(c, n) \in ContextType(U \cup V, {}) BY <1>1, <1>2 DEF Merge, ContextType
<1>4. Well(Merge(c, n)) BY <1>3 DEF Well
<1>5. QED BY <1>1, <1>4 DEF Merge, ContextType, Onward, Untainted

LEMMA VerdictFacts ==
  ASSUME NEW c PROVE Verdict(c) = "PASS" <=> Untainted(c)
BY DEF Verdict, Untainted

LEMMA ReportNothing ==
  ASSUME NEW c, Well(c) PROVE Well(Report(c, {})) /\ Report(c, {}).failed = c.failed
<1>1. PICK U : c \in ContextType(U, {}) BY DEF Well
<1>2. QED BY <1>1, ReportFacts DEF Report, ContextType, Onward

\* A group of rules holds them as pairs.
LEMMA OneRule == ASSUME NEW id, NEW rule, rule PROVE <<id, rule>>[2]
<1>1. <<id, rule>>[2] = rule OBVIOUS
<1>2. QED BY <1>1

-----------------------------------------------------------------------------
LEMMA LeastOf ==
  ASSUME NEW S, S \subseteq Nat, S # {}
  PROVE  \E x \in S : \A y \in S : x <= y
<1>1. \A y, x \in Nat : y < x => <<y, x>> \in OpToRel(<, Nat) BY DEF OpToRel
<1>2. PICK x \in S : \A y \in S : ~(<<y, x>> \in OpToRel(<, Nat))
  BY NatLessThanWellFounded, WFMin
<1>3. \A y \in S : ~(y < x) BY <1>1, <1>2
<1>4. \A y \in S : x <= y BY <1>3
<1>5. QED BY <1>4

\* Induction up to n, over the members of a set.
LEMMA UpTo ==
  ASSUME NEW n \in Nat, NEW S, 0 \in S, \A i \in 1 .. n : i - 1 \in S => i \in S
  PROVE  \A i \in 0 .. n : i \in S
<1> DEFINE Bad == (0 .. n) \ S
<1>1. SUFFICES ASSUME Bad # {} PROVE FALSE OBVIOUS
<1>2. Bad \subseteq Nat OBVIOUS
<1>3. PICK k \in Bad : \A y \in Bad : k <= y BY <1>1, <1>2, LeastOf
<1>4. k \in 1 .. n /\ k - 1 \in 0 .. n /\ ~(k <= k - 1) BY <1>3
<1>5. k - 1 \in S BY <1>3, <1>4
<1>6. QED BY <1>3, <1>4, <1>5

\* What compares neighbours compares all, if it is transitive: of two places
\* not in the relation with the first, the least has a neighbour before it.
LEMMA NeighboursSuffice ==
  ASSUME NEW n \in Nat, NEW R,
         \A i \in 2 .. n : <<i - 1, i>> \in R,
         \A i, j, k \in 1 .. n : <<i, j>> \in R /\ <<j, k>> \in R => <<i, k>> \in R
  PROVE  \A i, j \in 1 .. n : i < j => <<i, j>> \in R
<1>1. SUFFICES ASSUME NEW i \in 1 .. n, NEW j \in 1 .. n, i < j, <<i, j>> \notin R PROVE FALSE
  OBVIOUS
<1> DEFINE Bad == {k \in i + 1 .. n : <<i, k>> \notin R}
<1>2. Bad \subseteq Nat /\ Bad # {} BY <1>1
<1>3. PICK k \in Bad : \A y \in Bad : k <= y BY <1>2, LeastOf
<1>4. CASE k = i + 1 BY <1>3, <1>4
<1>5. CASE k # i + 1
  <2>1. k - 1 \in i + 1 .. n /\ k - 1 \in 1 .. n /\ k \in 2 .. n /\ k - 1 \notin Bad BY <1>3, <1>5
  <2>2. <<i, k - 1>> \in R /\ <<k - 1, k>> \in R BY <2>1
  <2>3. <<i, k>> \in R BY <2>1, <2>2
  <2>4. QED BY <2>3
<1>6. QED BY <1>4, <1>5

-----------------------------------------------------------------------------
\* What repeats a step has a value after each repetition.
Forwards(f, n, V, base, step) ==
  f \in [0 .. n -> V] /\ f[0] = base /\ \A i \in 1 .. n : f[i] = step[i][f[i - 1]]

\* There is such a table.
LEMMA Iterated ==
  ASSUME NEW n \in Nat, NEW V, NEW base \in V, NEW step \in [1 .. n -> [V -> V]]
  PROVE  \E f : Forwards(f, n, V, base, step)
<1> DEFINE Good(k) == \E f \in [0 .. k -> V] : f[0] = base /\ \A i \in 1 .. k : f[i] = step[i][f[i - 1]]
           S == {k \in 0 .. n : Good(k)}
<1>1. 0 \in S
  <2> DEFINE f == [i \in 0 .. 0 |-> base]
  <2>1. f \in [0 .. 0 -> V] /\ f[0] = base /\ \A i \in 1 .. 0 : f[i] = step[i][f[i - 1]] OBVIOUS
  <2>2. Good(0) BY <2>1
  <2> HIDE DEF Good
  <2>3. QED BY <2>2
<1>2. ASSUME NEW k \in 1 .. n, k - 1 \in S PROVE k \in S
  <2>1. PICK f \in [0 .. k - 1 -> V] : f[0] = base /\ \A i \in 1 .. k - 1 : f[i] = step[i][f[i - 1]] BY <1>2
  <2> DEFINE g == [i \in 0 .. k |-> IF i = k THEN step[k][f[k - 1]] ELSE f[i]]
  <2>2. step[k] \in [V -> V] /\ f[k - 1] \in V OBVIOUS
  <2>3. g \in [0 .. k -> V] BY <2>2
  <2>4. \A i \in 0 .. k - 1 : g[i] = f[i] OBVIOUS
  <2>5. g[k] = step[k][f[k - 1]] OBVIOUS
  <2> HIDE DEF g
  <2>6. ASSUME NEW i \in 1 .. k PROVE g[i] = step[i][g[i - 1]]
    <3>1. i - 1 \in 0 .. k - 1 OBVIOUS
    <3>2. g[i - 1] = f[i - 1] BY <2>4, <3>1
    <3>3. i # k => i \in 1 .. k - 1 /\ g[i] = f[i] BY <2>4
    <3>4. QED BY <2>1, <2>5, <3>2, <3>3
  <2>7. g[0] = base BY <2>1, <2>4
  <2>8. Good(k) BY <2>3, <2>6, <2>7
  <2> HIDE DEF Good
  <2>9. QED BY <2>8
<1>3. n \in S
  <2> HIDE DEF S, Good
  <2>1. \A i \in 0 .. n : i \in S BY <1>1, <1>2, UpTo
  <2>2. QED BY <2>1
<1>4. QED BY <1>3 DEF Forwards

\* The same, from the end.
Backwards(f, n, V, base, step) ==
  f \in [1 .. n + 1 -> V] /\ f[n + 1] = base /\ \A i \in 1 .. n : f[i] = step[i][f[i + 1]]

\* And such a one.
LEMMA IteratedBack ==
  ASSUME NEW n \in Nat, NEW V, NEW base \in V, NEW step \in [1 .. n -> [V -> V]]
  PROVE  \E f : Backwards(f, n, V, base, step)
<1> DEFINE back == [i \in 1 .. n |-> step[n + 1 - i]]
<1>1. back \in [1 .. n -> [V -> V]] OBVIOUS
<1>2. \A i \in 1 .. n : back[n + 1 - i] = step[i] OBVIOUS
<1> HIDE DEF back
<1>a. PICK f : Forwards(f, n, V, base, back) BY <1>1, Iterated
<1>3. f \in [0 .. n -> V] /\ f[0] = base /\ \A i \in 1 .. n : f[i] = back[i][f[i - 1]]
  BY <1>a DEF Forwards
<1> DEFINE g == [i \in 1 .. n + 1 |-> f[n + 1 - i]]
<1>4. g \in [1 .. n + 1 -> V] BY <1>3
<1>5. \A i \in 1 .. n + 1 : g[i] = f[n + 1 - i] OBVIOUS
<1> HIDE DEF g
<1>6. g[n + 1] = base BY <1>3, <1>5
<1>7. ASSUME NEW i \in 1 .. n PROVE g[i] = step[i][g[i + 1]]
  <2>1. n + 1 - i \in 1 .. n /\ (n + 1 - i) - 1 = n + 1 - (i + 1) /\ i + 1 \in 1 .. n + 1 OBVIOUS
  <2>2. f[n + 1 - i] = back[n + 1 - i][f[(n + 1 - i) - 1]] BY <1>3, <2>1
  <2>3. g[i + 1] = f[n + 1 - (i + 1)] /\ g[i] = f[n + 1 - i] BY <1>5, <2>1
  <2>4. QED BY <1>2, <2>1, <2>2, <2>3
<1>8. QED BY <1>4, <1>6, <1>7 DEF Backwards

-----------------------------------------------------------------------------

\* What holds at n, and below wherever it holds above, holds down to 0.
LEMMA DownTo ==
  ASSUME NEW n \in Nat, NEW S, n \in S, \A i \in 0 .. n - 1 : i + 1 \in S => i \in S
  PROVE  \A i \in 0 .. n : i \in S
<1> DEFINE T == {d \in 0 .. n : n - d \in S}
<1>1. 0 \in T OBVIOUS
<1>2. ASSUME NEW d \in 1 .. n, d - 1 \in T PROVE d \in T
  <2>1. n - d \in 0 .. n - 1 /\ (n - d) + 1 = n - (d - 1) OBVIOUS
  <2>2. QED BY <1>2, <2>1
<1> HIDE DEF T
<1>3. \A d \in 0 .. n : d \in T BY <1>1, <1>2, UpTo
<1>4. \A i \in 0 .. n : n - i \in 0 .. n /\ n - (n - i) = i OBVIOUS
<1>5. QED BY <1>3, <1>4 DEF T

\* A bounded set of numbers that is not empty has a greatest.
LEMMA GreatestOf ==
  ASSUME NEW S, S \subseteq Nat, S # {}, NEW n \in Nat, \A y \in S : y <= n
  PROVE  \E x \in S : \A y \in S : y <= x
<1> DEFINE T == {k \in 0 .. n : n - k \in S}
<1>1. T \subseteq Nat /\ T # {}
  <2>1. PICK y \in S : TRUE OBVIOUS
  <2>2. y \in Nat /\ y <= n /\ n - y \in 0 .. n /\ n - (n - y) = y BY <2>1
  <2>3. n - y \in T BY <2>1, <2>2
  <2>4. T \subseteq Nat OBVIOUS
  <2> HIDE DEF T
  <2>5. QED BY <2>3, <2>4
<1>2. PICK k \in T : \A j \in T : k <= j BY <1>1, LeastOf
<1>3. ASSUME NEW y \in S PROVE y <= n - k
  <2>1. y \in Nat /\ y <= n /\ n - y \in 0 .. n /\ n - (n - y) = y OBVIOUS
  <2>2. n - y \in T BY <2>1
  <2>3. k <= n - y /\ k \in Nat BY <1>1, <1>2, <2>2
  <2>4. QED BY <2>1, <2>3
<1>4. QED BY <1>2, <1>3

=============================================================================
