---------------------------- MODULE ArrayProofs ----------------------------
(***************************************************************************)
(* That the walk finds for every array of the documents the row that the   *)
(* matrix gives it, and that the rules of a row, which compare neighbours, *)
(* say of an array of any length what the matrix says of any two items.    *)
(***************************************************************************)
EXTENDS ArrayProps, CommonProofs, FiniteSetTheorems

Item == [id : Int, rank : Int]
ListOf(v) == Len(v) \in Nat /\ v \in [1 .. Len(v) -> Item]

Distinct(v) == \A i, j \in DOMAIN v : i < j => v[i].id # v[j].id

\* A list has as many values as places exactly if no value comes twice.
LEMMA OnceIsInjective ==
  ASSUME NEW f, NEW n \in Nat, DOMAIN f = 1 .. n, Len(f) = n, f \in [1 .. n -> Range(f)]
  PROVE  Once(f) <=> \A i, j \in 1 .. n : i < j => f[i] # f[j]
<1>1. f \in Surjection(1 .. n, Range(f)) BY DEF Surjection, Range
<1>2. IsFiniteSet(1 .. n) /\ Cardinality(1 .. n) = n BY FS_Interval
<1>3. Once(f) <=> f \in Injection(1 .. n, Range(f)) BY <1>1, <1>2, FS_Surjection DEF Once
<1>4. QED BY <1>3 DEF Injection, IsInjective

\* Identities that come once each are distinct.
LEMMA IdsOnce ==
  ASSUME NEW v, ListOf(v) PROVE Once(Ids(v)) <=> Distinct(v)
<1> DEFINE f == Ids(v)
<1>1. f = [i \in 1 .. Len(v) |-> v[i].id] BY DEF Ids, ListOf
<1>2. DOMAIN f = 1 .. Len(v) /\ Len(f) = Len(v) /\ f \in [1 .. Len(v) -> Range(f)]
  BY <1>1 DEF ListOf, Range
<1>3. Once(f) <=> \A i, j \in 1 .. Len(v) : i < j => f[i] # f[j]
  BY <1>2, OnceIsInjective DEF ListOf
<1>4. QED BY <1>1, <1>3 DEF Distinct, ListOf

\* So are items.
LEMMA ItemsOnce ==
  ASSUME NEW v, ListOf(v) PROVE Once(v) <=> \A i, j \in DOMAIN v : i < j => v[i] # v[j]
<1>1. DOMAIN v = 1 .. Len(v) /\ v \in [1 .. Len(v) -> Range(v)] BY DEF ListOf, Range
<1>2. QED BY <1>1, OnceIsInjective DEF ListOf

-----------------------------------------------------------------------------
\* Keys are ordered.
LEMMA LessIsTransitive ==
  ASSUME NEW k \in Int \X Int, NEW l \in Int \X Int, NEW m \in Int \X Int, Less(k, l), Less(l, m)
  PROVE  Less(k, m)
BY DEF Less

\* The key of a row orders items as the matrix does.
LEMMA KeysOrder ==
  ASSUME NEW row \in 1 .. 54, row \notin Sequences, NEW a \in Item, NEW b \in Item
  PROVE  /\ SortKey(row, a) \in Int \X Int
         /\ Less(SortKey(row, a), SortKey(row, b)) <=> Before(row, a, b)
<1>1. CASE row = 19 BY <1>1 DEF SortKey, Less, Before, Item
<1>2. CASE row \in {21, 36} BY <1>2 DEF SortKey, Less, Before, Item
<1>3. CASE row \notin {19, 21, 36} BY <1>3 DEF SortKey, Less, Before, Item, Sequences
<1>4. QED BY <1>1, <1>2, <1>3

\* Keys that increase from neighbour to neighbour increase.
LEMMA IncreasingEverywhere ==
  ASSUME NEW keys, NEW n \in Nat, keys \in [1 .. n -> Int \X Int], Len(keys) = n
  PROVE  Increasing(keys) <=> \A i, j \in 1 .. n : i < j => Less(keys[i], keys[j])
<1>1. ASSUME Increasing(keys) PROVE \A i, j \in 1 .. n : i < j => Less(keys[i], keys[j])
  <2> DEFINE R == {p \in (1 .. n) \X (1 .. n) : Less(keys[p[1]], keys[p[2]])}
  <2>1. \A i, j \in 1 .. n : <<i, j>> \in R <=> Less(keys[i], keys[j]) OBVIOUS
  <2> HIDE DEF R
  <2>2. \A i \in 2 .. n : <<i - 1, i>> \in R BY <1>1, <2>1 DEF Increasing
  <2>3. \A i, j, k \in 1 .. n : <<i, j>> \in R /\ <<j, k>> \in R => <<i, k>> \in R
    BY <2>1, LessIsTransitive
  <2>4. \A i, j \in 1 .. n : i < j => <<i, j>> \in R BY <2>2, <2>3, NeighboursSuffice
  <2>5. QED BY <2>1, <2>4
<1>2. ASSUME \A i, j \in 1 .. n : i < j => Less(keys[i], keys[j]) PROVE Increasing(keys)
  <2>1. \A i \in 2 .. n : i - 1 \in 1 .. n /\ i \in 1 .. n /\ i - 1 < i OBVIOUS
  <2>2. QED BY <1>2, <2>1 DEF Increasing
<1>3. QED BY <1>1, <1>2

\* The keys of an array increase exactly if any two of its items are ordered.
LEMMA KeysEverywhere ==
  ASSUME NEW row \in 1 .. 54, row \notin Sequences, NEW v, ListOf(v)
  PROVE  Increasing([i \in DOMAIN v |-> SortKey(row, v[i])])
           <=> \A i, j \in DOMAIN v : i < j => Before(row, v[i], v[j])
<1> DEFINE n == Len(v)   keys == [i \in DOMAIN v |-> SortKey(row, v[i])]
<1>1. DOMAIN v = 1 .. n /\ n \in Nat /\ \A i \in 1 .. n : v[i] \in Item BY DEF ListOf
<1>2. \A i, j \in 1 .. n : Less(SortKey(row, v[i]), SortKey(row, v[j])) <=> Before(row, v[i], v[j])
  BY <1>1, KeysOrder
<1>3. \A i \in 1 .. n : SortKey(row, v[i]) \in Int \X Int BY <1>1, KeysOrder
<1>4. keys = [i \in 1 .. n |-> SortKey(row, v[i])] BY <1>1
<1>5. keys \in [1 .. n -> Int \X Int] /\ Len(keys) = n BY <1>1, <1>3, <1>4
<1>6. \A i \in 1 .. n : keys[i] = SortKey(row, v[i]) BY <1>4
<1> HIDE DEF keys
<1>7. Increasing(keys) <=> \A i, j \in 1 .. n : i < j => Less(keys[i], keys[j])
  BY <1>1, <1>5, IncreasingEverywhere
<1>8. Increasing(keys) <=> \A i, j \in 1 .. n : i < j => Before(row, v[i], v[j])
  BY <1>2, <1>6, <1>7
<1>9. QED BY <1>1, <1>8 DEF keys

-----------------------------------------------------------------------------
\* What check_array accepts is what the matrix calls canonical, whatever the
\* length of the array.
LEMMA InOrderIsCanonical ==
  ASSUME NEW row \in 1 .. 54, row \notin Remotes \cup {2}, NEW v, ListOf(v)
  PROVE  InOrder(row, v) <=> Canonical(row, v)
<1>1. DOMAIN v = 1 .. Len(v) /\ Len(v) \in Nat /\ \A i \in 1 .. Len(v) : v[i] \in Item BY DEF ListOf
<1>2. Once(Ids(v)) <=> Distinct(v) BY IdsOnce
<1>3. CASE row \in Sequences
  <2>1. InOrder(row, v) <=> /\ \A i \in DOMAIN v : v[i].rank = i - 1
                            /\ row = 46 => Distinct(v)
    BY <1>2, <1>3 DEF InOrder
  <2>2. row \in {45, 46} /\ row # 2 /\ row \notin {19, 21, 36} BY <1>3 DEF Sequences
  <2>3. \A a \in Item, b \in Item : Before(row, a, b) <=> a.rank < b.rank BY <2>2 DEF Before
  <2>4. (\A i \in DOMAIN v : v[i].rank = i - 1) =>
          \A i, j \in DOMAIN v : i < j => Before(row, v[i], v[j])
    <3>1. SUFFICES ASSUME \A i \in DOMAIN v : v[i].rank = i - 1,
                          NEW i \in DOMAIN v, NEW j \in DOMAIN v, i < j
                   PROVE Before(row, v[i], v[j]) OBVIOUS
    <3>2. v[i].rank < v[j].rank BY <1>1, <3>1
    <3>3. QED BY <1>1, <2>3, <3>2
  <2>5. Canonical(row, v) <=>
          /\ \A i, j \in DOMAIN v : i < j => Before(row, v[i], v[j])
          /\ row = 46 => Distinct(v)
          /\ \A i \in DOMAIN v : v[i].rank = i - 1
    BY <2>2 DEF Canonical, Distinct
  <2>6. QED BY <2>1, <2>4, <2>5
<1>4. CASE row \notin Sequences
  <2>1. InOrder(row, v) <=> /\ \A i, j \in DOMAIN v : i < j => Before(row, v[i], v[j])
                            /\ row = 19 => Distinct(v)
    BY <1>2, <1>4, KeysEverywhere DEF InOrder
  <2>2. row \notin {2, 45, 46} BY <1>4 DEF Sequences, Remotes
  <2>3. Canonical(row, v) <=> /\ \A i, j \in DOMAIN v : i < j => Before(row, v[i], v[j])
                              /\ row = 19 => Distinct(v)
    BY <2>2 DEF Canonical, Distinct
  <2>4. QED BY <2>1, <2>3
<1>5. QED BY <1>3, <1>4

\* Comparing the neighbouring remotes that the provider answers for refutes no
\* canonical array, and accepts only where all were answered and in order.
LEMMA RemotesAreCanonical ==
  ASSUME NEW row \in Remotes, NEW v, ListOf(v), NEW silent
  PROVE  LET judged == JudgeRemotes(NewContext, v, silent)
         IN /\ Verdict(judged) = "PASS" => Canonical(row, v)
            /\ Canonical(row, v) => Verdict(judged) # "INVALID"
<1> DEFINE n == Len(v)
           wrong == {i \in (2 .. n) \ silent : v[i - 1].id >= v[i].id}
           found == {"ARRAY" : i \in wrong}
           answered == Report(NewContext, found)
           judged == JudgeRemotes(NewContext, v, silent)
<1>1. DOMAIN v = 1 .. n /\ n \in Nat /\ \A i \in 1 .. n : v[i] \in Item BY DEF ListOf
<1>2. \A i \in 1 .. n : v[i].id \in Int BY <1>1 DEF Item
<1>3. judged = IF ~Once(v) THEN Report(NewContext, {"ARRAY"})
               ELSE IF silent = {} THEN answered ELSE Unavailable(answered, "ARRAY", TRUE)
  BY DEF JudgeRemotes
<1>4. row \in 1 .. 54 /\ row \notin Sequences \cup {2, 19, 21, 36} BY DEF Remotes, Sequences
<1>5. Canonical(row, v) <=> \A i, j \in 1 .. n : i < j => v[i].id < v[j].id
  BY <1>1, <1>4 DEF Canonical, Before, Sequences
<1>6. Canonical(row, v) => Once(v)
  <2>1. SUFFICES ASSUME Canonical(row, v) PROVE Once(v) OBVIOUS
  <2>2. \A i, j \in 1 .. n : i < j => v[i] # v[j]
    <3>1. SUFFICES ASSUME NEW i \in 1 .. n, NEW j \in 1 .. n, i < j PROVE v[i] # v[j] OBVIOUS
    <3>2. v[i].id < v[j].id BY <1>5, <2>1, <3>1
    <3>3. QED BY <1>2, <3>2
  <2>3. QED BY <1>1, <2>2, ItemsOnce
<1>7. Canonical(row, v) => wrong = {}
  <2>1. SUFFICES ASSUME Canonical(row, v), NEW i \in wrong PROVE FALSE OBVIOUS
  <2>2. i \in 2 .. n /\ v[i - 1].id >= v[i].id OBVIOUS
  <2>3. i - 1 \in 1 .. n /\ i \in 1 .. n /\ i - 1 < i BY <2>2
  <2>4. v[i - 1].id < v[i].id BY <1>5, <2>1, <2>3
  <2>5. QED BY <1>2, <2>2, <2>3, <2>4
<1>8. wrong = {} /\ silent = {} => Canonical(row, v)
  <2>1. SUFFICES ASSUME wrong = {}, silent = {} PROVE Canonical(row, v) OBVIOUS
  <2> DEFINE R == {p \in (1 .. n) \X (1 .. n) : v[p[1]].id < v[p[2]].id}
  <2>2. \A i, j \in 1 .. n : <<i, j>> \in R <=> v[i].id < v[j].id OBVIOUS
  <2>3. \A i \in 2 .. n : ~(v[i - 1].id >= v[i].id) BY <2>1
  <2> HIDE DEF R
  <2>4. \A i \in 2 .. n : <<i - 1, i>> \in R
    <3>1. SUFFICES ASSUME NEW i \in 2 .. n PROVE <<i - 1, i>> \in R OBVIOUS
    <3>2. i - 1 \in 1 .. n /\ i \in 1 .. n OBVIOUS
    <3>3. v[i - 1].id < v[i].id BY <1>2, <2>3, <3>2
    <3>4. QED BY <2>2, <3>2, <3>3
  <2>5. \A i, j, k \in 1 .. n : <<i, j>> \in R /\ <<j, k>> \in R => <<i, k>> \in R
    BY <1>2, <2>2
  <2>6. \A i, j \in 1 .. n : i < j => <<i, j>> \in R BY <1>1, <2>4, <2>5, NeighboursSuffice
  <2>7. QED BY <1>5, <2>2, <2>6
<1>9. found # {} <=> wrong # {} OBVIOUS
<1> HIDE DEF wrong, found
<1>10. Well(answered) /\ (~answered.failed => found = {}) /\ (found = {} => ~answered.failed)
  BY NewFacts, ReportFacts DEF Onward, Report, NewContext
<1>11. Verdict(answered) = "PASS" => found = {} BY <1>10, VerdictFacts DEF Untainted
<1> HIDE DEF answered, judged
<1>12. CASE ~Once(v)
  <2>1. judged.failed BY <1>3, <1>12 DEF Report, NewContext
  <2>2. Verdict(judged) # "PASS" BY <2>1 DEF Verdict
  <2>3. QED BY <1>6, <1>12, <2>2 DEF judged
<1>13. CASE Once(v) /\ silent = {}
  <2>1. judged = answered BY <1>3, <1>13
  <2>2. Verdict(judged) = "PASS" => Canonical(row, v) BY <1>8, <1>9, <1>11, <1>13, <2>1
  <2>3. Canonical(row, v) => Verdict(judged) # "INVALID" BY <1>7, <1>9, <1>10, <2>1 DEF Verdict
  <2>4. QED BY <2>2, <2>3 DEF judged
<1>14. CASE Once(v) /\ silent # {}
  <2>1. judged = Unavailable(answered, "ARRAY", TRUE) BY <1>3, <1>14
  <2>2. ~Untainted(judged) /\ judged.failed = answered.failed BY <1>10, <2>1, UnavailableFacts
  <2>3. Verdict(judged) # "PASS" BY <2>2, VerdictFacts
  <2>4. Canonical(row, v) => Verdict(judged) # "INVALID" BY <1>7, <1>9, <1>10, <2>2 DEF Verdict
  <2>5. QED BY <2>3, <2>4 DEF judged
<1>15. QED BY <1>12, <1>13, <1>14

-----------------------------------------------------------------------------
\* The rows of the documents' arrays.

\* The way to an array brings the kind of its resource and, to what a
\* postcondition expects, its type.
KindAt(p, n, own) ==
  /\ p.kinds = NoKind => own = None
  /\ \A level \in DOMAIN p.kinds \cap Nat :
       p.kinds = Of(level, p.kinds[level]) => own = IF level <= n THEN p.kinds[level] ELSE None
TypeAt(p, n, type) ==
  type = IF \E i \in 1 .. n - 1 : p.path[i] = "requiredPostconditions" THEN p.type ELSE None

\* At the end of a way, the row of the array is the documented one.
Wanted(row) == IF row = 2 THEN NoRow ELSE row
Right(p) ==
  \A own, type : KindAt(p, Len(p.path), own) /\ TypeAt(p, Len(p.path), type)
    => Row(p.field, p.path, own, type) = Wanted(p.documented)

\* The ways and fields of a group of arrays.
LEMMA AtIs ==
  ASSUME NEW kinds, NEW path, NEW rows, NEW p \in At(kinds, path, rows)
  PROVE  /\ p.kinds = kinds /\ p.path = path /\ p.type = None
         /\ \E r \in rows : p.documented = r[1] /\ p.field = r[2]
BY DEF At

\* A group in a resource of a kind needs its rows for that kind alone.
LEMMA KindRight ==
  ASSUME NEW level \in Nat, NEW name, NEW path, NEW rows,
         Len(path) \in Nat, level <= Len(path), \A r \in rows : Row(r[2], path, name, None) = Wanted(r[1])
  PROVE  \A p \in At(Of(level, name), path, rows) : Right(p)
<1>1. SUFFICES ASSUME NEW p \in At(Of(level, name), path, rows) PROVE Right(p) OBVIOUS
<1>2. p.kinds = Of(level, name) /\ p.path = path /\ p.type = None BY AtIs
<1>3. PICK r \in rows : p.documented = r[1] /\ p.field = r[2] BY AtIs
<1>4. ASSUME NEW own, NEW type, KindAt(p, Len(path), own), TypeAt(p, Len(path), type)
      PROVE own = name /\ type = None
  <2>1. level \in DOMAIN p.kinds \cap Nat /\ p.kinds[level] = name /\ own = name BY <1>2, <1>4 DEF KindAt, Of
  <2>2. type = None BY <1>2, <1>4 DEF TypeAt
  <2>3. QED BY <2>1, <2>2
<1>5. QED BY <1>2, <1>3, <1>4 DEF Right

\* A group in a document without kinds needs them for none.
LEMMA NoKindRight ==
  ASSUME NEW path, NEW rows,
         \A r \in rows : Row(r[2], path, None, None) = Wanted(r[1])
  PROVE  \A p \in At(NoKind, path, rows) : Right(p)
<1>1. SUFFICES ASSUME NEW p \in At(NoKind, path, rows) PROVE Right(p) OBVIOUS
<1>2. p.kinds = NoKind /\ p.path = path /\ p.type = None BY AtIs
<1>3. PICK r \in rows : p.documented = r[1] /\ p.field = r[2] BY AtIs
<1>4. ASSUME NEW own, NEW type, KindAt(p, Len(path), own), TypeAt(p, Len(path), type)
      PROVE own = None /\ type = None
  BY <1>2, <1>4 DEF KindAt, TypeAt
<1>5. QED BY <1>2, <1>3, <1>4 DEF Right

\* What a postcondition expects is an inventory of its type.
Expected == <<"spec", "requiredPostconditions", "#", "expected">>

\* The way to it goes through a postcondition.
LEMMA ExpectedIs ==
  Last(Expected) = "expected" /\ Expected # << >> /\ Expected[2] = "requiredPostconditions" /\ Len(Expected) = 4
BY DEF Expected, Last

\* Its row is that of the type.
LEMMA PostRight ==
  ASSUME NEW type, NEW field, NEW row \in Nat \ {2}, Row(field, Expected, "TaskContract", type) = row
  PROVE  \A p \in Post(type, field, row) : Right(p)
<1>1. SUFFICES ASSUME NEW p \in Post(type, field, row) PROVE Right(p) OBVIOUS
<1>2. p.kinds = Of(0, "TaskContract") /\ p.path = Expected /\ p.type = type /\ p.field = field /\ p.documented = row
  BY DEF Post, Expected
<1>3. ASSUME NEW own, NEW t, KindAt(p, 4, own), TypeAt(p, 4, t) PROVE own = "TaskContract" /\ t = type
  <2>1. own = "TaskContract"
    <3>1. 0 \in DOMAIN p.kinds \cap Nat /\ p.kinds[0] = "TaskContract" BY <1>2 DEF Of
    <3>2. QED BY <1>2, <1>3, <3>1 DEF KindAt
  <2>2. 2 \in 1 .. 4 - 1 OBVIOUS
  <2>3. t = type BY <1>2, <1>3, <2>2, ExpectedIs DEF TypeAt
  <2>4. QED BY <2>1, <2>3
<1>4. QED BY <1>2, <1>3, ExpectedIs DEF Right, Wanted

\* The rows of the arrays of a bundle.
LEMMA BundleRows == \A p \in Bundle : Right(p)
<1>1. \A p \in At(NoKind, << >>, {<<53, "domains">>, <<54, "worktreeRoles">>}) : Right(p)
  <2> DEFINE path == << >>   rows == {<<53, "domains">>, <<54, "worktreeRoles">>}
  <2>1. path = << >> OBVIOUS
  <2> HIDE DEF path
  <2>2. /\ Row("domains", path, None, None) = 53
        /\ Row("worktreeRoles", path, None, None) = 54
    BY <2>1 DEF Row, Lookup, None
  <2>3. \A r \in rows : Row(r[2], path, None, None) = Wanted(r[1]) BY <2>2 DEF Wanted
  <2> HIDE DEF rows
  <2>4. \A p \in At(NoKind, path, rows) : Right(p) BY <2>3, NoKindRight
  <2>5. QED BY <2>4 DEF path, rows
<1>2. \A p \in At(Of(1, "Project"), <<"project", "spec">>,
                  {<<8, "domainRefs">>, <<9, "worktreeRoleRefs">>}) : Right(p)
  <2> DEFINE path == <<"project", "spec">>   rows == {<<8, "domainRefs">>, <<9, "worktreeRoleRefs">>}
  <2>1. Last(path) = "spec" /\ path # << >> /\ Len(path) = 2 BY DEF Last
  <2> HIDE DEF path
  <2>2. /\ Row("domainRefs", path, "Project", None) = 8
        /\ Row("worktreeRoleRefs", path, "Project", None) = 9
    BY <2>1 DEF Row, Lookup, None
  <2>3. \A r \in rows : Row(r[2], path, "Project", None) = Wanted(r[1]) BY <2>2 DEF Wanted
  <2> HIDE DEF rows
  <2>4. \A p \in At(Of(1, "Project"), path, rows) : Right(p) BY <2>1, <2>3, KindRight
  <2>5. QED BY <2>4 DEF path, rows
<1>3. \A p \in At(Of(1, "Project"), <<"project", "spec", "permissions">>, Permissions) : Right(p)
  <2> DEFINE path == <<"project", "spec", "permissions">>   rows == Permissions
  <2>1. Last(path) = "permissions" /\ path # << >> /\ Len(path) = 3 BY DEF Last
  <2> HIDE DEF path
  <2>2. /\ Row("modes", path, "Project", None) = 3
        /\ Row("permittedCapabilities", path, "Project", None) = 4
        /\ Row("prohibitedCapabilities", path, "Project", None) = 5
    BY <2>1 DEF Row, Lookup, None
  <2>3. \A r \in rows : Row(r[2], path, "Project", None) = Wanted(r[1]) BY <2>2 DEF Wanted, Permissions
  <2> HIDE DEF rows
  <2>4. \A p \in At(Of(1, "Project"), path, rows) : Right(p) BY <2>1, <2>3, KindRight
  <2>5. QED BY <2>4 DEF path, rows
<1>4. \A p \in At(Of(1, "Project"), <<"project", "spec", "repositoryIdentity">>,
                  {<<1, "acceptedRemotes">>}) : Right(p)
  <2> DEFINE path == <<"project", "spec", "repositoryIdentity">>   rows == {<<1, "acceptedRemotes">>}
  <2>1. Last(path) = "repositoryIdentity" /\ path # << >> /\ "remoteExpectations" \notin Range(path) /\ Len(path) = 3
    BY DEF Last, Range
  <2> HIDE DEF path
  <2>2. Row("acceptedRemotes", path, "Project", None) = 1 BY <2>1 DEF Row, Lookup, None
  <2>3. \A r \in rows : Row(r[2], path, "Project", None) = Wanted(r[1]) BY <2>2 DEF Wanted
  <2> HIDE DEF rows
  <2>4. \A p \in At(Of(1, "Project"), path, rows) : Right(p) BY <2>1, <2>3, KindRight
  <2>5. QED BY <2>4 DEF path, rows
<1>5. \A p \in At(Of(1, "Project"), <<"project", "spec", "repositoryIdentity", "acceptedRemotes", "#">>,
                  {<<2, "namespace">>}) : Right(p)
  <2> DEFINE path == <<"project", "spec", "repositoryIdentity", "acceptedRemotes", "#">>
             rows == {<<2, "namespace">>}
  <2>1. Last(path) = "#" /\ path # << >> /\ Len(path) = 5 BY DEF Last
  <2> HIDE DEF path
  <2>2. Row("namespace", path, "Project", None) = NoRow BY <2>1 DEF Row, Lookup, None
  <2>3. \A r \in rows : Row(r[2], path, "Project", None) = Wanted(r[1]) BY <2>2 DEF Wanted
  <2> HIDE DEF rows
  <2>4. \A p \in At(Of(1, "Project"), path, rows) : Right(p) BY <2>1, <2>3, KindRight
  <2>5. QED BY <2>4 DEF path, rows
<1>6. \A p \in At(Of(2, "Domain"), <<"domains", "#", "spec">>, {<<12, "overlapRefs">>}) : Right(p)
  <2> DEFINE path == <<"domains", "#", "spec">>   rows == {<<12, "overlapRefs">>}
  <2>1. Last(path) = "spec" /\ path # << >> /\ Len(path) = 3 BY DEF Last
  <2> HIDE DEF path
  <2>2. Row("overlapRefs", path, "Domain", None) = 12 BY <2>1 DEF Row, Lookup, None
  <2>3. \A r \in rows : Row(r[2], path, "Domain", None) = Wanted(r[1]) BY <2>2 DEF Wanted
  <2> HIDE DEF rows
  <2>4. \A p \in At(Of(2, "Domain"), path, rows) : Right(p) BY <2>1, <2>3, KindRight
  <2>5. QED BY <2>4 DEF path, rows
<1>7. \A p \in At(Of(2, "Domain"), <<"domains", "#", "spec", "pathScope">>,
                  {<<10, "include">>, <<11, "exclude">>}) : Right(p)
  <2> DEFINE path == <<"domains", "#", "spec", "pathScope">>   rows == {<<10, "include">>, <<11, "exclude">>}
  <2>1. Last(path) = "pathScope" /\ path # << >> /\ Len(path) = 4 BY DEF Last
  <2> HIDE DEF path
  <2>2. /\ Row("include", path, "Domain", None) = 10
        /\ Row("exclude", path, "Domain", None) = 11
    BY <2>1 DEF Row, Lookup, None
  <2>3. \A r \in rows : Row(r[2], path, "Domain", None) = Wanted(r[1]) BY <2>2 DEF Wanted
  <2> HIDE DEF rows
  <2>4. \A p \in At(Of(2, "Domain"), path, rows) : Right(p) BY <2>1, <2>3, KindRight
  <2>5. QED BY <2>4 DEF path, rows
<1>8. \A p \in At(Of(2, "Domain"), <<"domains", "#", "spec", "permissions">>, Permissions) : Right(p)
  <2> DEFINE path == <<"domains", "#", "spec", "permissions">>   rows == Permissions
  <2>1. Last(path) = "permissions" /\ path # << >> /\ Len(path) = 4 BY DEF Last
  <2> HIDE DEF path
  <2>2. /\ Row("modes", path, "Domain", None) = 3
        /\ Row("permittedCapabilities", path, "Domain", None) = 4
        /\ Row("prohibitedCapabilities", path, "Domain", None) = 5
    BY <2>1 DEF Row, Lookup, None
  <2>3. \A r \in rows : Row(r[2], path, "Domain", None) = Wanted(r[1]) BY <2>2 DEF Wanted, Permissions
  <2> HIDE DEF rows
  <2>4. \A p \in At(Of(2, "Domain"), path, rows) : Right(p) BY <2>1, <2>3, KindRight
  <2>5. QED BY <2>4 DEF path, rows
<1>9. \A p \in At(Of(2, "WorktreeRole"), <<"worktreeRoles", "#", "spec">>,
                  {<<13, "ownedDomainRefs">>, <<14, "excludedDomainRefs">>}) : Right(p)
  <2> DEFINE path == <<"worktreeRoles", "#", "spec">>
             rows == {<<13, "ownedDomainRefs">>, <<14, "excludedDomainRefs">>}
  <2>1. Last(path) = "spec" /\ path # << >> /\ Len(path) = 3 BY DEF Last
  <2> HIDE DEF path
  <2>2. /\ Row("ownedDomainRefs", path, "WorktreeRole", None) = 13
        /\ Row("excludedDomainRefs", path, "WorktreeRole", None) = 14
    BY <2>1 DEF Row, Lookup, None
  <2>3. \A r \in rows : Row(r[2], path, "WorktreeRole", None) = Wanted(r[1]) BY <2>2 DEF Wanted
  <2> HIDE DEF rows
  <2>4. \A p \in At(Of(2, "WorktreeRole"), path, rows) : Right(p) BY <2>1, <2>3, KindRight
  <2>5. QED BY <2>4 DEF path, rows
<1>10. \A p \in At(Of(2, "WorktreeRole"), <<"worktreeRoles", "#", "spec", "permissions">>, Permissions) : Right(p)
  <2> DEFINE path == <<"worktreeRoles", "#", "spec", "permissions">>   rows == Permissions
  <2>1. Last(path) = "permissions" /\ path # << >> /\ Len(path) = 4 BY DEF Last
  <2> HIDE DEF path
  <2>2. /\ Row("modes", path, "WorktreeRole", None) = 3
        /\ Row("permittedCapabilities", path, "WorktreeRole", None) = 4
        /\ Row("prohibitedCapabilities", path, "WorktreeRole", None) = 5
    BY <2>1 DEF Row, Lookup, None
  <2>3. \A r \in rows : Row(r[2], path, "WorktreeRole", None) = Wanted(r[1]) BY <2>2 DEF Wanted, Permissions
  <2> HIDE DEF rows
  <2>4. \A p \in At(Of(2, "WorktreeRole"), path, rows) : Right(p) BY <2>1, <2>3, KindRight
  <2>5. QED BY <2>4 DEF path, rows
<1>11. \A p \in At(Of(2, "WorktreeRole"), <<"worktreeRoles", "#", "spec", "branchPolicy", "allowed">>,
                   {<<15, "exact">>, <<16, "prefixes">>}) : Right(p)
  <2> DEFINE path == <<"worktreeRoles", "#", "spec", "branchPolicy", "allowed">>
             rows == {<<15, "exact">>, <<16, "prefixes">>}
  <2>1. Last(path) = "allowed" /\ path # << >> /\ Len(path) = 5 BY DEF Last
  <2> HIDE DEF path
  <2>2. /\ Row("exact", path, "WorktreeRole", None) = 15
        /\ Row("prefixes", path, "WorktreeRole", None) = 16
    BY <2>1 DEF Row, Lookup, None
  <2>3. \A r \in rows : Row(r[2], path, "WorktreeRole", None) = Wanted(r[1]) BY <2>2 DEF Wanted
  <2> HIDE DEF rows
  <2>4. \A p \in At(Of(2, "WorktreeRole"), path, rows) : Right(p) BY <2>1, <2>3, KindRight
  <2>5. QED BY <2>4 DEF path, rows
<1>12. \A p \in At(Of(2, "WorktreeRole"), <<"worktreeRoles", "#", "spec", "branchPolicy", "denied">>,
                   {<<17, "exact">>, <<18, "prefixes">>}) : Right(p)
  <2> DEFINE path == <<"worktreeRoles", "#", "spec", "branchPolicy", "denied">>
             rows == {<<17, "exact">>, <<18, "prefixes">>}
  <2>1. Last(path) = "denied" /\ path # << >> /\ Len(path) = 5 BY DEF Last
  <2> HIDE DEF path
  <2>2. /\ Row("exact", path, "WorktreeRole", None) = 17
        /\ Row("prefixes", path, "WorktreeRole", None) = 18
    BY <2>1 DEF Row, Lookup, None
  <2>3. \A r \in rows : Row(r[2], path, "WorktreeRole", None) = Wanted(r[1]) BY <2>2 DEF Wanted
  <2> HIDE DEF rows
  <2>4. \A p \in At(Of(2, "WorktreeRole"), path, rows) : Right(p) BY <2>1, <2>3, KindRight
  <2>5. QED BY <2>4 DEF path, rows
<1>13. \A p \in At(Of(1, "RoutingPolicy"), <<"routingPolicy", "spec">>, {<<19, "rules">>}) : Right(p)
  <2> DEFINE path == <<"routingPolicy", "spec">>   rows == {<<19, "rules">>}
  <2>1. Last(path) = "spec" /\ path # << >> /\ Len(path) = 2 BY DEF Last
  <2> HIDE DEF path
  <2>2. Row("rules", path, "RoutingPolicy", None) = 19 BY <2>1 DEF Row, Lookup, None
  <2>3. \A r \in rows : Row(r[2], path, "RoutingPolicy", None) = Wanted(r[1]) BY <2>2 DEF Wanted
  <2> HIDE DEF rows
  <2>4. \A p \in At(Of(1, "RoutingPolicy"), path, rows) : Right(p) BY <2>1, <2>3, KindRight
  <2>5. QED BY <2>4 DEF path, rows
<1>14. \A p \in At(Of(1, "RoutingPolicy"), <<"routingPolicy", "spec", "rules", "#", "match", "domainSet">>,
                   {<<20, "domainRefs">>}) : Right(p)
  <2> DEFINE path == <<"routingPolicy", "spec", "rules", "#", "match", "domainSet">>
             rows == {<<20, "domainRefs">>}
  <2>1. Last(path) = "domainSet" /\ path # << >> /\ Len(path) = 6 BY DEF Last
  <2> HIDE DEF path
  <2>2. Row("domainRefs", path, "RoutingPolicy", None) = 20 BY <2>1 DEF Row, Lookup, None
  <2>3. \A r \in rows : Row(r[2], path, "RoutingPolicy", None) = Wanted(r[1]) BY <2>2 DEF Wanted
  <2> HIDE DEF rows
  <2>4. \A p \in At(Of(1, "RoutingPolicy"), path, rows) : Right(p) BY <2>1, <2>3, KindRight
  <2>5. QED BY <2>4 DEF path, rows
<1>15. QED BY <1>1, <1>2, <1>3, <1>4, <1>5, <1>6, <1>7, <1>8, <1>9, <1>10, <1>11, <1>12, <1>13, <1>14 DEF Bundle

\* The rows of the arrays of an overlay.
LEMMA OverlayRows == \A p \in Overlay : Right(p)
<1>1. \A p \in At(Of(0, "HostOverlay"), <<"spec">>,
                  {<<21, "bindings">>, <<23, "remoteExpectations">>, <<25, "capabilityCeiling">>}) : Right(p)
  <2> DEFINE path == <<"spec">>
             rows == {<<21, "bindings">>, <<23, "remoteExpectations">>, <<25, "capabilityCeiling">>}
  <2>1. Last(path) = "spec" /\ path # << >> /\ Len(path) = 1 BY DEF Last
  <2> HIDE DEF path
  <2>2. /\ Row("bindings", path, "HostOverlay", None) = 21
        /\ Row("remoteExpectations", path, "HostOverlay", None) = 23
        /\ Row("capabilityCeiling", path, "HostOverlay", None) = 25
    BY <2>1 DEF Row, Lookup, None
  <2>3. \A r \in rows : Row(r[2], path, "HostOverlay", None) = Wanted(r[1]) BY <2>2 DEF Wanted
  <2> HIDE DEF rows
  <2>4. \A p \in At(Of(0, "HostOverlay"), path, rows) : Right(p) BY <2>1, <2>3, KindRight
  <2>5. QED BY <2>4 DEF path, rows
<1>2. \A p \in At(Of(0, "HostOverlay"), <<"spec", "bindings", "#">>, {<<22, "remoteNames">>}) : Right(p)
  <2> DEFINE path == <<"spec", "bindings", "#">>   rows == {<<22, "remoteNames">>}
  <2>1. Last(path) = "#" /\ path # << >> /\ Len(path) = 3 BY DEF Last
  <2> HIDE DEF path
  <2>2. Row("remoteNames", path, "HostOverlay", None) = 22 BY <2>1 DEF Row, Lookup, None
  <2>3. \A r \in rows : Row(r[2], path, "HostOverlay", None) = Wanted(r[1]) BY <2>2 DEF Wanted
  <2> HIDE DEF rows
  <2>4. \A p \in At(Of(0, "HostOverlay"), path, rows) : Right(p) BY <2>1, <2>3, KindRight
  <2>5. QED BY <2>4 DEF path, rows
<1>3. \A p \in At(Of(0, "HostOverlay"), <<"spec", "pathCeiling">>,
                  {<<26, "include">>, <<27, "exclude">>}) : Right(p)
  <2> DEFINE path == <<"spec", "pathCeiling">>   rows == {<<26, "include">>, <<27, "exclude">>}
  <2>1. Last(path) = "pathCeiling" /\ path # << >> /\ Len(path) = 2 BY DEF Last
  <2> HIDE DEF path
  <2>2. /\ Row("include", path, "HostOverlay", None) = 26
        /\ Row("exclude", path, "HostOverlay", None) = 27
    BY <2>1 DEF Row, Lookup, None
  <2>3. \A r \in rows : Row(r[2], path, "HostOverlay", None) = Wanted(r[1]) BY <2>2 DEF Wanted
  <2> HIDE DEF rows
  <2>4. \A p \in At(Of(0, "HostOverlay"), path, rows) : Right(p) BY <2>1, <2>3, KindRight
  <2>5. QED BY <2>4 DEF path, rows
<1>4. \A p \in At(Of(0, "HostOverlay"), <<"spec", "remoteExpectations", "#">>,
                  {<<24, "acceptedRemotes">>}) : Right(p)
  <2> DEFINE path == <<"spec", "remoteExpectations", "#">>   rows == {<<24, "acceptedRemotes">>}
  <2>1. Last(path) = "#" /\ path # << >> /\ "remoteExpectations" \in Range(path) /\ Len(path) = 3
    BY DEF Last, Range
  <2> HIDE DEF path
  <2>2. Row("acceptedRemotes", path, "HostOverlay", None) = 24 BY <2>1 DEF Row, Lookup, None
  <2>3. \A r \in rows : Row(r[2], path, "HostOverlay", None) = Wanted(r[1]) BY <2>2 DEF Wanted
  <2> HIDE DEF rows
  <2>4. \A p \in At(Of(0, "HostOverlay"), path, rows) : Right(p) BY <2>1, <2>3, KindRight
  <2>5. QED BY <2>4 DEF path, rows
<1>5. \A p \in At(Of(0, "HostOverlay"), <<"spec", "remoteExpectations", "#", "acceptedRemotes", "#">>,
                  {<<2, "namespace">>}) : Right(p)
  <2> DEFINE path == <<"spec", "remoteExpectations", "#", "acceptedRemotes", "#">>
             rows == {<<2, "namespace">>}
  <2>1. Last(path) = "#" /\ path # << >> /\ Len(path) = 5 BY DEF Last
  <2> HIDE DEF path
  <2>2. Row("namespace", path, "HostOverlay", None) = NoRow BY <2>1 DEF Row, Lookup, None
  <2>3. \A r \in rows : Row(r[2], path, "HostOverlay", None) = Wanted(r[1]) BY <2>2 DEF Wanted
  <2> HIDE DEF rows
  <2>4. \A p \in At(Of(0, "HostOverlay"), path, rows) : Right(p) BY <2>1, <2>3, KindRight
  <2>5. QED BY <2>4 DEF path, rows
<1>6. \A p \in At(Of(0, "HostOverlay"), <<"spec", "repositoryIdentity">>,
                  {<<1, "acceptedRemotes">>}) : Right(p)
  <2> DEFINE path == <<"spec", "repositoryIdentity">>   rows == {<<1, "acceptedRemotes">>}
  <2>1. Last(path) = "repositoryIdentity" /\ path # << >> /\ "remoteExpectations" \notin Range(path) /\ Len(path) = 2
    BY DEF Last, Range
  <2> HIDE DEF path
  <2>2. Row("acceptedRemotes", path, "HostOverlay", None) = 1 BY <2>1 DEF Row, Lookup, None
  <2>3. \A r \in rows : Row(r[2], path, "HostOverlay", None) = Wanted(r[1]) BY <2>2 DEF Wanted
  <2> HIDE DEF rows
  <2>4. \A p \in At(Of(0, "HostOverlay"), path, rows) : Right(p) BY <2>1, <2>3, KindRight
  <2>5. QED BY <2>4 DEF path, rows
<1>7. QED BY <1>1, <1>2, <1>3, <1>4, <1>5, <1>6 DEF Overlay

\* The rows of the arrays of a contract.
LEMMA ContractRows == \A p \in Contract : Right(p)
<1>1. \A p \in At(Of(0, "TaskContract"), <<"spec">>,
                  {<<28, "domainRefs">>, <<36, "permittedTransitions">>,
                   <<37, "requiredPostconditions">>}) : Right(p)
  <2> DEFINE path == <<"spec">>
             rows == {<<28, "domainRefs">>, <<36, "permittedTransitions">>, <<37, "requiredPostconditions">>}
  <2>1. Last(path) = "spec" /\ path # << >> /\ Len(path) = 1 BY DEF Last
  <2> HIDE DEF path
  <2>2. /\ Row("domainRefs", path, "TaskContract", None) = 28
        /\ Row("permittedTransitions", path, "TaskContract", None) = 36
        /\ Row("requiredPostconditions", path, "TaskContract", None) = 37
    BY <2>1 DEF Row, Lookup, None
  <2>3. \A r \in rows : Row(r[2], path, "TaskContract", None) = Wanted(r[1]) BY <2>2 DEF Wanted
  <2> HIDE DEF rows
  <2>4. \A p \in At(Of(0, "TaskContract"), path, rows) : Right(p) BY <2>1, <2>3, KindRight
  <2>5. QED BY <2>4 DEF path, rows
<1>2. \A p \in At(Of(0, "TaskContract"), <<"spec", "authorizedScope">>, Scope(29)) : Right(p)
  <2> DEFINE path == <<"spec", "authorizedScope">>   rows == Scope(29)
  <2>1. Last(path) = "authorizedScope" /\ path # << >> /\ Len(path) = 2 BY DEF Last
  <2> HIDE DEF path
  <2>2. /\ Row("capabilities", path, "TaskContract", None) = 29
        /\ Row("paths", path, "TaskContract", None) = 29
    BY <2>1 DEF Row, Lookup, None, InventoryRow, BaselineRows
  <2>3. \A r \in rows : Row(r[2], path, "TaskContract", None) = Wanted(r[1]) BY <2>2 DEF Wanted, Scope
  <2> HIDE DEF rows
  <2>4. \A p \in At(Of(0, "TaskContract"), path, rows) : Right(p) BY <2>1, <2>3, KindRight
  <2>5. QED BY <2>4 DEF path, rows
<1>3. \A p \in At(Of(0, "TaskContract"), <<"spec", "prohibitedScope">>, Scope(30)) : Right(p)
  <2> DEFINE path == <<"spec", "prohibitedScope">>   rows == Scope(30)
  <2>1. Last(path) = "prohibitedScope" /\ path # << >> /\ Len(path) = 2 BY DEF Last
  <2> HIDE DEF path
  <2>2. /\ Row("capabilities", path, "TaskContract", None) = 30
        /\ Row("paths", path, "TaskContract", None) = 30
    BY <2>1 DEF Row, Lookup, None, InventoryRow, BaselineRows
  <2>3. \A r \in rows : Row(r[2], path, "TaskContract", None) = Wanted(r[1]) BY <2>2 DEF Wanted, Scope
  <2> HIDE DEF rows
  <2>4. \A p \in At(Of(0, "TaskContract"), path, rows) : Right(p) BY <2>1, <2>3, KindRight
  <2>5. QED BY <2>4 DEF path, rows
<1>4. \A p \in At(Of(0, "TaskContract"), <<"spec", "repositoryIdentity">>,
                  {<<1, "acceptedRemotes">>}) : Right(p)
  <2> DEFINE path == <<"spec", "repositoryIdentity">>   rows == {<<1, "acceptedRemotes">>}
  <2>1. Last(path) = "repositoryIdentity" /\ path # << >> /\ "remoteExpectations" \notin Range(path) /\ Len(path) = 2
    BY DEF Last, Range
  <2> HIDE DEF path
  <2>2. Row("acceptedRemotes", path, "TaskContract", None) = 1 BY <2>1 DEF Row, Lookup, None
  <2>3. \A r \in rows : Row(r[2], path, "TaskContract", None) = Wanted(r[1]) BY <2>2 DEF Wanted
  <2> HIDE DEF rows
  <2>4. \A p \in At(Of(0, "TaskContract"), path, rows) : Right(p) BY <2>1, <2>3, KindRight
  <2>5. QED BY <2>4 DEF path, rows
<1>5. \A p \in At(Of(0, "TaskContract"), <<"spec", "expectedBaseline", "index">>,
                  {<<31, "entries">>}) : Right(p)
  <2> DEFINE path == <<"spec", "expectedBaseline", "index">>   rows == {<<31, "entries">>}
  <2>1. Last(path) = "index" /\ path # << >> /\ Len(path) = 3 BY DEF Last
  <2> HIDE DEF path
  <2>2. Row("entries", path, "TaskContract", None) = 31 BY <2>1 DEF Row, Lookup, None, InventoryRow, BaselineRows
  <2>3. \A r \in rows : Row(r[2], path, "TaskContract", None) = Wanted(r[1]) BY <2>2 DEF Wanted
  <2> HIDE DEF rows
  <2>4. \A p \in At(Of(0, "TaskContract"), path, rows) : Right(p) BY <2>1, <2>3, KindRight
  <2>5. QED BY <2>4 DEF path, rows
<1>6. \A p \in At(Of(0, "TaskContract"), <<"spec", "expectedBaseline", "tracked">>,
                  {<<32, "entries">>}) : Right(p)
  <2> DEFINE path == <<"spec", "expectedBaseline", "tracked">>   rows == {<<32, "entries">>}
  <2>1. Last(path) = "tracked" /\ path # << >> /\ Len(path) = 3 BY DEF Last
  <2> HIDE DEF path
  <2>2. Row("entries", path, "TaskContract", None) = 32 BY <2>1 DEF Row, Lookup, None, InventoryRow, BaselineRows
  <2>3. \A r \in rows : Row(r[2], path, "TaskContract", None) = Wanted(r[1]) BY <2>2 DEF Wanted
  <2> HIDE DEF rows
  <2>4. \A p \in At(Of(0, "TaskContract"), path, rows) : Right(p) BY <2>1, <2>3, KindRight
  <2>5. QED BY <2>4 DEF path, rows
<1>7. \A p \in At(Of(0, "TaskContract"), <<"spec", "expectedBaseline", "untracked">>,
                  {<<33, "paths">>}) : Right(p)
  <2> DEFINE path == <<"spec", "expectedBaseline", "untracked">>   rows == {<<33, "paths">>}
  <2>1. Last(path) = "untracked" /\ path # << >> /\ Len(path) = 3 BY DEF Last
  <2> HIDE DEF path
  <2>2. Row("paths", path, "TaskContract", None) = 33 BY <2>1 DEF Row, Lookup, None, InventoryRow, BaselineRows
  <2>3. \A r \in rows : Row(r[2], path, "TaskContract", None) = Wanted(r[1]) BY <2>2 DEF Wanted
  <2> HIDE DEF rows
  <2>4. \A p \in At(Of(0, "TaskContract"), path, rows) : Right(p) BY <2>1, <2>3, KindRight
  <2>5. QED BY <2>4 DEF path, rows
<1>8. \A p \in At(Of(0, "TaskContract"), <<"spec", "expectedBaseline", "ignored">>,
                  {<<34, "paths">>}) : Right(p)
  <2> DEFINE path == <<"spec", "expectedBaseline", "ignored">>   rows == {<<34, "paths">>}
  <2>1. Last(path) = "ignored" /\ path # << >> /\ Len(path) = 3 BY DEF Last
  <2> HIDE DEF path
  <2>2. Row("paths", path, "TaskContract", None) = 34 BY <2>1 DEF Row, Lookup, None, InventoryRow, BaselineRows
  <2>3. \A r \in rows : Row(r[2], path, "TaskContract", None) = Wanted(r[1]) BY <2>2 DEF Wanted
  <2> HIDE DEF rows
  <2>4. \A p \in At(Of(0, "TaskContract"), path, rows) : Right(p) BY <2>1, <2>3, KindRight
  <2>5. QED BY <2>4 DEF path, rows
<1>9. \A p \in At(Of(0, "TaskContract"), <<"spec", "expectedBaseline", "submodules">>,
                  {<<35, "entries">>}) : Right(p)
  <2> DEFINE path == <<"spec", "expectedBaseline", "submodules">>   rows == {<<35, "entries">>}
  <2>1. Last(path) = "submodules" /\ path # << >> /\ Len(path) = 3 BY DEF Last
  <2> HIDE DEF path
  <2>2. Row("entries", path, "TaskContract", None) = 35 BY <2>1 DEF Row, Lookup, None, InventoryRow, BaselineRows
  <2>3. \A r \in rows : Row(r[2], path, "TaskContract", None) = Wanted(r[1]) BY <2>2 DEF Wanted
  <2> HIDE DEF rows
  <2>4. \A p \in At(Of(0, "TaskContract"), path, rows) : Right(p) BY <2>1, <2>3, KindRight
  <2>5. QED BY <2>4 DEF path, rows
<1>10. \A p \in Post("index", "entries", 38) : Right(p)
  <2>1. Row("entries", Expected, "TaskContract", "index") = 38
    BY ExpectedIs DEF Row, InventoryRow, PostDimension, ExpectedRows, Lookup, None, NoRow
  <2>2. QED BY <2>1, PostRight
<1>11. \A p \in Post("tracked", "entries", 39) : Right(p)
  <2>1. Row("entries", Expected, "TaskContract", "tracked") = 39
    BY ExpectedIs DEF Row, InventoryRow, PostDimension, ExpectedRows, Lookup, None, NoRow
  <2>2. QED BY <2>1, PostRight
<1>12. \A p \in Post("untracked", "paths", 40) : Right(p)
  <2>1. Row("paths", Expected, "TaskContract", "untracked") = 40
    BY ExpectedIs DEF Row, InventoryRow, PostDimension, ExpectedRows, Lookup, None, NoRow
  <2>2. QED BY <2>1, PostRight
<1>13. \A p \in Post("ignored", "paths", 41) : Right(p)
  <2>1. Row("paths", Expected, "TaskContract", "ignored") = 41
    BY ExpectedIs DEF Row, InventoryRow, PostDimension, ExpectedRows, Lookup, None, NoRow
  <2>2. QED BY <2>1, PostRight
<1>14. \A p \in Post("submodule", "entries", 42) : Right(p)
  <2>1. Row("entries", Expected, "TaskContract", "submodule") = 42
    BY ExpectedIs DEF Row, InventoryRow, PostDimension, ExpectedRows, Lookup, None, NoRow
  <2>2. QED BY <2>1, PostRight
<1>15. QED BY <1>1, <1>2, <1>3, <1>4, <1>5, <1>6, <1>7, <1>8, <1>9, <1>10, <1>11, <1>12, <1>13, <1>14 DEF Contract

\* The rows of the arrays of a receipt.
LEMMA ReceiptRows == \A p \in Receipt : Right(p)
<1>1. \A p \in At(Of(0, "ExecutionReceipt"), <<"spec">>,
                  {<<45, "unresolvedCoordinationWarnings">>, <<46, "checks">>, <<48, "changedPaths">>,
                   <<49, "ordinaryOperationEvidence">>, <<51, "reasonCodes">>}) : Right(p)
  <2> DEFINE path == <<"spec">>
             rows == {<<45, "unresolvedCoordinationWarnings">>, <<46, "checks">>, <<48, "changedPaths">>,
                      <<49, "ordinaryOperationEvidence">>, <<51, "reasonCodes">>}
  <2>1. Last(path) = "spec" /\ path # << >> /\ "checks" \notin Range(path) /\ Len(path) = 1 BY DEF Last, Range
  <2> HIDE DEF path
  <2>2. /\ Row("unresolvedCoordinationWarnings", path, "ExecutionReceipt", None) = 45
        /\ Row("checks", path, "ExecutionReceipt", None) = 46
        /\ Row("changedPaths", path, "ExecutionReceipt", None) = 48
        /\ Row("ordinaryOperationEvidence", path, "ExecutionReceipt", None) = 49
        /\ Row("reasonCodes", path, "ExecutionReceipt", None) = 51
    BY <2>1 DEF Row, Lookup, None
  <2>3. \A r \in rows : Row(r[2], path, "ExecutionReceipt", None) = Wanted(r[1]) BY <2>2 DEF Wanted
  <2> HIDE DEF rows
  <2>4. \A p \in At(Of(0, "ExecutionReceipt"), path, rows) : Right(p) BY <2>1, <2>3, KindRight
  <2>5. QED BY <2>4 DEF path, rows
<1>2. \A p \in At(Of(0, "ExecutionReceipt"), <<"spec", "origin", "resolvedTarget">>,
                  {<<43, "domainRefs">>}) : Right(p)
  <2> DEFINE path == <<"spec", "origin", "resolvedTarget">>   rows == {<<43, "domainRefs">>}
  <2>1. Last(path) = "resolvedTarget" /\ path # << >> /\ Len(path) = 3 BY DEF Last
  <2> HIDE DEF path
  <2>2. Row("domainRefs", path, "ExecutionReceipt", None) = 43 BY <2>1 DEF Row, Lookup, None
  <2>3. \A r \in rows : Row(r[2], path, "ExecutionReceipt", None) = Wanted(r[1]) BY <2>2 DEF Wanted
  <2> HIDE DEF rows
  <2>4. \A p \in At(Of(0, "ExecutionReceipt"), path, rows) : Right(p) BY <2>1, <2>3, KindRight
  <2>5. QED BY <2>4 DEF path, rows
<1>3. \A p \in At(Of(0, "ExecutionReceipt"), <<"spec", "origin", "preContractEvidence">>,
                  {<<44, "reasonCodes">>}) : Right(p)
  <2> DEFINE path == <<"spec", "origin", "preContractEvidence">>   rows == {<<44, "reasonCodes">>}
  <2>1. Last(path) = "preContractEvidence" /\ path # << >> /\ "checks" \notin Range(path) /\ Len(path) = 3
    BY DEF Last, Range
  <2> HIDE DEF path
  <2>2. Row("reasonCodes", path, "ExecutionReceipt", None) = 44 BY <2>1 DEF Row, Lookup, None
  <2>3. \A r \in rows : Row(r[2], path, "ExecutionReceipt", None) = Wanted(r[1]) BY <2>2 DEF Wanted
  <2> HIDE DEF rows
  <2>4. \A p \in At(Of(0, "ExecutionReceipt"), path, rows) : Right(p) BY <2>1, <2>3, KindRight
  <2>5. QED BY <2>4 DEF path, rows
<1>4. \A p \in At(Of(0, "ExecutionReceipt"), <<"spec", "checks", "#">>, {<<47, "reasonCodes">>}) : Right(p)
  <2> DEFINE path == <<"spec", "checks", "#">>   rows == {<<47, "reasonCodes">>}
  <2>1. Last(path) = "#" /\ path # << >> /\ "checks" \in Range(path) /\ Len(path) = 3 BY DEF Last, Range
  <2> HIDE DEF path
  <2>2. Row("reasonCodes", path, "ExecutionReceipt", None) = 47 BY <2>1 DEF Row, Lookup, None
  <2>3. \A r \in rows : Row(r[2], path, "ExecutionReceipt", None) = Wanted(r[1]) BY <2>2 DEF Wanted
  <2> HIDE DEF rows
  <2>4. \A p \in At(Of(0, "ExecutionReceipt"), path, rows) : Right(p) BY <2>1, <2>3, KindRight
  <2>5. QED BY <2>4 DEF path, rows
<1>5. \A p \in At(Of(0, "ExecutionReceipt"), <<"spec", "ordinaryOperationEvidence", "#">>,
                  {<<50, "operations">>}) : Right(p)
  <2> DEFINE path == <<"spec", "ordinaryOperationEvidence", "#">>   rows == {<<50, "operations">>}
  <2>1. Last(path) = "#" /\ path # << >> /\ "ordinaryOperationEvidence" \in Range(path) /\ Len(path) = 3
    BY DEF Last, Range
  <2> HIDE DEF path
  <2>2. Row("operations", path, "ExecutionReceipt", None) = 50 BY <2>1 DEF Row, Lookup, None
  <2>3. \A r \in rows : Row(r[2], path, "ExecutionReceipt", None) = Wanted(r[1]) BY <2>2 DEF Wanted
  <2> HIDE DEF rows
  <2>4. \A p \in At(Of(0, "ExecutionReceipt"), path, rows) : Right(p) BY <2>1, <2>3, KindRight
  <2>5. QED BY <2>4 DEF path, rows
<1>6. QED BY <1>1, <1>2, <1>3, <1>4, <1>5 DEF Receipt

\* The rows of the arrays of a delivery envelope.
LEMMA DeliveryRows == \A p \in Delivery : Right(p)
<1>1. \A p \in At(NoKind, << >>, {<<52, "reasonCodes">>}) : Right(p)
  <2> DEFINE path == << >>   rows == {<<52, "reasonCodes">>}
  <2>1. Range(path) = {} /\ path = << >> BY DEF Range
  <2> HIDE DEF path
  <2>2. Row("reasonCodes", path, None, None) = 52 BY <2>1 DEF Row, Lookup, None
  <2>3. \A r \in rows : Row(r[2], path, None, None) = Wanted(r[1]) BY <2>2 DEF Wanted
  <2> HIDE DEF rows
  <2>4. \A p \in At(NoKind, path, rows) : Right(p) BY <2>3, NoKindRight
  <2>5. QED BY <2>4 DEF path, rows
<1>2. QED BY <1>1 DEF Delivery

\* Of all of them.
LEMMA RowsRight == \A p \in DocumentedPlaces : Right(p)
BY BundleRows, OverlayRows, ContractRows, ReceiptRows, DeliveryRows DEF DocumentedPlaces

-----------------------------------------------------------------------------
\* The walk knows of its way what the row depends on.
OnTheWay ==
  /\ place \in Places /\ depth \in Nat
  /\ KindAt(place, depth, kind) /\ TypeAt(place, depth, postType)

\* At first, it knows the kind of the document.
LEMMA InitOnTheWay == Init => OnTheWay
<1>1. SUFFICES ASSUME Init PROVE OnTheWay OBVIOUS
<1>2. KindAt(place, 0, kind)
  <2>1. kind = IF 0 \in DOMAIN place.kinds THEN place.kinds[0] ELSE None BY <1>1 DEF Init
  <2>2. place.kinds = NoKind => kind = None BY <2>1 DEF NoKind
  <2>3. ASSUME NEW level \in DOMAIN place.kinds \cap Nat, place.kinds = Of(level, place.kinds[level])
        PROVE  kind = IF level <= 0 THEN place.kinds[level] ELSE None
    <3>1. DOMAIN place.kinds = {level} BY <2>3 DEF Of
    <3>2. QED BY <2>1, <3>1
  <2>4. QED BY <2>2, <2>3 DEF KindAt
<1>3. TypeAt(place, 0, postType) BY <1>1 DEF Init, TypeAt
<1>4. QED BY <1>1, <1>2, <1>3 DEF Init, OnTheWay

\* One level down, it knows what that level says.
LEMMA NextOnTheWay == OnTheWay /\ [Next]_vars => OnTheWay'
<1>1. SUFFICES ASSUME OnTheWay, [Next]_vars PROVE OnTheWay' OBVIOUS
<1>2. CASE Descend
  <2>1. PICK p, d : p = place /\ d = depth OBVIOUS
  <2>2. place' = p /\ depth' = d + 1 /\ d \in Nat /\ p \in Places BY <1>1, <1>2, <2>1 DEF Descend, OnTheWay
  <2>3. KindAt(p, d, kind) /\ TypeAt(p, d, postType) BY <1>1, <2>1 DEF OnTheWay
  <2>4. KindAt(p, d + 1, kind')
    <3>1. kind' = IF d + 1 \in DOMAIN p.kinds THEN p.kinds[d + 1] ELSE kind BY <1>2, <2>1, <2>2 DEF Descend
    <3>2. p.kinds = NoKind => kind' = None BY <2>3, <3>1 DEF KindAt, NoKind
    <3>3. ASSUME NEW level \in DOMAIN p.kinds \cap Nat, p.kinds = Of(level, p.kinds[level])
          PROVE  kind' = IF level <= d + 1 THEN p.kinds[level] ELSE None
      <4>1. DOMAIN p.kinds = {level} BY <3>3 DEF Of
      <4>2. kind = IF level <= d THEN p.kinds[level] ELSE None BY <2>3, <3>3 DEF KindAt
      <4>3. QED BY <2>2, <3>1, <4>1, <4>2
    <3>4. QED BY <3>2, <3>3 DEF KindAt
  <2>5. TypeAt(p, d + 1, postType')
    <3>1. postType' = IF d > 0 /\ p.path[d] = "requiredPostconditions" THEN p.type ELSE postType
      BY <1>2, <2>1 DEF Descend
    <3>2. postType = IF \E i \in 1 .. d - 1 : p.path[i] = "requiredPostconditions" THEN p.type ELSE None
      BY <2>3 DEF TypeAt
    <3>3. (d + 1) - 1 = d BY <2>2
    <3>4. (\E i \in 1 .. d : p.path[i] = "requiredPostconditions")
            <=> \/ d > 0 /\ p.path[d] = "requiredPostconditions"
                \/ \E i \in 1 .. d - 1 : p.path[i] = "requiredPostconditions" BY <2>2
    <3>5. QED BY <3>1, <3>2, <3>3, <3>4 DEF TypeAt
  <2>6. QED BY <2>2, <2>4, <2>5 DEF OnTheWay
<1>3. CASE UNCHANGED <<place, depth, kind, postType>> BY <1>1, <1>3 DEF OnTheWay, KindAt, TypeAt
<1>4. QED BY <1>1, <1>2, <1>3 DEF Next, CheckArray, Judge, vars

\* So that at the array it has the documented row.
LEMMA WayHasItsRow == OnTheWay => RowIsTheDocumentedOne
<1>1. SUFFICES ASSUME OnTheWay, depth = Len(place.path)
               PROVE  Row(place.field, place.path, kind, postType) = Wanted(place.documented)
  BY DEF RowIsTheDocumentedOne, Wanted
<1>2. Right(place) BY <1>1, RowsRight, PlacesAssumption DEF OnTheWay
<1>3. QED BY <1>1, <1>2 DEF OnTheWay, Right

\* A finding names the row that the matrix has for the place: for every array of
\* the seven documents, by the kinds and types met on the way to it
\* (the walk of _check_canonical_arrays, the arguments of check_array).
THEOREM RowsAreDocumented == Spec => []RowIsTheDocumentedOne
BY InitOnTheWay, NextOnTheWay, WayHasItsRow, PTL DEF Spec

-----------------------------------------------------------------------------
\* On the way nothing is found; at its end the row has been obeyed or not.
Inv == /\ phase \in {"walk", "done"}
       /\ phase = "walk" => ctx = NewContext
       /\ place \in Places
       /\ EveryArrayObeysItsRow

\* An array judged by its documented row is judged as the matrix says.
LEMMA CheckArrayInv ==
  ASSUME Inv, RowIsTheDocumentedOne, CheckArray PROVE Inv'
<1> DEFINE own == place.documented
           row == Row(place.field, place.path, kind, postType)
<1>1. place' = place /\ place \in Places /\ phase' = "done" /\ ctx = NewContext /\ depth = Len(place.path)
  BY DEF Inv, CheckArray, Judge
<1>2. items' \in Arrays BY DEF CheckArray, Judge
<1>3. own \in 1 .. 54 /\ ListOf(items') BY <1>1, <1>2, ArraysAssumption DEF ListOf, Item
<1>4. row = IF own = 2 THEN NoRow ELSE own BY <1>1 DEF RowIsTheDocumentedOne
<1>5. IF row \in Remotes
      THEN \E silent \in SUBSET (IF Unreliable THEN 2 .. Len(items') ELSE {}) :
             ctx' = JudgeRemotes(NewContext, items', silent)
      ELSE ctx' = Report(NewContext, IF row = NoRow \/ InOrder(row, items') THEN {} ELSE {"ARRAY"})
  BY <1>1 DEF CheckArray, Judge
<1> HIDE DEF row, own
<1>6. /\ Verdict(ctx') = "PASS" => Canonical(own, items')
      /\ Canonical(own, items') => Verdict(ctx') # "INVALID"
  <2>1. CASE row \in Remotes
    <3>1. own = row BY <1>4, <2>1 DEF Remotes, NoRow
    <3>2. PICK silent : ctx' = JudgeRemotes(NewContext, items', silent) BY <1>5, <2>1
    <3>3. QED BY <1>3, <2>1, <3>1, <3>2, RemotesAreCanonical
  <2>2. CASE row \notin Remotes
    <3> DEFINE found == IF row = NoRow \/ InOrder(row, items') THEN {} ELSE {"ARRAY"}
    <3>1. ctx' = Report(NewContext, found) BY <1>5, <2>2
    <3>2. found = {} <=> row = NoRow \/ InOrder(row, items') OBVIOUS
    <3>3. found = {} <=> Canonical(own, items')
      <4>1. CASE own = 2 BY <1>4, <3>2, <4>1 DEF Canonical
      <4>2. CASE own # 2
        <5>1. own = row /\ row # NoRow BY <1>3, <1>4, <4>2 DEF NoRow
        <5>2. InOrder(own, items') <=> Canonical(own, items')
          BY <1>3, <2>2, <4>2, <5>1, InOrderIsCanonical
        <5>3. QED BY <3>2, <5>1, <5>2
      <4>3. QED BY <4>1, <4>2
    <3> HIDE DEF found
    <3>4. ctx'.failed <=> found # {} BY <3>1 DEF Report, NewContext
    <3>5. QED BY <3>3, <3>4 DEF Verdict
  <2>3. QED BY <2>1, <2>2
<1>7. QED BY <1>1, <1>6 DEF Inv, EveryArrayObeysItsRow, Done, own

\* Every step keeps the invariant.
LEMMA NextInv == Inv /\ RowIsTheDocumentedOne /\ [Next]_vars => Inv'
<1>1. SUFFICES ASSUME Inv, RowIsTheDocumentedOne, [Next]_vars PROVE Inv' OBVIOUS
<1>2. CASE Descend
  <2>1. phase = "walk" /\ phase' = phase /\ ctx' = ctx /\ place' = place BY <1>2 DEF Descend
  <2>2. QED BY <1>1, <2>1 DEF Inv, EveryArrayObeysItsRow, Done
<1>3. CASE CheckArray BY <1>1, <1>3, CheckArrayInv
<1>4. CASE UNCHANGED vars BY <1>1, <1>4 DEF Inv, EveryArrayObeysItsRow, Done, vars
<1>5. QED BY <1>1, <1>2, <1>3, <1>4 DEF Next

\* Every array of whatever length that is accepted is in the order of its
\* documented row, and none in order is refuted (check_array and the comparison
\* of remotes).
THEOREM ArraysObeyTheirRows == Spec => []EveryArrayObeysItsRow
<1>1. Init => Inv BY DEF Init, Inv, EveryArrayObeysItsRow, Done
<1>2. Inv => EveryArrayObeysItsRow BY DEF Inv
<1>3. QED BY <1>1, <1>2, NextInv, RowsAreDocumented, PTL DEF Spec
=============================================================================
