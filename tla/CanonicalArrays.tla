-------------------------- MODULE CanonicalArrays --------------------------
(***************************************************************************)
(* _check_canonical_arrays of _static_core.py: the walk through a document *)
(* that finds for every array the row of the frozen matrix it obeys, and   *)
(* the rules of a row.  The walk treats every array on its own, so one     *)
(* behaviour goes down one way, to one array.                              *)
(*                                                                         *)
(* An item is an "id", the value that _s or _reference_key makes of it, and*)
(* a "rank": a rule's priority, a binding's role, a transition's dimension,*)
(* an entry's sequence.                                                    *)
(***************************************************************************)
EXTENDS StaticContext, Integers, FiniteSets, SequencesExt

CONSTANTS
  Places,       \* the arrays of the documents: path, field, kinds, type
  Arrays,       \* the contents an array may have
  Unreliable    \* whether the comparison of remotes may stay unanswered

\* Arrays are lists of any length; identities and ranks are ordered.
ASSUME ArraysAssumption ==
  /\ \A v \in Arrays : Len(v) \in Nat /\ v \in [1 .. Len(v) -> [id : Int, rank : Int]]
  /\ \A p \in Places : p.documented \in 1 .. 54

VARIABLES place, depth, kind, postType, items, ctx, phase

vars == <<place, depth, kind, postType, items, ctx, phase>>

None == ""
NoRow == 0

Lookup(table, name) == IF name \in DOMAIN table THEN table[name] ELSE NoRow

PostDimension ==
  [index |-> "index", tracked |-> "tracked", submodule |-> "submodules",
   untracked |-> "untracked", ignored |-> "ignored"]

BaselineRows == [index |-> 31, tracked |-> 32, submodules |-> 35, untracked |-> 33, ignored |-> 34]
ExpectedRows == [index |-> 38, tracked |-> 39, submodules |-> 42, untracked |-> 40, ignored |-> 41]

\* Mutant of InventoryRow: an expected inventory is one of the baseline.
InventoryRowOfBaseline(parent, type) ==
  BaselineRows[IF parent = "expected" THEN PostDimension[type] ELSE parent]

InventoryRow(parent, type) ==
  Lookup(IF type = None THEN BaselineRows ELSE ExpectedRows,
         IF parent = "expected" THEN PostDimension[type] ELSE parent)

\* The row of the array "field" of the object at "path", in a resource of kind
\* "own", in a postcondition of type "type".
Row(field, path, own, type) ==
  LET parent == IF path = << >> THEN None ELSE Last(path)
      pick(name, yes, no) == IF field = name THEN yes ELSE no
  IN CASE field = "acceptedRemotes" -> IF "remoteExpectations" \in Range(path) THEN 24 ELSE 1
       [] field = "namespace" -> NoRow
       [] parent = "permissions" ->
            Lookup([modes |-> 3, permittedCapabilities |-> 4, prohibitedCapabilities |-> 5], field)
       [] parent = "scope" -> [capabilities |-> 6, paths |-> 7][field]
       [] parent = "authorizedScope" -> 29
       [] parent = "prohibitedScope" -> 30
       [] field = "domainRefs" -> IF parent = "domainSet" THEN 20 ELSE IF parent = "resolvedTarget" THEN 43
                                  ELSE IF own = "TaskContract" THEN 28 ELSE 8
       [] parent = "pathScope" -> pick("include", 10, 11)
       [] parent = "pathCeiling" -> pick("include", 26, 27)
       [] parent = "allowed" /\ field \in {"exact", "prefixes"} -> pick("exact", 15, 16)
       [] parent = "denied" /\ field \in {"exact", "prefixes"} -> pick("exact", 17, 18)
       [] \/ field = "entries"
          \/ field = "paths" /\ parent \notin {"scope", "authorizedScope", "prohibitedScope"} ->
            InventoryRow(parent, type)
       [] field = "reasonCodes" ->
            IF parent = "preContractEvidence" THEN 44 ELSE IF "checks" \in Range(path) THEN 47
            ELSE IF own = "ExecutionReceipt" THEN 51 ELSE 52
       [] field = "operations" -> IF "ordinaryOperationEvidence" \in Range(path) THEN 50 ELSE NoRow
       [] OTHER ->
            Lookup([worktreeRoleRefs |-> 9, overlapRefs |-> 12, ownedDomainRefs |-> 13, excludedDomainRefs |-> 14,
                    rules |-> 19, bindings |-> 21, remoteNames |-> 22, remoteExpectations |-> 23,
                    capabilityCeiling |-> 25, permittedTransitions |-> 36, requiredPostconditions |-> 37,
                    unresolvedCoordinationWarnings |-> 45, checks |-> 46, changedPaths |-> 48,
                    ordinaryOperationEvidence |-> 49, domains |-> 53, worktreeRoles |-> 54], field)

-----------------------------------------------------------------------------
\* The rules of a row.

Remotes == {1, 24}
Sequences == {45, 46}

\* The key of each row that has one.
SortKey(row, item) ==
  <<CASE row = 19 -> -item.rank [] row \in {21, 36} -> item.rank [] OTHER -> 0, item.id>>

Less(k, l) == k[1] < l[1] \/ (k[1] = l[1] /\ k[2] < l[2])

\* Mutant of Increasing: equal keys may be neighbours.
IncreasingWeakly(keys) == \A i \in 2 .. Len(keys) : ~Less(keys[i], keys[i - 1])

\* _increasing
Increasing(keys) == \A i \in 2 .. Len(keys) : Less(keys[i - 1], keys[i])

Once(values) == Cardinality(Range(values)) = Len(values)
Ids(values) == [i \in DOMAIN values |-> values[i].id]

\* check_array, and the two arrays whose items are numbered.
InOrder(row, values) ==
  IF row \in Sequences
  THEN (\A i \in DOMAIN values : values[i].rank = i - 1) /\ (row = 46 => Once(Ids(values)))
  ELSE /\ Increasing([i \in DOMAIN values |-> SortKey(row, values[i])])
       /\ row = 19 => Once(Ids(values))

\* The closure "remotes": each two neighbours are compared by the provider,
\* who answers how their texts compare or does not answer.
JudgeRemotes(c, values, silent) ==
  LET pairs == 2 .. Len(values)
      answered == Report(c, {"ARRAY" : i \in {i \in pairs \ silent : values[i - 1].id >= values[i].id}})
  IN IF ~Once(values) THEN Report(c, {"ARRAY"})
     ELSE IF silent = {} THEN answered ELSE Unavailable(answered, "ARRAY", TRUE)

Init ==
  /\ place \in Places
  /\ depth = 0 /\ postType = None /\ items = << >> /\ ctx = NewContext /\ phase = "walk"
  /\ kind = (IF 0 \in DOMAIN place.kinds THEN place.kinds[0] ELSE None)

\* One level down: into a member of an object, or into an item of an array,
\* which in the array of postconditions brings its type.
Descend ==
  /\ phase = "walk" /\ depth < Len(place.path)
  /\ depth' = depth + 1
  /\ kind' = IF depth' \in DOMAIN place.kinds THEN place.kinds[depth'] ELSE kind
  /\ postType' = IF depth > 0 /\ place.path[depth] = "requiredPostconditions" THEN place.type ELSE postType
  /\ UNCHANGED <<place, items, ctx, phase>>

Judge ==
  /\ items' \in Arrays
  /\ LET row == Row(place.field, place.path, kind, postType)
     IN IF row \in Remotes
        THEN \E silent \in SUBSET (IF Unreliable THEN 2 .. Len(items') ELSE {}) :
               ctx' = JudgeRemotes(ctx, items', silent)
        ELSE ctx' = Report(ctx, IF row = NoRow \/ InOrder(row, items') THEN {} ELSE {"ARRAY"})
  /\ phase' = "done"
  /\ UNCHANGED <<place, depth, kind, postType>>

CheckArray == phase = "walk" /\ depth = Len(place.path) /\ Judge

Next == Descend \/ CheckArray

Spec == Init /\ [][Next]_vars
=============================================================================
