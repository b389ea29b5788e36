------------------------------ MODULE MCPlans ------------------------------
(***************************************************************************)
(* Plans for TLC.  A path is in one of the states below; the plan that     *)
(* leads from one state of two paths to another is written honestly, and   *)
(* then one thing in it is made to lie.                                    *)
(***************************************************************************)
EXTENDS PlanProps

TwoPaths == {1, 2}
ModelContents == {"x", "y"}

\* head, index, tracked, sub: sets with at most one member; leaf: untracked,
\* ignored or none; known: the checkout identity the view knows.
File(object) == [mode |-> "100644", object |-> object]
Tracked(status, object, work) ==
  [status |-> status, mode |-> "100644", object |-> object, work |-> work]
Blank == [head |-> {}, index |-> {}, tracked |-> {}, sub |-> {}, leaf |-> "none", known |-> {}]
Listed(object, status, work) ==
  [Blank EXCEPT !.head = {File("o")}, !.index = {File(object)},
                !.tracked = {Tracked(status, object, work)}]

States == [
  none      |-> Blank,
  clean     |-> [Listed("o", "clean", "x") EXCEPT !.known = {"x"}],
  opaque    |-> Listed("o", "clean", "x"),
  staged    |-> Listed("o2", "clean", "x"),
  modified  |-> Listed("o", "modified", "x"),
  rewritten |-> Listed("o", "modified", "y"),
  retyped   |-> Listed("o", "type-changed", "y"),
  deleted   |-> Listed("o", "deleted", "x"),
  removed   |-> [Blank EXCEPT !.head = {File("o")}],
  link      |-> [Blank EXCEPT !.index = {[File("o") EXCEPT !.mode = Gitlink]}, !.sub = {"o"}],
  untracked |-> [Blank EXCEPT !.leaf = "untracked"],
  ignored   |-> [Blank EXCEPT !.leaf = "ignored"]]

\* A function on the paths whose set is not empty.
Collect(f) == [p \in {p \in DOMAIN f : f[p] # {}} |-> CHOOSE v \in f[p] : TRUE]

ViewOf(s) ==
  [head        |-> Word("commit"),
   headEntries |-> Collect([p \in TwoPaths |-> s[p].head]),
   index       |-> Collect([p \in TwoPaths |-> s[p].index]),
   tracked     |-> Collect([p \in TwoPaths |-> s[p].tracked]),
   submodules  |-> Collect([p \in TwoPaths |-> s[p].sub]),
   untracked   |-> {p \in TwoPaths : s[p].leaf = "untracked"},
   ignored     |-> {p \in TwoPaths : s[p].leaf = "ignored"},
   identities  |-> Collect([p \in TwoPaths |-> s[p].known]),
   leafKinds   |-> [p \in TwoPaths |-> "100644"]]

\* The transitions between two views, in canonical order.
Transitions(a, b) ==
  LET all == [i \in 1 .. 8 |->
                LET d == <<"ignored", "index", "tracked", "untracked">>[(i + 1) \div 2]
                    p == IF i % 2 = 1 THEN 1 ELSE 2
                IN [dimension |-> d, path |-> p, from |-> TargetValue(a, d, p),
                    to |-> TargetValue(b, d, p), jcs |-> TRUE]]
  IN SelectSeq(all, LAMBDA t : t.from # t.to)

Plan(a, b) ==
  LET view == ViewOf(a)
      ts == Transitions(view, ViewOf(b))
      end == Apply(view, ts)
      paths == {t.path : t \in Range(ts)}
      changed == {t.dimension : t \in Range(ts)}
  IN [view |-> view, baseline |-> Project(view), transitions |-> ts, allowWrite |-> TRUE,
      authorized |-> [paths |-> paths,
                      capabilities |-> Effects(view, end) \cup {"git-stage" : d \in changed \cap {"index"}}],
      prohibited |-> [paths |-> {}, capabilities |-> {}],
      posts |-> [d \in changed |-> Project(end)[d]], scopeContained |-> TRUE]

\* Every change of one path, beside one of another path or none.
Beside == {<<"none", "none">>, <<"opaque", "modified">>, <<"untracked", "none">>, <<"staged", "staged">>}
Pair(x, y) == <<States[x], States[y]>>
HonestPlans == {Plan(Pair(a, b[1]), Pair(c, b[2])) : a \in DOMAIN States, c \in DOMAIN States, b \in Beside}

Lies(q) ==
  LET ts == q.transitions
      edit(i, field, value) == [q EXCEPT !.transitions[i] = [@ EXCEPT ![field] = value]]
      values(d) == IF d \in PathSets THEN {{}, {"present"}}
                   ELSE IF d = "index" THEN {{}, {File("o")}, {File("o2")}}
                   ELSE {{}, {Tracked("clean", "o", "x")}, {Tracked("modified", "o2", "y")}}
  IN UNION {
       {edit(i, field, v) : field \in {"from", "to"}, v \in values(ts[i].dimension)} \cup
       {edit(i, "jcs", FALSE),
        [q EXCEPT !.transitions = SelectSeq(@, LAMBDA t : t # ts[i])],
        [q EXCEPT !.transitions = Append(@, ts[i])],
        [q EXCEPT !.authorized.paths = @ \ {ts[i].path}],
        [q EXCEPT !.prohibited.paths = {ts[i].path}]} : i \in DOMAIN ts} \cup
     {[q EXCEPT !.transitions = Reverse(ts)],
      [q EXCEPT !.scopeContained = FALSE],
      [q EXCEPT !.baseline.head = Word("unborn"), !.view.head = Word("unborn")],
      [q EXCEPT !.baseline.head = Word("unborn")],
      [q EXCEPT !.view.leafKinds = << >>],
      [q EXCEPT !.view.leafKinds = [p \in TwoPaths |-> "040000"]],
      [q EXCEPT !.view.untracked = @ \cup {1}],
      [q EXCEPT !.view.ignored = @ \cup {2}],
      [q EXCEPT !.view.identities = << >>],
      [q EXCEPT !.posts = [d \in DOMAIN @ \cup {"submodules", "head"} |-> q.baseline[d]]]} \cup
     {[q EXCEPT !.authorized.capabilities = @ \ {c}] : c \in q.authorized.capabilities} \cup
     {[q EXCEPT !.prohibited.capabilities = {c}] : c \in q.authorized.capabilities} \cup
     {[q EXCEPT !.posts = Drop(@, d)] : d \in DOMAIN q.posts} \cup
     {[q EXCEPT !.posts = Put(@, d, Bare(d))] : d \in Inventories} \cup
     {[q EXCEPT !.baseline[d] = Bare(d)] : d \in Inventories} \cup
     {[q EXCEPT !.baseline[d] = Exact(q.view[d])] : d \in Inventories}

\* The plans that one lie is told about.
Some == {Plan(Pair(a, "opaque"), Pair(c, "modified")) :
           a \in DOMAIN States, c \in {"clean", "staged", "removed", "untracked"}}
  \cup {Plan(Pair(a, b), Pair(c, d)) :
          <<a, b, c, d>> \in {<<"modified", "none", "rewritten", "untracked">>,
                              <<"staged", "untracked", "clean", "ignored">>,
                              <<"deleted", "ignored", "none", "none">>,
                              <<"retyped", "clean", "opaque", "staged">>,
                              <<"link", "ignored", "none", "untracked">>}}

ModelPlans == HonestPlans \cup UNION {Lies(q) : q \in Some}
ReadOnlyPlans == {[Plan(Pair(a, b), Pair(a, b)) EXCEPT !.allowWrite = FALSE] :
                    a \in DOMAIN States, b \in DOMAIN States}
SilentPlans == ModelPlans \cup ReadOnlyPlans
=============================================================================
