------------------------------ MODULE MCPaths ------------------------------
(***************************************************************************)
(* Questions for PathProof.                                                *)
(***************************************************************************)
EXTENDS PathProps

A      == <<97>>
B      == <<98>>
One    == <<Query>>
Wild   == <<Star>>
Deep   == Doubled
Accent == <<101, Acute>>     \* not NFC

ModelSample == {Dot, Colon, 97, 98, 101, Acute}

\* Patterns that meet every construct of the compilers.
Simple == { <<A>>, <<One>>, <<Wild>>, <<Deep>>, <<A, Deep>>, <<Deep, A>>, <<A, Deep, B>>,
            <<Deep, Deep>>, <<Wild, One>>, <<Wild \o A>>, <<A \o Wild>>, <<One \o Wild>>, <<Accent>> }

Only(pattern) == [include |-> <<pattern>>, exclude |-> << >>]
Except(pattern, other) == [include |-> <<pattern>>, exclude |-> <<other>>]
Both(one, other) == [include |-> <<one, other>>, exclude |-> << >>]
Nothing == [include |-> << >>, exclude |-> << >>]

Ample == [MaxLimits EXCEPT !.refinements = 3]
Subset(scopes) == [call |-> "subset", scopes |-> scopes, limits |-> Ample, unicode |-> TRUE,
                   path |-> << >>, provenance |-> TRUE]
Member(scope, path) == [Subset(<<scope>>) EXCEPT !.call = "membership", !.path = path]

Pairs == {Subset(<<Only(p), Only(q)>>) : p \in Simple, q \in Simple}

Git == <<Dot, 103, 105>>
Composite == {Subset(s) : s \in {
  <<Nothing, Only(<<A>>)>>, <<Only(<<A>>)>>, <<Only(<<Accent>>)>>,
  <<Both(<<A>>, <<B>>), Only(<<A>>), Only(<<B>>)>>,
  <<Both(<<A>>, <<B>>), Only(<<A>>), Only(<<One, A>>)>>,
  <<Except(<<A, Deep>>, <<A, B>>), Except(<<Deep>>, <<A, B>>)>>,
  <<Only(<<A, Deep>>), Except(<<A, Deep>>, <<A, B>>)>>,
  <<Only(<<A, Wild>>), Except(<<Deep>>, <<Wild, B>>), Only(<<Wild, B>>)>>,
  <<Except(<<Wild>>, <<One>>), Only(<<One \o One \o Wild>>)>>,
  <<Only(<<Git \o One>>), Except(<<Git \o One>>, <<One \o SubSeq(Git, 2, 3) \o <<116>>>>)>>,
  <<Only(<<A \o One \o One>>), Except(<<Deep>>, <<One \o <<Colon>> \o One>>)>>,
  <<Both(<<Accent>>, <<A \o <<Acute>>>>)>>, <<Both(<<Accent>>, <<<<233>>>>)>>,
  <<Only(<<One \o <<Acute>>>>), Only(<<<<102>> \o Wild>>)>>,
  <<Both(<<Accent, Wild>>, <<Deep, Accent>>), Only(<<One \o One \o Wild>>)>>,
  <<Except(<<Wild \o <<Acute>>>>, <<Wild \o <<Acute, Acute>>>>), Only(<<One>>)>> }}

Ungrammatical == {Subset(<<Only(p), Only(<<Deep>>)>>) : p \in
  {<< << >> >>, <<A, << >>, B>>, <<Git \o <<116>>>>, <<A, Git \o <<116>>, B>>, <<A, <<Dot, Dot>>>>,
   <<A \o Doubled>>, <<<<Star, Star, Star>>>>, <<<<33>> \o A>>, <<A \o <<Colon>>, A>>} }
  \cup {Subset(<<Only(<<A>>), Only(<<A, <<Dot>>>>)>>)}

\* Budgets that run out at every place where they are charged.
Tight == {[Subset(s) EXCEPT !.limits = [Ample EXCEPT ![k] = n]] :
            k \in DOMAIN MaxLimits, n \in {0, 1, 3, 30, 100},
            s \in {<<Only(<<A, Wild>>), Only(<<A, Deep>>)>>,
                   <<Both(<<Accent>>, <<A \o <<Acute>>>>)>>}}
  \cup {[Subset(<<Only(<<A>>)>>) EXCEPT !.unicode = FALSE]}

Texts == { <<97>>, <<97, Slash, 98>>, <<97, Slash, Slash, 98>>, <<97, Slash>>, <<97, Colon>>,
           <<Dot>>, <<97, Slash, Dot, Dot>>, <<Dot, 103, 105, 116>>, <<97, 97, 98, 98, 97>>,
           <<97, Slash, 97, Slash, 98>>, << >>, <<101, Acute>>, <<0>>, <<Backslash>> }
Members == {Member(Only(p), t) : p \in Simple, t \in Texts}
  \cup {Member(Except(<<Deep>>, <<A, Deep>>), t) : t \in Texts}
  \cup {[Member(Only(<<A>>), <<97>>) EXCEPT !.provenance = FALSE],
        [Member(Only(<<A>>), <<97, 98, 97>>) EXCEPT !.limits = [Ample EXCEPT !.transitions = 2]]}

ModelQuestions == Pairs \cup Composite \cup Ungrammatical \cup Tight \cup Members
BudgetQuestions == Composite \cup Tight
=============================================================================
