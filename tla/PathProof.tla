----------------------------- MODULE PathProof -----------------------------
(***************************************************************************)
(* The two questions asked of the path language: whether a scope widens    *)
(* others (_prove_scope_subset), answered by a breadth-first search of the *)
(* residual product that is repeated without each word found that is not   *)
(* NFC, and whether a path is in a scope (_closed_path_membership).        *)
(*                                                                         *)
(* One pop of the search queue is one step.  The charges of a step are     *)
(* made together, so a count may pass its limit by more than one.  Work    *)
(* units are charged at a finer grain than steps; running out of them is,  *)
(* like any exception and a lack of memory, an Interrupt.                  *)
(***************************************************************************)
EXTENDS GlobLanguage, StaticContext, FiniteSetsExt, SequencesExt

CONSTANT Questions    \* the questions explored

\* A question is about the scope of an overlay and those of domains.  A pattern
\* is what a text has between its slashes, and a text is code points.
ASSUME QuestionsAssumption ==
  \A q \in Questions :
    /\ q.path \in Seq(CodePoints)
    /\ q.scopes \in Seq(Range(q.scopes)) /\ q.scopes # << >>
    /\ \A scope \in Range(q.scopes), side \in {"include", "exclude"} :
         /\ scope[side] \in Seq(Range(scope[side]))
         /\ \A pattern \in Range(scope[side]) :
              /\ pattern \in Seq(Range(pattern)) /\ pattern # << >>
              /\ \A c \in Range(pattern) : c \in Seq(CodePoints) /\ Slash \notin Range(c)

VARIABLES
  question,     \* the call and its operands
  phase,        \* compile, begin, search, walk or done
  counts,       \* charged so far, by budget key
  alphabet,     \* one scalar of every interval, ascending
  predecessor,  \* how each product state was reached first
  queue,        \* product states found and not yet looked at
  excluded,     \* the words removed from the residual
  ctx,          \* the validation context
  answer

vars == <<question, phase, counts, alphabet, predecessor, queue, excluded, ctx, answer>>
searching == <<alphabet, predecessor, queue>>

\* DEFAULT_PROOF_LIMITS, without the work units.
MaxLimits == [nfa |-> 16384, products |-> 250000, transitions |-> 2000000, refinements |-> 1024]
ValidLimits(limits) == \A k \in DOMAIN MaxLimits : limits[k] \in 1 .. MaxLimits[k]

-----------------------------------------------------------------------------
\* The product: every automaton by its scope, its side and its place there.

Scope(k) == question.scopes[k]
Automata ==
  UNION {{<<k, side, j>> : j \in DOMAIN Scope(k)[side]} :
           k \in DOMAIN question.scopes, side \in {"include", "exclude"}}
Pattern(d) == Scope(d[1])[d[2]][d[3]]

StartState ==
  [universe |-> UniverseStart,
   at       |-> [d \in Automata |-> DfaStart(Pattern(d))],
   matched  |-> [i \in DOMAIN excluded |-> 0]]

\* Mutant of Hopeless: a scope that can no longer accept prunes, whichever.
HopelessAnywhere(at) ==
  \E k \in DOMAIN question.scopes :
    \A d \in Automata : d[1] = k /\ d[2] = "include" => at[d] = {}

\* No pattern of the overlay can accept any more.
Hopeless(at) == \A d \in Automata : d[1] = 1 /\ d[2] = "include" => at[d] = {}

\* Mutant of Matched: an excluded word is given up one scalar too early.
MatchedShort(word, n, scalar) ==
  IF n \in 0 .. Len(word) - 2 /\ word[n + 1] = scalar THEN n + 1 ELSE -1

\* How much of an excluded word is matched after one more scalar; -1: none.
Matched(word, n, scalar) ==
  IF n \in 0 .. Len(word) - 1 /\ word[n + 1] = scalar THEN n + 1 ELSE -1

\* The product state after one more scalar, in a set that may be empty.
Step(state, scalar) ==
  {s \in {[universe |-> u,
           at       |-> [d \in Automata |-> DfaStep(Pattern(d), state.at[d], scalar)],
           matched  |-> [i \in DOMAIN excluded |-> Matched(excluded[i], state.matched[i], scalar)]] :
             u \in UniverseStep(state.universe, scalar)} : ~Hopeless(s.at)}

Covers(at, k) ==
  LET accepts(side) == \E d \in Automata : d[1] = k /\ d[2] = side /\ DfaAccepts(Pattern(d), at[d])
  IN accepts("include") /\ ~accepts("exclude")

Accepts(state) ==
  /\ UniverseAccepts(state.universe)
  /\ \A i \in DOMAIN excluded : state.matched[i] # Len(excluded[i])
  /\ Covers(state.at, 1)
  /\ \A k \in DOMAIN question.scopes \ {1} : ~Covers(state.at, k)

Literals ==
  (UNION {UNION {Range(Pattern(d)[i]) : i \in DOMAIN Pattern(d)} : d \in Automata}) \ {Star, Query}

Ascending(S) ==
  [k \in 1 .. Cardinality(S) |-> CHOOSE x \in S : Cardinality({y \in S : y <= x}) = k]

\* The lowest scalar of every interval that some edge can tell apart.
Alphabet ==
  LET points == Literals \cup {0, Dot, Slash, Colon, Backslash, 103, 105, 116}
                  \cup UNION {Range(excluded[i]) : i \in DOMAIN excluded}
      bounds == points \cup {x + 1 : x \in points}
                  \cup {65, 91, 97, 123, 55296, 57344, 1114112}
  IN Ascending(bounds \ ({1114112} \cup Surrogates))

Root == << >>
Witness ==
  LET word[s \in DOMAIN predecessor] ==
        IF predecessor[s] = Root THEN << >>
        ELSE Append(word[predecessor[s][1]], predecessor[s][2])
  IN word[Head(queue)]

-----------------------------------------------------------------------------
Charge(key, n) == [counts EXCEPT ![key] = @ + n]

\* Mutant of Within: the count is compared before the last charge is added.
WithinBefore(c) == \A k \in DOMAIN MaxLimits : c[k] <= question.limits[k] + 1

Within(c) == \A k \in DOMAIN MaxLimits : c[k] <= question.limits[k]

Answer(a, c) == phase' = "done" /\ answer' = a /\ ctx' = c
GiveUp == Answer("unavailable", Unavailable(ctx, "obligation", TRUE))
Go(next) == phase' = next /\ UNCHANGED <<answer, ctx>>

Init ==
  /\ question \in Questions
  /\ phase = "compile" /\ answer = "pending" /\ ctx = NewContext
  /\ counts = [k \in DOMAIN MaxLimits |-> 0]
  /\ alphabet = << >> /\ predecessor = << >> /\ queue = << >> /\ excluded = << >>

\* _closed_path_membership needs the input's provenance; then the budget, the
\* patterns and their automata.
Compile ==
  /\ phase = "compile"
  /\ LET membership == question.call = "membership"
         able == /\ membership => question.provenance
                 /\ ValidLimits(question.limits)
                 /\ \A d \in Automata : Parses(Pattern(d))
     IN IF ~able THEN GiveUp /\ UNCHANGED counts
        ELSE /\ counts' = Charge("nfa", MapThenSumSet(LAMBDA d : NfaStates(Pattern(d)), Automata))
             /\ IF Within(counts') THEN Go(IF membership THEN "walk" ELSE "begin") ELSE GiveUp
  /\ UNCHANGED <<question, searching, excluded>>

\* Mutant of BeginSearch: the start state is queued without an entry of its own.
BeginSearchUnrooted ==
  /\ phase = "begin"
  /\ counts' = Charge("products", 1)
  /\ IF question.unicode /\ Within(counts') THEN Go("search") ELSE GiveUp
  /\ alphabet' = Alphabet
  /\ predecessor' = << >>
  /\ queue' = <<StartState>>
  /\ UNCHANGED <<question, excluded>>

\* A round of the search starts; the table of normal forms must be the known one.
BeginSearch ==
  /\ phase = "begin"
  /\ IF ~question.unicode
     THEN GiveUp /\ UNCHANGED <<counts, searching>>
     ELSE /\ counts' = Charge("products", 1)
          /\ IF Within(counts') THEN Go("search") ELSE GiveUp
          /\ alphabet' = Alphabet
          /\ predecessor' = [s \in {StartState} |-> Root]
          /\ queue' = <<StartState>>
  /\ UNCHANGED <<question, excluded>>

\* The first state of the queue does not accept: its successors are queued.
Expand ==
  /\ phase = "search" /\ queue # << >>
  /\ LET state == Head(queue)
         hits  == [k \in DOMAIN alphabet |-> Step(state, alphabet[k])]
         New(k) == /\ hits[k] # {} /\ hits[k] \cap DOMAIN predecessor = {}
                   /\ \A j \in 1 .. k - 1 : hits[j] # hits[k]
         new   == Ascending({k \in DOMAIN alphabet : New(k)})
         found == [i \in DOMAIN new |-> CHOOSE s \in hits[new[i]] : TRUE]
     IN /\ ~Accepts(state)
        /\ queue' = Tail(queue) \o found
        /\ predecessor' = [s \in DOMAIN predecessor \cup Range(found) |->
                             IF s \in DOMAIN predecessor THEN predecessor[s]
                             ELSE LET i == CHOOSE i \in DOMAIN found : found[i] = s
                                  IN <<state, alphabet[new[i]]>>]
        /\ counts' = [Charge("transitions", Len(alphabet)) EXCEPT !.products = @ + Len(new)]
        /\ IF Within(counts') THEN Go("search") ELSE GiveUp
  /\ UNCHANGED <<question, alphabet, excluded>>

\* Mutant of FindWitness: a word that is not NFC starts the proof afresh.
StartAfresh ==
  /\ phase = "search" /\ queue # << >> /\ Accepts(Head(queue))
  /\ IF Nfc(Witness)
     THEN Answer("refuted", Report(ctx, {"violation"})) /\ UNCHANGED counts
     ELSE Go("begin") /\ counts' = [k \in DOMAIN MaxLimits |-> 0]
  /\ UNCHANGED <<question, searching, excluded>>

\* It accepts: the word that leads to it refutes, or is removed before the next
\* round.
FindWitness ==
  /\ phase = "search" /\ queue # << >> /\ Accepts(Head(queue))
  /\ IF Nfc(Witness)
     THEN /\ Answer("refuted", Report(ctx, {"violation"}))
          /\ UNCHANGED <<counts, excluded>>
     ELSE /\ counts' = Charge("refinements", 1)
          /\ IF Within(counts') THEN Go("begin") /\ excluded' = Append(excluded, Witness)
             ELSE GiveUp /\ UNCHANGED excluded
  /\ UNCHANGED <<question, searching>>

\* Nothing is left to look at: the residual is empty.
Exhaust ==
  /\ phase = "search" /\ queue = << >>
  /\ Answer("proven", ctx)
  /\ UNCHANGED <<question, counts, searching, excluded>>

\* _closed_path_membership: the path is run through the universe and the scope.
Walk ==
  /\ phase = "walk"
  /\ counts' = Charge("transitions", Len(question.path))
  /\ LET path == question.path
         universe[n \in 0 .. Len(path)] ==
           IF n = 0 THEN {UniverseStart}
           ELSE UNION {UniverseStep(u, path[n]) : u \in universe[n - 1]}
         at[n \in 0 .. Len(path)] ==
           IF n = 0 THEN StartState.at
           ELSE [d \in Automata |-> DfaStep(Pattern(d), at[n - 1][d], path[n])]
         inside == /\ \E u \in universe[Len(path)] : UniverseAccepts(u)
                   /\ Covers(at[Len(path)], 1)
     IN IF Within(counts') THEN Answer(IF inside THEN "inside" ELSE "outside", ctx) ELSE GiveUp
  /\ UNCHANGED <<question, searching, excluded>>

\* Work units or memory run out, or something raises.
Interrupt == phase # "done" /\ GiveUp /\ UNCHANGED <<question, counts, searching, excluded>>

Next == \/ Interrupt
        \/ Compile \/ BeginSearch \/ Expand \/ FindWitness \/ Exhaust \/ Walk

Spec == Init /\ [][Next]_vars /\ WF_vars(Next)
=============================================================================
