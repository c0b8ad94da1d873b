---- MODULE FactorMining ----
(***************************************************************************)
(* Mining with the operators of the expression language: AlphaMiner's      *)
(* constants are what FactorDsl makes of a library, a depth and the bounds *)
(* of the filter.                                                          *)
(***************************************************************************)
EXTENDS FactorDsl, AlphaMiner

CONSTANTS Library,         \* the known factors
          MaxDepth,        \* max_depth
          Observations     \* bound: the bars a panel is made of

\* Days are numbers, and no tree of known factors, draws and grafts is too high to recurse into.
ASSUME MiningBounds ==
    /\ MaxDepth \in Nat
    /\ 2 * MaxNodes <= Deepest /\ MaxNodes + MaxDepth <= Deepest
    /\ Library \subseteq Trees
    /\ \A b \in Observations : b.date \in Int

\* No expression with more nodes passes the filter, and none is deeper than its nodes.
Expressions == {e \in RandomExpressions[MaxNodes] : NodeCount[e] <= MaxNodes}
Rejected    == {e \in Expressions : ~Admissible(e, Library)}
AdmittedExpressions == {e : e \in Expressions \ Rejected}     \* an image: TLC lists it once
Drawn     == RandomExpressions[MaxDepth]
Mutations == [e \in AdmittedExpressions |-> Mutants(e, MaxDepth)]
Grafts    == [a, b \in AdmittedExpressions |-> Crossings(a, b)]

\* The miner is run with these; what cannot be evaluated is no tree.
ASSUME Wiring ==
    /\ AdmittedExpressions = Admitted \ Invalid
    /\ Draws = Drawn /\ MutantsOf = Mutations /\ CrossingsOf = Grafts
    /\ Invalid \cap Trees = {}

Mined == ToSet(population) \cup ToSet(nextPopulation)

\* A factor that says another thing of a day when it is given the days after it.
LooksAhead(e) ==
    \E bars \in SUBSET Observations : \E day \in {b.date : b \in bars} :
        ToScores(e, {b \in bars : b.date <= day}) # {s \in ToScores(e, bars) : s.date <= day}

Known     == UNION {ToSet(Collect[known]) : known \in Library}
Misread   == {e \in AdmittedExpressions : Parse(Tokens[e]) # e}
Misgraft  == {e \in AdmittedExpressions : \E index \in 0..(NodeCount[e] - 1), new \in Drawn :
                 LET grafted == Replace(e, index, new)
                 IN  \/ Collect[grafted][index + 1] # new
                     \/ NodeCount[grafted] - NodeCount[new]
                        # NodeCount[e] - NodeCount[Collect[e][index + 1]]}
Lookahead == {e \in AdmittedExpressions : LooksAhead(e)}

\* Whatever bars are missing, the scores of a mined factor for a day are those it would
\* have had with nothing after that day (factor_dsl.py evaluate, to_scores).
ScoresAreCausal == Mined \cap Lookahead = {}

\* A mined factor survives its own serialization, so two never share a key of the fitness
\* cache (factor_dsl.py parse, quanta_alpha.py evaluate).
ReadsBack == Mined \cap Misread = {}

\* A graft lands where the preorder count says and changes nothing else
\* (quanta_alpha.py _collect, _replace).
GraftsLand == Mined \cap Misgraft = {}

\* Nothing mined occurs in a known factor, whole or as a part (alpha_agent.py).
NothingKnown == (Mined \cup ToSet(hall)) \cap Known = {}
====
