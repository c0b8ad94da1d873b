---- MODULE AlphaMiner ----
(***************************************************************************)
(* mine_alphas of src/signals/discovery/quanta_alpha.py: a population of   *)
(* factor expressions is bred for some generations, and the best of the    *)
(* last one are returned with the number of candidates evaluated.          *)
(*                                                                         *)
(* Expressions and what the genetic operators make of them are constants.  *)
(* The fitness of an expression is open, and decided when it is evaluated  *)
(* first; the cache keeps it.  A tournament is won by any member: every    *)
(* contender may be the same.                                              *)
(***************************************************************************)
EXTENDS Integers, SequencesExt, FiniteSetsExt

CONSTANTS Admitted,         \* the expressions decay_resistance_filter accepts
          Draws,            \* what random_expression draws
          MutantsOf,        \* what mutate makes of an admitted expression
          CrossingsOf,      \* what crossover makes of two
          Seeds,            \* bound: what propose, the hook for a language model, may return
          Invalid,          \* seeds that pass the filter and cannot be evaluated
          Fitnesses,        \* bound: the fitness of an expression with a computable IC
          PopulationSize, EliteCount, HallOfFame,
          MaxGenerations    \* bound: the generations tried

NegInf == -1                \* the fitness of an expression without one

ASSUME MinerAssumption ==
    /\ {PopulationSize, HallOfFame} \subseteq Nat \ {0}
    /\ {EliteCount, MaxGenerations} \subseteq Nat
    /\ Fitnesses \subseteq Nat

VARIABLES step, generations, generation, population, nextPopulation,
          cache,            \* fitness_cache
          nEvaluated, hall

vars == <<step, generations, generation, population, nextPopulation, cache, nEvaluated, hall>>

Init == /\ step = "propose"
        /\ generations \in 0..MaxGenerations
        /\ generation = 0
        /\ population = <<>> /\ nextPopulation = <<>>
        /\ cache = [e \in {} |-> NegInf]
        /\ nEvaluated = 0
        /\ hall = <<>>

\* Every cache that may result from evaluating exprs.
Evaluated(exprs) ==
    {[e \in DOMAIN cache \cup exprs |-> IF e \in DOMAIN cache THEN cache[e] ELSE fitness[e]]
        : fitness \in [exprs \ DOMAIN cache -> Fitnesses \cup {NegInf}]}

\* The positions of pop that sorted() puts before position i: the fitter ones, and equals in
\* their order.
Ahead(i, pop, fitness) ==
    {j \in DOMAIN pop : \/ fitness[pop[j]] > fitness[pop[i]]
                        \/ fitness[pop[j]] = fitness[pop[i]] /\ j < i}

Ranked(pop, fitness) ==
    [k \in DOMAIN pop |->
        pop[CHOOSE i \in DOMAIN pop : Cardinality(Ahead(i, pop, fitness)) = k - 1]]

Top(n, seq) == SubSeq(seq, 1, Min({n, Len(seq)}))

\* The proposals that pass the filter seed the population.
Propose ==
    /\ step = "propose"
    /\ population' \in BoundedSeq(Seeds \cap Admitted, PopulationSize)
    /\ step' = "fill"
    /\ UNCHANGED <<generations, generation, nextPopulation, cache, nEvaluated, hall>>

\* The rest is drawn, again and again until enough of it passes.
Fill ==
    /\ step = "fill"
    /\ IF Len(population) < PopulationSize
       THEN /\ \E e \in Draws \cap Admitted : population' = Append(population, e)
            /\ UNCHANGED step
       ELSE step' = "rank" /\ UNCHANGED population
    /\ UNCHANGED <<generations, generation, nextPopulation, cache, nEvaluated, hall>>

Evaluable(pop) == ToSet(pop) \cap Invalid = {}

\* Evaluating an invalid expression raises.
Raise ==
    /\ step = "rank" /\ ~Evaluable(population)
    /\ step' = "raised"
    /\ UNCHANGED <<generations, generation, population, nextPopulation, cache, nEvaluated, hall>>

\* A slip of Rank, for the runs to refute: the first survive, not the fittest.
RankNot ==
    /\ step = "rank" /\ Evaluable(population) /\ generation < generations
    /\ cache' \in Evaluated(ToSet(population))
    /\ nextPopulation' = Top(EliteCount, population)
    /\ step' = "breed"
    /\ UNCHANGED <<generations, generation, population, nEvaluated, hall>>

\* The fittest survive.
Rank ==
    /\ step = "rank" /\ Evaluable(population) /\ generation < generations
    /\ cache' \in Evaluated(ToSet(population))
    /\ nextPopulation' = Top(EliteCount, Ranked(population, cache'))
    /\ step' = "breed"
    /\ UNCHANGED <<generations, generation, population, nEvaluated, hall>>

Children ==
    UNION {MutantsOf[a] \cup UNION {CrossingsOf[a, b] : b \in ToSet(population)}
           : a \in ToSet(population)}

\* A child that passes, or instead of one that does not a fresh draw that passes.
Newborn ==
    (Children \cap Admitted) \cup IF Children \subseteq Admitted THEN {} ELSE Draws \cap Admitted

Breed ==
    /\ step = "breed" /\ Len(nextPopulation) < PopulationSize
    /\ \E e \in Newborn : nextPopulation' = Append(nextPopulation, e)
    /\ UNCHANGED <<step, generations, generation, population, cache, nEvaluated, hall>>

\* The log line of a generation names its best member, and so evaluates all.
EndGeneration ==
    /\ step = "breed" /\ Len(nextPopulation) >= PopulationSize
    /\ population' = nextPopulation /\ nextPopulation' = <<>>
    /\ cache' \in Evaluated(ToSet(nextPopulation))
    /\ generation' = generation + 1
    /\ step' = "rank"
    /\ UNCHANGED <<generations, nEvaluated, hall>>

\* The orders sorted() may give a set: equals come as their hashes fall.
Orders(exprs, fitness) ==
    {order \in SetToSeqs(exprs) :
        \A i, j \in DOMAIN order : i < j => fitness[order[i]] >= fitness[order[j]]}

\* A slip of Halls, for the runs to refute: the infinite are kept.
HallsUnfiltered(exprs, fitness) == {Top(HallOfFame, order) : order \in Orders(exprs, fitness)}

\* The halls of fame of a population: the infinite are passed over.
Halls(exprs, fitness) ==
    {Top(HallOfFame, order) : order \in Orders({e \in exprs : fitness[e] # NegInf}, fitness)}

\* The count is taken, then the last population is ranked and its best returned.
Finish ==
    /\ step = "rank" /\ Evaluable(population) /\ generation = generations
    /\ nEvaluated' = Cardinality(DOMAIN cache)
    /\ cache' \in Evaluated(ToSet(population))
    /\ hall' \in Halls(ToSet(population), cache')
    /\ step' = "done"
    /\ UNCHANGED <<generations, generation, population, nextPopulation>>

Next == Propose \/ Fill \/ Raise \/ Rank \/ Breed \/ EndGeneration \/ Finish

Spec == Init /\ [][Next]_vars
---------------------------------------------------------------------------
Best(pop, fitness) == Max({fitness[e] : e \in ToSet(pop) \cap DOMAIN fitness})

\* If anything survives a generation, the best factor found so far does
\* (quanta_alpha.py mine_alphas, elite_count).
BestIsKept ==
    [][EliteCount > 0 /\ step = "breed" /\ step' = "rank" =>
         \A e \in DOMAIN cache : Best(population', cache') >= cache[e]]_vars

\* What is returned passed the filter, has a computable IC, comes once and fittest first;
\* nothing fitter of the last population is left out; and the number returned for the
\* multiple-testing budget counts every candidate whose fitness was computed, unless no
\* generation was asked for (quanta_alpha.py mine_alphas: hall, n_evaluated).
HallIsBest ==
    step = "done" =>
        /\ IsInjective(hall)
        /\ ToSet(hall) \subseteq Admitted
        /\ \A e \in ToSet(hall) : cache[e] # NegInf
        /\ \A i, j \in DOMAIN hall : i < j => cache[hall[i]] >= cache[hall[j]]
        /\ \A e \in ToSet(population) \ ToSet(hall) :
             cache[e] = NegInf \/ (/\ Len(hall) = HallOfFame
                                   /\ \A f \in ToSet(hall) : cache[f] >= cache[e])
        /\ generations > 0 => nEvaluated = Cardinality(DOMAIN cache)
====
