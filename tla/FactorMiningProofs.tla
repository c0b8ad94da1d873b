---- MODULE FactorMiningProofs ----
(***************************************************************************)
(* Theorems about AlphaMiner, for any expressions, genetic operators,      *)
(* fitness, population, elite, hall of fame and number of generations, and *)
(* about FactorMining, for any features, operators, windows, bounds of the *)
(* filter, known factors and bars.                                         *)
(***************************************************************************)
EXTENDS FactorMining, FiniteSetTheorems, SequenceTheorems, WellFoundedInduction, TLAPS

--------------------------------------------------------------------------------
(* Least, fittest, ranked                                                       *)

\* A nonempty set of numbers has a least one.
LEMMA Least ==
  ASSUME NEW T \in SUBSET Nat, T # {}
  PROVE  \E m \in T : \A n \in T : m <= n
<1>1. \E m \in T : \A n \in T : ~(<<n, m>> \in OpToRel(<, Nat))
  BY NatLessThanWellFounded, WFMin, Zenon
<1>2. \A m, n \in T : n < m => <<n, m>> \in OpToRel(<, Nat)
  BY Zenon DEF OpToRel
<1>3. \E m \in T : \A n \in T : ~(n < m)
  BY <1>1, <1>2, Zenon
<1> QED BY <1>3

\* The least of two numbers.
LEMMA LeastOfTwo ==
  ASSUME NEW m \in Nat, NEW n \in Nat
  PROVE  Min({m, n}) = IF m <= n THEN m ELSE n
<1> DEFINE x == IF m <= n THEN m ELSE n
<1>1. x \in {m, n} /\ \A y \in {m, n} : x <= y
  OBVIOUS
<1>2. \A z \in {m, n} : (\A y \in {m, n} : z <= y) => z = x
  OBVIOUS
<1> QED BY <1>1, <1>2 DEF Min

\* The elements of a sequence are finitely many.
LEMMA ToSetFacts ==
  ASSUME NEW S, NEW s \in Seq(S)
  PROVE  /\ Len(s) \in Nat /\ DOMAIN s = 1..Len(s)
         /\ \A i \in 1..Len(s) : s[i] \in ToSet(s)
         /\ ToSet(s) \subseteq S
         /\ IsFiniteSet(ToSet(s))
         /\ s # <<>> => ToSet(s) # {} /\ Len(s) > 0
<1>1. Len(s) \in Nat /\ DOMAIN s = 1..Len(s) /\ \A i \in 1..Len(s) : s[i] \in S
  BY LenProperties, ElementOfSeq
<1>2. ToSet(s) = {s[i] : i \in 1..Len(s)}
  BY <1>1 DEF ToSet
<1>3. IsFiniteSet(ToSet(s))
  <2> DEFINE f == [i \in 1..Len(s) |-> s[i]]
  <2>1. f \in Surjection(1..Len(s), ToSet(s))
    BY <1>2 DEF Surjection
  <2>2. IsFiniteSet(1..Len(s))
    BY <1>1, FS_Interval
  <2> QED BY <2>1, <2>2, FS_Surjection
<1>4. s # <<>> => Len(s) > 0
  BY <1>1, EmptySeq
<1>5. Len(s) > 0 => 1 \in 1..Len(s)
  BY <1>1
<1> QED BY <1>1, <1>2, <1>3, <1>4, <1>5

\* Of finitely many, one is the fittest: the one that has the fewest above it.
LEMMA Fittest ==
  ASSUME NEW S, IsFiniteSet(S), S # {}, NEW fitness, \A x \in S : fitness[x] \in Int
  PROVE  \E m \in S : \A x \in S : fitness[m] >= fitness[x]
<1> DEFINE Above(x) == {y \in S : fitness[y] > fitness[x]}
           Counts == {Cardinality(Above(x)) : x \in S}
<1>1. \A x \in S : IsFiniteSet(Above(x)) /\ Cardinality(Above(x)) \in Nat
  BY FS_Subset, FS_CardinalityType
<1>2. Counts \in SUBSET Nat /\ Counts # {}
  BY <1>1
<1>3. PICK c \in Counts : \A d \in Counts : c <= d
  BY <1>2, Least
<1>4. PICK m \in S : c = Cardinality(Above(m))
  BY <1>3
<1>5. ASSUME NEW x \in S, ~(fitness[m] >= fitness[x]) PROVE FALSE
  <2>1. x \in Above(m) /\ x \notin Above(x) /\ Above(x) \subseteq Above(m)
    BY <1>5
  <2>2. Cardinality(Above(x)) <= Cardinality(Above(m)) /\ Cardinality(Above(m)) # Cardinality(Above(x))
    BY <1>1, <2>1, FS_Subset
  <2>3. c <= Cardinality(Above(x))
    BY <1>3
  <2> HIDE DEF Above
  <2> QED BY <1>1, <1>4, <2>2, <2>3
<1> QED BY <1>5

\* The numbers from 1 tell their count, and there are n from 0 to n - 1.
LEMMA Intervals ==
  ASSUME NEW m \in Nat, NEW n \in Nat
  PROVE  /\ 1..m = 1..n => m = n
         /\ IsFiniteSet(0..(n - 1)) /\ Cardinality(0..(n - 1)) = n
<1>1. ASSUME m # n PROVE 1..m # 1..n
  <2>1. m \in 1..m \/ m = 0
    OBVIOUS
  <2>2. n \in 1..n \/ n = 0
    OBVIOUS
  <2>3. m \notin 1..n \/ n \notin 1..m
    BY <1>1
  <2>4. m = 0 => n \notin 1..m
    OBVIOUS
  <2>5. n = 0 => m \notin 1..n
    OBVIOUS
  <2> QED BY <1>1, <2>1, <2>2, <2>3, <2>4, <2>5
<1>2. IsFiniteSet(0..(n - 1)) /\ Cardinality(0..(n - 1)) = IF 0 > n - 1 THEN 0 ELSE (n - 1) - 0 + 1
  BY FS_Interval
<1>3. (IF 0 > n - 1 THEN 0 ELSE (n - 1) - 0 + 1) = n
  OBVIOUS
<1> QED BY <1>1, <1>2, <1>3

\* Of two members one is ahead of the other, and has fewer ahead of it.
LEMMA AheadFacts ==
  ASSUME NEW S, NEW pop \in Seq(S), NEW fitness,
         \A i \in DOMAIN pop : fitness[pop[i]] \in Int
  PROVE  /\ \A i \in DOMAIN pop : /\ IsFiniteSet(Ahead(i, pop, fitness))
                                  /\ Cardinality(Ahead(i, pop, fitness)) \in 0..(Len(pop) - 1)
         /\ \A i, j \in DOMAIN pop :
               i # j => Cardinality(Ahead(i, pop, fitness)) # Cardinality(Ahead(j, pop, fitness))
<1> DEFINE D == DOMAIN pop
           n == Len(pop)
           A(i) == Ahead(i, pop, fitness)
           fit(i) == fitness[pop[i]]
<1>1. n \in Nat /\ D = 1..n /\ IsFiniteSet(D) /\ Cardinality(D) = n
  BY LenProperties, FS_Interval
<1>2. \A i \in D : /\ A(i) \in SUBSET D /\ i \notin A(i)
                   /\ \A j \in D : j \in A(i) <=> fit(j) > fit(i) \/ (fit(j) = fit(i) /\ j < i)
  BY <1>1 DEF Ahead
<1>3. \A i \in D : fit(i) \in Int
  OBVIOUS
<1> HIDE DEF A, D, n, fit
<1>4. ASSUME NEW i \in D PROVE IsFiniteSet(A(i)) /\ Cardinality(A(i)) \in 0..(n - 1)
  <2>1. IsFiniteSet(A(i)) /\ Cardinality(A(i)) <= n /\ (Cardinality(A(i)) = n => A(i) = D)
    BY <1>1, <1>2, FS_Subset
  <2>2. Cardinality(A(i)) \in Nat
    BY <2>1, FS_CardinalityType
  <2>3. Cardinality(A(i)) # n
    BY <1>2, <2>1
  <2> QED BY <1>1, <2>1, <2>2, <2>3
<1>5. ASSUME NEW i \in D, NEW j \in D, j \in A(i) PROVE Cardinality(A(j)) # Cardinality(A(i))
  <2>1. A(j) \subseteq A(i)
    <3> SUFFICES ASSUME NEW k \in D, k \in A(j) PROVE k \in A(i)
      BY <1>2
    <3>1. i \in Int /\ j \in Int /\ k \in Int /\ fit(i) \in Int /\ fit(j) \in Int /\ fit(k) \in Int
      BY <1>1, <1>3
    <3>2. fit(k) > fit(j) \/ (fit(k) = fit(j) /\ k < j)
      BY <1>2
    <3>3. fit(j) > fit(i) \/ (fit(j) = fit(i) /\ j < i)
      BY <1>2, <1>5
    <3>4. fit(k) > fit(i) \/ (fit(k) = fit(i) /\ k < i)
      BY <3>1, <3>2, <3>3
    <3> QED BY <1>2, <3>4
  <2>2. A(j) # A(i)
    BY <1>2, <1>5
  <2> QED BY <1>4, <2>1, <2>2, FS_Subset
<1>6. \A i, j \in D : i # j => j \in A(i) \/ i \in A(j)
  <2> SUFFICES ASSUME NEW i \in D, NEW j \in D, i # j PROVE j \in A(i) \/ i \in A(j)
    OBVIOUS
  <2>1. i \in Int /\ j \in Int /\ fit(i) \in Int /\ fit(j) \in Int
    BY <1>1, <1>3
  <2>2. fit(j) > fit(i) \/ (fit(j) = fit(i) /\ j < i) \/ fit(i) > fit(j) \/ (fit(i) = fit(j) /\ i < j)
    BY <2>1
  <2> QED BY <1>2, <2>2
<1>7. \A i, j \in D : i # j => Cardinality(A(i)) # Cardinality(A(j))
  BY <1>5, <1>6
<1> QED BY <1>4, <1>7 DEF A, D, n

\* sorted() gives the members of a population another order, and the fittest comes first.
LEMMA RankedFacts ==
  ASSUME NEW S, NEW pop \in Seq(S), NEW fitness,
         \A i \in DOMAIN pop : fitness[pop[i]] \in Int
  PROVE  /\ Ranked(pop, fitness) \in Seq(ToSet(pop))
         /\ Len(Ranked(pop, fitness)) = Len(pop)
         /\ pop # <<>> => \A e \in ToSet(pop) : fitness[Ranked(pop, fitness)[1]] >= fitness[e]
<1> DEFINE D == DOMAIN pop
           n == Len(pop)
           count == [i \in D |-> Cardinality(Ahead(i, pop, fitness))]
           at(k) == CHOOSE i \in D : Cardinality(Ahead(i, pop, fitness)) = k - 1
<1>1. n \in Nat /\ D = 1..n /\ IsFiniteSet(D) /\ Cardinality(D) = n
  BY LenProperties, FS_Interval
<1>2. IsFiniteSet(0..(n - 1)) /\ Cardinality(0..(n - 1)) = n
  BY <1>1, Intervals
<1>3. count \in Injection(D, 0..(n - 1))
  BY AheadFacts DEF Injection, IsInjective
<1>4. count \in Surjection(D, 0..(n - 1))
  <2> HIDE DEF count, D, n
  <2> QED BY <1>1, <1>2, <1>3, FS_Injection
<1>5. ASSUME NEW k \in D PROVE at(k) \in D /\ Cardinality(Ahead(at(k), pop, fitness)) = k - 1
  <2>1. k - 1 \in 0..(n - 1)
    BY <1>1
  <2>2. \E i \in D : count[i] = k - 1
    BY <1>4, <2>1 DEF Surjection
  <2> QED BY <2>2
<1>6. Ranked(pop, fitness) = [k \in D |-> pop[at(k)]]
  BY DEF Ranked
<1> HIDE DEF at
<1>7. \A k \in D : pop[at(k)] \in ToSet(pop)
  BY <1>1, <1>5, ToSetFacts
<1>8. Ranked(pop, fitness) \in [1..n -> ToSet(pop)]
  BY <1>1, <1>6, <1>7
<1>9. Ranked(pop, fitness) \in Seq(ToSet(pop)) /\ Len(Ranked(pop, fitness)) = n
  <2>1. Ranked(pop, fitness) \in Seq(ToSet(pop))
    BY <1>1, <1>8, SeqDef
  <2>2. /\ Len(Ranked(pop, fitness)) \in Nat
        /\ DOMAIN Ranked(pop, fitness) = 1..Len(Ranked(pop, fitness))
    BY <2>1, LenProperties
  <2>3. DOMAIN Ranked(pop, fitness) = 1..n
    BY <1>8
  <2> HIDE DEF n
  <2> QED BY <1>1, <2>1, <2>2, <2>3, Intervals
<1>10. ASSUME pop # <<>>, NEW e \in ToSet(pop) PROVE fitness[Ranked(pop, fitness)[1]] >= fitness[e]
  <2>1. 1 \in D
    BY <1>1, <1>10, EmptySeq
  <2>2. PICK i \in D : e = pop[i]
    BY DEF ToSet
  <2>3. /\ at(1) \in D /\ Cardinality(Ahead(at(1), pop, fitness)) = 0
        /\ Ranked(pop, fitness)[1] = pop[at(1)]
    BY <1>5, <1>6, <2>1
  <2>4. Ahead(at(1), pop, fitness) = {}
    BY <2>3, AheadFacts, FS_EmptySet
  <2>5. ~(fitness[e] > fitness[pop[at(1)]])
    BY <2>2, <2>4 DEF Ahead
  <2>6. fitness[e] \in Int /\ fitness[pop[at(1)]] \in Int
    BY <2>2, <2>3
  <2> QED BY <2>3, <2>5, <2>6
<1> QED BY <1>9, <1>10

\* The first n of a sequence.
LEMMA TopFacts ==
  ASSUME NEW S, NEW s \in Seq(S), NEW n \in Nat
  PROVE  /\ Top(n, s) \in Seq(S)
         /\ Len(Top(n, s)) = IF n <= Len(s) THEN n ELSE Len(s)
         /\ \A i \in 1..Len(Top(n, s)) : i \in 1..Len(s) /\ Top(n, s)[i] = s[i]
<1> DEFINE m == IF n <= Len(s) THEN n ELSE Len(s)
<1>1. m \in Nat /\ m <= Len(s) /\ Len(s) \in Nat /\ \A i \in 1..m : i \in 1..Len(s) /\ s[i] \in S
  BY LenProperties, ElementOfSeq
<1>2. Top(n, s) = SubSeq(s, 1, m)
  BY LeastOfTwo, LenProperties DEF Top
<1> HIDE DEF m
<1>3. /\ SubSeq(s, 1, m) \in Seq(S)
      /\ Len(SubSeq(s, 1, m)) = m
      /\ \A i \in 1..m : SubSeq(s, 1, m)[i] = s[i]
  <2>1. 1 \in Int /\ m \in Int /\ m - 1 + 1 = m
    BY <1>1
  <2>2. /\ SubSeq(s, 1, m) \in Seq(S)
        /\ Len(SubSeq(s, 1, m)) = IF 1 <= m THEN m - 1 + 1 ELSE 0
        /\ \A i \in 1..(m - 1 + 1) : SubSeq(s, 1, m)[i] = s[1 + i - 1]
    BY <1>1, <2>1, SubSeqProperties
  <2>3. \A i \in 1..m : 1 + i - 1 = i
    BY <1>1
  <2>4. (IF 1 <= m THEN m - 1 + 1 ELSE 0) = m
    BY <1>1
  <2> QED BY <2>1, <2>2, <2>3, <2>4
<1> QED BY <1>1, <1>2, <1>3 DEF m

--------------------------------------------------------------------------------
(* The invariant: what is in the cache, and that the best of it is in the       *)
(* population.                                                                  *)

\* A member of pop is as fit as anything evaluated.
Champion(pop, fitness) ==
    \E f \in ToSet(pop) \cap DOMAIN fitness : \A e \in DOMAIN fitness : fitness[f] >= fitness[e]

Steps == {"propose", "fill", "rank", "breed", "raised", "done"}

MinerInv ==
    /\ step \in Steps
    /\ generations \in Nat /\ generation \in Nat
    /\ population \in Seq(Admitted) /\ nextPopulation \in Seq(Admitted)
    /\ cache \in [DOMAIN cache -> Fitnesses \cup {NegInf}]
    /\ step \in {"propose", "fill"} => generation = 0 /\ DOMAIN cache = {}
    /\ step = "rank" => population # <<>>
    /\ step = "rank" => /\ generation > 0 => ToSet(population) \subseteq DOMAIN cache
                        /\ EliteCount > 0 => DOMAIN cache = {} \/ Champion(population, cache)
    /\ step = "breed" /\ EliteCount > 0 => Champion(nextPopulation, cache)
    /\ HallIsBest

\* Evaluating keeps what the cache holds, and gives each of exprs a fitness.
LEMMA EvaluatedFacts ==
  ASSUME MinerInv, NEW exprs, NEW c \in Evaluated(exprs)
  PROVE  /\ DOMAIN c = DOMAIN cache \cup exprs
         /\ c \in [DOMAIN c -> Fitnesses \cup {NegInf}]
         /\ \A e \in DOMAIN c : c[e] \in Int /\ c[e] >= NegInf
         /\ \A e \in DOMAIN cache : c[e] = cache[e]
<1> DEFINE D == DOMAIN cache
<1>1. PICK fitness \in [exprs \ D -> Fitnesses \cup {NegInf}] :
         c = [e \in D \cup exprs |-> IF e \in D THEN cache[e] ELSE fitness[e]]
  BY DEF Evaluated
<1>2. \A e \in D : cache[e] \in Fitnesses \cup {NegInf}
  BY DEF MinerInv
<1> HIDE DEF D
<1>3. DOMAIN c = D \cup exprs /\ \A e \in D : c[e] = cache[e]
  BY <1>1
<1>4. \A e \in DOMAIN c : c[e] \in Fitnesses \cup {NegInf}
  BY <1>1, <1>2
<1>5. c \in [DOMAIN c -> Fitnesses \cup {NegInf}]
  BY <1>1, <1>4
<1>6. \A x \in Fitnesses \cup {NegInf} : x \in Int /\ x >= NegInf
  BY MinerAssumption DEF MinerAssumption, NegInf
<1> QED BY <1>3, <1>4, <1>5, <1>6 DEF D

\* The generation after the fittest of the population have survived still has the best.
LEMMA EliteHasChampion ==
  ASSUME MinerInv, step = "rank", NEW c \in Evaluated(ToSet(population)), EliteCount > 0
  PROVE  Champion(Top(EliteCount, Ranked(population, c)), c)
<1> DEFINE ranked == Ranked(population, c)
           top == Top(EliteCount, ranked)
           best == ranked[1]
<1>1. /\ population \in Seq(Admitted) /\ population # <<>>
      /\ Len(population) \in Nat /\ Len(population) > 0
      /\ DOMAIN population = 1..Len(population)
      /\ \A i \in 1..Len(population) : population[i] \in ToSet(population)
  BY ToSetFacts DEF MinerInv
<1>2. /\ DOMAIN c = DOMAIN cache \cup ToSet(population)
      /\ \A e \in DOMAIN c : c[e] \in Int
      /\ \A e \in DOMAIN cache : c[e] = cache[e]
  BY EvaluatedFacts
<1>3. \A i \in DOMAIN population : c[population[i]] \in Int
  BY <1>1, <1>2
<1>4. /\ ranked \in Seq(ToSet(population)) /\ Len(ranked) = Len(population)
      /\ \A e \in ToSet(population) : c[best] >= c[e]
  BY <1>1, <1>3, RankedFacts
<1>5. EliteCount \in Nat
  BY MinerAssumption DEF MinerAssumption
<1> HIDE DEF ranked
<1>6. /\ top \in Seq(ToSet(population))
      /\ Len(top) = IF EliteCount <= Len(ranked) THEN EliteCount ELSE Len(ranked)
      /\ \A i \in 1..Len(top) : top[i] = ranked[i]
  BY <1>4, <1>5, TopFacts
<1>7. best \in ToSet(top) /\ best \in ToSet(population)
  <2>1. 1 \in 1..Len(top)
    BY <1>1, <1>4, <1>5, <1>6
  <2>2. top[1] \in ToSet(top) /\ ToSet(top) \subseteq ToSet(population)
    BY <1>6, <2>1, ToSetFacts
  <2> QED BY <1>6, <2>1, <2>2
<1>8. ASSUME NEW e \in DOMAIN cache PROVE c[best] >= c[e]
  <2>1. PICK f \in ToSet(population) \cap DOMAIN cache : cache[f] >= cache[e]
    BY <1>8 DEF MinerInv, Champion
  <2>2. c[f] >= c[e] /\ c[best] >= c[f] /\ c[f] \in Int /\ c[e] \in Int /\ c[best] \in Int
    BY <1>2, <1>4, <1>7, <2>1
  <2> QED BY <2>2
<1> HIDE DEF top, best
<1>9. \A e \in DOMAIN c : c[best] >= c[e]
  BY <1>2, <1>4, <1>8
<1>10. best \in ToSet(top) \cap DOMAIN c
  BY <1>2, <1>7
<1> QED BY <1>9, <1>10 DEF Champion, top, ranked

\* The generation that follows, with all its members evaluated, has it too.
LEMMA GenerationHasChampion ==
  ASSUME MinerInv, NEW pop \in Seq(Admitted), NEW c \in Evaluated(ToSet(pop)),
         Champion(pop, cache)
  PROVE  /\ Champion(pop, c)
         /\ \A e \in DOMAIN cache : Best(pop, c) >= cache[e]
<1>1. /\ DOMAIN c = DOMAIN cache \cup ToSet(pop)
      /\ \A e \in DOMAIN c : c[e] \in Int
      /\ \A e \in DOMAIN cache : c[e] = cache[e]
  BY EvaluatedFacts
<1>2. IsFiniteSet(ToSet(pop)) /\ ToSet(pop) # {}
  BY ToSetFacts DEF Champion
<1>3. PICK m \in ToSet(pop) : \A x \in ToSet(pop) : c[m] >= c[x]
  <2>1. \A x \in ToSet(pop) : c[x] \in Int
    BY <1>1
  <2> QED BY <1>2, <2>1, Fittest
<1>4. ASSUME NEW e \in DOMAIN cache PROVE c[m] >= cache[e] /\ cache[e] = c[e]
  <2>1. PICK f \in ToSet(pop) \cap DOMAIN cache : cache[f] >= cache[e]
    BY <1>4 DEF Champion
  <2>2. c[f] >= c[e] /\ c[m] >= c[f] /\ c[f] \in Int /\ c[e] \in Int /\ c[m] \in Int
    BY <1>1, <1>3, <2>1
  <2> QED BY <1>1, <2>2
<1>5. Champion(pop, c)
  BY <1>1, <1>3, <1>4 DEF Champion
<1>6. Best(pop, c) = c[m]
  <2> DEFINE values == {c[e] : e \in ToSet(pop) \cap DOMAIN c}
  <2>1. c[m] \in values /\ \A y \in values : c[m] >= y /\ y \in Int
    BY <1>1, <1>3
  <2>2. Best(pop, c) = CHOOSE z \in values : \A y \in values : z >= y
    BY DEF Best, Max
  <2> HIDE DEF values
  <2>3. \A z \in values : (\A y \in values : z >= y) => z = c[m]
    BY <2>1
  <2> QED BY <2>1, <2>2, <2>3
<1> QED BY <1>4, <1>5, <1>6

\* A hall of fame: the fittest of those with a fitness, each once and fittest first, and who is
\* left out is no fitter than any who is in.
LEMMA HallFacts ==
  ASSUME NEW S, IsFiniteSet(S), NEW fitness, \A e \in S : fitness[e] \in Int,
         NEW h \in Halls(S, fitness)
  PROVE  /\ h \in Seq(S)
         /\ IsInjective(h)
         /\ \A e \in ToSet(h) : fitness[e] # NegInf
         /\ \A i, j \in DOMAIN h : i < j => fitness[h[i]] >= fitness[h[j]]
         /\ \A e \in S \ ToSet(h) :
              fitness[e] = NegInf \/ (/\ Len(h) = HallOfFame
                                      /\ \A f \in ToSet(h) : fitness[f] >= fitness[e])
<1> DEFINE F == {e \in S : fitness[e] # NegInf}
           n == Cardinality(F)
<1>1. IsFiniteSet(F) /\ n \in Nat /\ F \subseteq S
  BY FS_Subset, FS_CardinalityType
<1>2. PICK order \in Orders(F, fitness) : h = Top(HallOfFame, order)
  BY DEF Halls
<1> HIDE DEF F, n
<1>3. /\ order \in [1..n -> F]
      /\ \A i, j \in 1..n : i # j => order[i] # order[j]
      /\ \A i, j \in 1..n : i < j => fitness[order[i]] >= fitness[order[j]]
  BY DEF Orders, SetToSeqs, n
<1>4. order \in Seq(F) /\ Len(order) = n
  <2>1. order \in Seq(F)
    BY <1>1, <1>3, SeqDef
  <2>2. Len(order) \in Nat /\ DOMAIN order = 1..Len(order)
    BY <2>1, LenProperties
  <2>3. DOMAIN order = 1..n
    BY <1>3
  <2> QED BY <1>1, <2>1, <2>2, <2>3, Intervals
<1>5. \A e \in F : \E i \in 1..n : order[i] = e
  <2>1. IsFiniteSet(1..n) /\ Cardinality(1..n) = n
    BY <1>1, FS_Interval
  <2>2. order \in Injection(1..n, F)
    BY <1>3 DEF Injection, IsInjective
  <2>3. order \in Surjection(1..n, F)
    BY <1>1, <2>1, <2>2, FS_Injection DEF n
  <2> QED BY <2>3 DEF Surjection
<1>6. HallOfFame \in Nat
  BY MinerAssumption DEF MinerAssumption
<1>7. /\ h \in Seq(F)
      /\ Len(h) = IF HallOfFame <= n THEN HallOfFame ELSE n
      /\ \A i \in 1..Len(h) : i \in 1..n /\ h[i] = order[i]
  BY <1>2, <1>4, <1>6, TopFacts
<1>8. Len(h) \in Nat /\ DOMAIN h = 1..Len(h) /\ ToSet(h) \subseteq F
  BY <1>7, ToSetFacts
<1>9. \A e \in ToSet(h) : \E i \in 1..Len(h) : e = h[i]
  BY <1>8 DEF ToSet
<1>10. h \in Seq(S)
  <2>1. h \in [1..Len(h) -> S]
    BY <1>1, <1>7, <1>8, LenProperties, ElementOfSeq
  <2> QED BY <1>8, <2>1, SeqDef
<1>11. IsInjective(h)
  BY <1>3, <1>7, <1>8 DEF IsInjective
<1>12. \A e \in ToSet(h) : fitness[e] # NegInf
  BY <1>8 DEF F
<1>13. \A i, j \in DOMAIN h : i < j => fitness[h[i]] >= fitness[h[j]]
  BY <1>3, <1>7, <1>8
<1>14. ASSUME NEW e \in S \ ToSet(h), fitness[e] # NegInf
       PROVE  Len(h) = HallOfFame /\ \A f \in ToSet(h) : fitness[f] >= fitness[e]
  <2>1. PICK k \in 1..n : order[k] = e
    BY <1>5, <1>14 DEF F
  <2>2. k \notin 1..Len(h)
    BY <1>7, <1>14, <2>1, <1>8, ToSetFacts
  <2>3. Len(h) = HallOfFame /\ Len(h) < k
    BY <1>1, <1>6, <1>7, <1>8, <2>2
  <2>4. ASSUME NEW f \in ToSet(h) PROVE fitness[f] >= fitness[e]
    <3>1. PICK i \in 1..Len(h) : f = h[i]
      BY <1>9
    <3>2. i \in 1..n /\ f = order[i] /\ i < k
      BY <1>7, <1>8, <2>3, <3>1
    <3> QED BY <1>3, <2>1, <3>2
  <2> QED BY <2>3, <2>4
<1> QED BY <1>10, <1>11, <1>12, <1>13, <1>14

\* What is bred is admitted, and what is appended leaves a sequence its champion.
LEMMA Grown ==
  ASSUME NEW s \in Seq(Admitted), NEW e \in Admitted
  PROVE  /\ Append(s, e) \in Seq(Admitted)
         /\ \A fitness : Champion(s, fitness) => Champion(Append(s, e), fitness)
<1>1. /\ Append(s, e) \in Seq(Admitted)
      /\ Len(Append(s, e)) = Len(s) + 1
      /\ \A i \in 1..Len(s) : Append(s, e)[i] = s[i]
  BY AppendProperties
<1>2. /\ Len(s) \in Nat /\ DOMAIN s = 1..Len(s)
      /\ \A i \in 1..Len(Append(s, e)) : Append(s, e)[i] \in ToSet(Append(s, e))
  BY <1>1, ToSetFacts
<1>3. ToSet(s) \subseteq ToSet(Append(s, e))
  <2> SUFFICES ASSUME NEW x \in ToSet(s) PROVE x \in ToSet(Append(s, e))
    OBVIOUS
  <2>1. PICK i \in 1..Len(s) : x = s[i]
    BY <1>2 DEF ToSet
  <2>2. i \in 1..Len(Append(s, e))
    BY <1>1, <1>2
  <2> QED BY <1>1, <1>2, <2>1, <2>2
<1> QED BY <1>1, <1>3 DEF Champion

\* A population starts with an empty cache, and no hall.
LEMMA MinerInit == Init => MinerInv
<1> SUFFICES ASSUME Init PROVE MinerInv
  OBVIOUS
<1>1. generations \in Nat
  BY MinerAssumption DEF Init, MinerAssumption
<1>2. <<>> \in Seq(Admitted)
  BY EmptySeq
<1>3. DOMAIN cache = {} /\ cache \in [DOMAIN cache -> Fitnesses \cup {NegInf}]
  BY DEF Init
<1> QED BY <1>1, <1>2, <1>3 DEF Init, MinerInv, Steps, HallIsBest

\* Every step keeps the invariant: the champion survives the ranking with the elite, breeding
\* only adds, the members of the new generation are evaluated before it is ranked, and the hall
\* is filled from the last population when the cache holds all of it.
LEMMA MinerStep == MinerInv /\ [Next]_vars => MinerInv'
<1> SUFFICES ASSUME MinerInv, [Next]_vars PROVE MinerInv'
  OBVIOUS
<1>1. CASE Propose
  <2>1. population' \in Seq(Admitted)
    <3>1. PICK m \in 0..PopulationSize : population' \in [1..m -> Seeds \cap Admitted]
      BY <1>1 DEF Propose, BoundedSeq, SeqOf
    <3>2. m \in Nat /\ population' \in [1..m -> Admitted]
      BY <3>1, MinerAssumption DEF MinerAssumption
    <3> QED BY <3>2, SeqDef
  <2> QED BY <1>1, <2>1 DEF Propose, MinerInv, Steps, HallIsBest
<1>2. CASE Fill
  <2>1. CASE Len(population) < PopulationSize
    <3>1. PICK e \in Draws \cap Admitted : population' = Append(population, e)
      BY <1>2, <2>1 DEF Fill
    <3>2. population' \in Seq(Admitted)
      BY <3>1, Grown DEF MinerInv
    <3> QED BY <1>2, <2>1, <3>2 DEF Fill, MinerInv, Steps, HallIsBest
  <2>2. CASE ~(Len(population) < PopulationSize)
    <3>1. population # <<>>
      <4>1. PopulationSize \in Nat \ {0} /\ Len(<<>>) = 0
        BY MinerAssumption DEF MinerAssumption
      <4> QED BY <2>2, <4>1
    <3> QED BY <1>2, <2>2, <3>1 DEF Fill, MinerInv, Steps, HallIsBest
  <2> QED BY <2>1, <2>2
<1>3. CASE Raise
  BY <1>3 DEF Raise, MinerInv, Steps, HallIsBest
<1>4. CASE Rank
  <2>1. cache' \in [DOMAIN cache' -> Fitnesses \cup {NegInf}]
    BY <1>4, EvaluatedFacts DEF Rank
  <2>2. EliteCount > 0 => Champion(nextPopulation', cache')
    BY <1>4, EliteHasChampion DEF Rank
  <2>3. nextPopulation' \in Seq(Admitted)
    <3>1. population \in Seq(Admitted) /\ ToSet(population) \subseteq Admitted
      BY ToSetFacts DEF MinerInv
    <3>2. \A i \in DOMAIN population : cache'[population[i]] \in Int
      <4>1. /\ DOMAIN cache' = DOMAIN cache \cup ToSet(population)
            /\ \A e \in DOMAIN cache' : cache'[e] \in Int
        BY <1>4, EvaluatedFacts DEF Rank
      <4>2. \A i \in DOMAIN population : population[i] \in ToSet(population)
        BY DEF ToSet
      <4> QED BY <4>1, <4>2
    <3>3. Ranked(population, cache') \in Seq(ToSet(population))
      BY <3>1, <3>2, RankedFacts
    <3>4. EliteCount \in Nat
      BY MinerAssumption DEF MinerAssumption
    <3>5. nextPopulation' \in Seq(ToSet(population))
      BY <1>4, <3>3, <3>4, TopFacts DEF Rank
    <3> QED BY <3>1, <3>5, LenProperties, ElementOfSeq, SeqDef
  <2> QED BY <1>4, <2>1, <2>2, <2>3 DEF Rank, MinerInv, Steps, HallIsBest
<1>5. CASE Breed
  <2>1. PICK e \in Newborn : nextPopulation' = Append(nextPopulation, e)
    BY <1>5 DEF Breed
  <2>2. e \in Admitted
    BY <2>1 DEF Newborn
  <2>3. /\ nextPopulation' \in Seq(Admitted)
        /\ Champion(nextPopulation, cache) => Champion(nextPopulation', cache)
    BY <2>1, <2>2, Grown DEF MinerInv
  <2> QED BY <1>5, <2>3 DEF Breed, MinerInv, Steps, HallIsBest
<1>6. CASE EndGeneration
  <2>1. /\ nextPopulation \in Seq(Admitted) /\ population' = nextPopulation
        /\ cache' \in Evaluated(ToSet(nextPopulation))
    BY <1>6 DEF EndGeneration, MinerInv
  <2>2. /\ cache' \in [DOMAIN cache' -> Fitnesses \cup {NegInf}]
        /\ DOMAIN cache' = DOMAIN cache \cup ToSet(nextPopulation)
    BY <2>1, EvaluatedFacts
  <2>3. EliteCount > 0 => Champion(population', cache')
    BY <1>6, <2>1, GenerationHasChampion DEF EndGeneration, MinerInv
  <2>4. population' # <<>>
    <3>1. PopulationSize \in Nat \ {0} /\ Len(<<>>) = 0
      BY MinerAssumption DEF MinerAssumption
    <3> QED BY <1>6, <3>1 DEF EndGeneration
  <2>5. <<>> \in Seq(Admitted)
    BY EmptySeq
  <2>6. generation' \in Nat
    BY <1>6 DEF EndGeneration, MinerInv
  <2> QED BY <1>6, <2>1, <2>2, <2>3, <2>4, <2>5, <2>6 DEF EndGeneration, MinerInv, Steps, HallIsBest
<1>7. CASE Finish
  <2>1. /\ population \in Seq(Admitted) /\ population' = population
        /\ cache' \in Evaluated(ToSet(population))
        /\ hall' \in Halls(ToSet(population), cache')
    BY <1>7 DEF Finish, MinerInv
  <2>2. /\ DOMAIN cache' = DOMAIN cache \cup ToSet(population)
        /\ cache' \in [DOMAIN cache' -> Fitnesses \cup {NegInf}]
        /\ \A e \in DOMAIN cache' : cache'[e] \in Int
    BY <2>1, EvaluatedFacts
  <2>3. IsFiniteSet(ToSet(population)) /\ ToSet(population) \subseteq Admitted
    BY <2>1, ToSetFacts
  <2>4. /\ hall' \in Seq(ToSet(population))
        /\ IsInjective(hall')
        /\ \A e \in ToSet(hall') : cache'[e] # NegInf
        /\ \A i, j \in DOMAIN hall' : i < j => cache'[hall'[i]] >= cache'[hall'[j]]
        /\ \A e \in ToSet(population) \ ToSet(hall') :
             cache'[e] = NegInf \/ (/\ Len(hall') = HallOfFame
                                    /\ \A f \in ToSet(hall') : cache'[f] >= cache'[e])
    BY <2>1, <2>2, <2>3, HallFacts
  <2>5. ToSet(hall') \subseteq Admitted
    BY <2>3, <2>4, ToSetFacts
  <2>6. generations > 0 => nEvaluated' = Cardinality(DOMAIN cache')
    <3>1. ASSUME generations > 0 PROVE ToSet(population) \subseteq DOMAIN cache
      BY <1>7, <3>1 DEF Finish, MinerInv
    <3>2. ASSUME generations > 0 PROVE DOMAIN cache' = DOMAIN cache
      BY <2>2, <3>1, <3>2
    <3> QED BY <1>7, <3>2 DEF Finish
  <2>7. HallIsBest'
    BY <1>7, <2>1, <2>4, <2>5, <2>6 DEF Finish, HallIsBest
  <2> QED BY <1>7, <2>1, <2>2, <2>7 DEF Finish, MinerInv, Steps
<1>8. CASE UNCHANGED vars
  BY <1>8 DEF vars, MinerInv, HallIsBest
<1> QED BY <1>1, <1>2, <1>3, <1>4, <1>5, <1>6, <1>7, <1>8 DEF Next

--------------------------------------------------------------------------------
(* The theorems                                                                 *)

LEMMA MinerInvariant == Spec => []MinerInv
BY MinerInit, MinerStep, PTL DEF Spec

\* What mine_alphas returns passed the filter, has a fitness, comes once and fittest first,
\* leaves out nothing fitter, and is counted right (HallIsBest), whatever the operators breed.
THEOREM HallHoldsTheBest == Spec => []HallIsBest
<1>1. MinerInv => HallIsBest
  BY DEF MinerInv
<1> QED BY <1>1, MinerInvariant, PTL

\* With an elite of any size, a generation ends with a best member no worse than anything
\* evaluated before: breeding loses no factor that was found (BestIsKept).
THEOREM TheBestSurvives == Spec => BestIsKept
<1> DEFINE Kept == EliteCount > 0 /\ step = "breed" /\ step' = "rank" =>
                     \A e \in DOMAIN cache : Best(population', cache') >= cache[e]
<1>1. MinerInv /\ [Next]_vars => [Kept]_vars
  <2> SUFFICES ASSUME MinerInv, [Next]_vars, EliteCount > 0, step = "breed", step' = "rank"
               PROVE  \A e \in DOMAIN cache : Best(population', cache') >= cache[e]
    BY DEF Kept
  <2>1. EndGeneration
    BY DEF Next, vars, Propose, Fill, Raise, Rank, Breed, Finish
  <2>2. /\ nextPopulation \in Seq(Admitted) /\ population' = nextPopulation
        /\ cache' \in Evaluated(ToSet(nextPopulation))
        /\ Champion(nextPopulation, cache)
    BY <2>1 DEF EndGeneration, MinerInv
  <2> QED BY <2>2, GenerationHasChampion
<1>2. BestIsKept <=> [][Kept]_vars
  BY DEF BestIsKept
<1> HIDE DEF Kept
<1> QED BY <1>1, <1>2, MinerInvariant, PTL DEF Spec
--------------------------------------------------------------------------------
(* Trees                                                                        *)

\* What holds of 0 and of the successor of what it holds of holds of every number.
LEMMA Induction ==
  ASSUME NEW S, 0 \in S, \A n \in Nat : n \in S => n + 1 \in S
  PROVE  Nat \subseteq S
<1> DEFINE Bad == Nat \ S
<1> SUFFICES ASSUME Bad # {} PROVE FALSE
  OBVIOUS
<1>1. PICK m \in Bad : \A n \in Bad : m <= n
  <2>1. Bad \in SUBSET Nat
    OBVIOUS
  <2> HIDE DEF Bad
  <2> QED BY <2>1, Least
<1>2. m \in Nat /\ m # 0
  OBVIOUS
<1>3. m - 1 \in Nat /\ m - 1 \notin Bad
  <2>1. \A n \in Bad : m <= n
    BY <1>1
  <2> HIDE DEF Bad
  <2> QED BY <1>2, <2>1
<1>4. (m - 1) + 1 \in S
  BY <1>3
<1> QED BY <1>2, <1>4

Compound(below) ==
    [op : UNARY_OPS, args : [1..1 -> below], window : {NoWindow}] \cup
    [op : TS_OPS, args : [1..1 -> below], window : WINDOWS] \cup
    [op : BINARY_OPS, args : [1..2 -> below], window : {NoWindow}]

Leaves == [op : FEATURES, args : {<<>>}, window : {NoWindow}]

\* The levels of trees are well defined: each is grown from the one below it.
LEMMA Levels ==
  \A depth \in 0..Deepest :
     RandomExpressions[depth] =
       Leaves \cup IF depth <= 1 THEN {} ELSE Compound(RandomExpressions[depth - 1])
<1> DEFINE Body(f, d) == Leaves \cup IF d <= 1 THEN {} ELSE Compound(f[d - 1])
           Solves(f, n) == f = [d \in 0..n |-> Body(f, d)]
           S == {n \in Nat : \E f : Solves(f, n)}
<1>1. 0 \in S
  <2> DEFINE f == [d \in 0..0 |-> Leaves]
  <2>1. Solves(f, 0)
    OBVIOUS
  <2> QED BY <2>1
<1>2. ASSUME NEW n \in Nat, n \in S PROVE n + 1 \in S
  <2>1. PICK f : Solves(f, n)
    BY <1>2
  <2> DEFINE g == [d \in 0..(n + 1) |-> IF d <= n THEN f[d] ELSE Body(f, d)]
  <2>2. \A d \in 0..(n + 1) : d > 1 => g[d - 1] = f[d - 1]
    OBVIOUS
  <2>3. \A d \in 0..(n + 1) : Body(g, d) = Body(f, d)
    <3> HIDE DEF g
    <3> QED BY <2>2
  <2>4. \A d \in 0..n : f[d] = Body(f, d)
    <3> HIDE DEF Body
    <3> QED BY <2>1
  <2>5. \A d \in 0..(n + 1) : g[d] = Body(g, d)
    <3> HIDE DEF Body
    <3> QED BY <2>3, <2>4
  <2>6. Solves(g, n + 1)
    <3>1. DOMAIN g = 0..(n + 1) /\ g = [d \in 0..(n + 1) |-> g[d]]
      OBVIOUS
    <3> HIDE DEF g, Body
    <3> QED BY <2>5, <3>1
  <2> HIDE DEF Solves
  <2> QED BY <2>6
<1>3. Deepest \in S
  <2>1. Deepest \in Nat
    BY DslAssumption
  <2> HIDE DEF S
  <2> QED BY <1>1, <1>2, <2>1, Induction
<1>4. \E f : f = [d \in 0..Deepest |-> Body(f, d)]
  BY <1>3
<1>5. RandomExpressions = CHOOSE f : f = [d \in 0..Deepest |-> Body(f, d)]
  BY Zenon DEF RandomExpressions, Compound, Leaves
<1>6. RandomExpressions = [d \in 0..Deepest |-> Body(RandomExpressions, d)]
  <2> HIDE DEF Body
  <2> QED BY <1>4, <1>5, Zenon
<1> HIDE DEF Body
<1>7. \A d \in 0..Deepest : RandomExpressions[d] = Body(RandomExpressions, d)
  BY <1>6, Zenon
<1> QED BY <1>7 DEF Body

\* What each constructor builds.
LEMMA Constructors ==
  ASSUME NEW op, NEW a, NEW b, NEW w
  PROVE  /\ Feature(op).op = op /\ Feature(op).args = <<>> /\ Feature(op).window = NoWindow
         /\ Unary(op, a).op = op /\ Unary(op, a).args = <<a>> /\ Unary(op, a).window = NoWindow
         /\ TimeSeries(op, a, w).op = op /\ TimeSeries(op, a, w).args = <<a>>
         /\ TimeSeries(op, a, w).window = w
         /\ Binary(op, a, b).op = op /\ Binary(op, a, b).args = <<a, b>>
         /\ Binary(op, a, b).window = NoWindow
         /\ DOMAIN <<a>> = {1} /\ <<a>>[1] = a /\ <<a>> # <<>>
         /\ DOMAIN <<a, b>> = {1, 2} /\ <<a, b>>[1] = a /\ <<a, b>>[2] = b /\ <<a, b>> # <<>>
         /\ DOMAIN <<>> = {}
BY DEF Feature, Unary, TimeSeries, Binary

\* A tree of a level is a feature, or an operator over trees of the level below.
LEMMA Shapes ==
  ASSUME NEW h \in 0..Deepest, NEW e \in RandomExpressions[h]
  PROVE  \/ e.op \in FEATURES /\ e = Feature(e.op)
         \/ h > 1 /\ \E op \in UNARY_OPS, a \in RandomExpressions[h - 1] : e = Unary(op, a)
         \/ h > 1 /\ \E op \in TS_OPS, a \in RandomExpressions[h - 1], w \in WINDOWS :
                        e = TimeSeries(op, a, w)
         \/ h > 1 /\ \E op \in BINARY_OPS, a, b \in RandomExpressions[h - 1] : e = Binary(op, a, b)
<1> DEFINE below == RandomExpressions[h - 1]
<1>1. e \in Leaves \cup IF h <= 1 THEN {} ELSE Compound(below)
  BY Levels
<1> HIDE DEF below
<1>2. CASE e \in Leaves
  BY <1>2 DEF Leaves, Feature
<1>3. CASE h > 1 /\ e \in [op : UNARY_OPS, args : [1..1 -> below], window : {NoWindow}]
  <2>1. e.op \in UNARY_OPS /\ e.args[1] \in below /\ e.args = <<e.args[1]>>
    BY <1>3
  <2>2. e = Unary(e.op, e.args[1])
    BY <1>3, <2>1 DEF Unary
  <2> QED BY <1>3, <2>1, <2>2 DEF below
<1>4. CASE h > 1 /\ e \in [op : TS_OPS, args : [1..1 -> below], window : WINDOWS]
  <2>1. e.op \in TS_OPS /\ e.args[1] \in below /\ e.args = <<e.args[1]>> /\ e.window \in WINDOWS
    BY <1>4
  <2>2. e = TimeSeries(e.op, e.args[1], e.window)
    BY <1>4, <2>1 DEF TimeSeries
  <2> QED BY <1>4, <2>1, <2>2 DEF below
<1>5. CASE h > 1 /\ e \in [op : BINARY_OPS, args : [1..2 -> below], window : {NoWindow}]
  <2>1. /\ e.op \in BINARY_OPS /\ e.args[1] \in below /\ e.args[2] \in below
        /\ e.args = <<e.args[1], e.args[2]>>
    BY <1>5
  <2>2. e = Binary(e.op, e.args[1], e.args[2])
    BY <1>5, <2>1 DEF Binary
  <2> QED BY <1>5, <2>1, <2>2 DEF below
<1>6. \/ e \in Leaves
      \/ h > 1 /\ e \in [op : UNARY_OPS, args : [1..1 -> below], window : {NoWindow}]
      \/ h > 1 /\ e \in [op : TS_OPS, args : [1..1 -> below], window : WINDOWS]
      \/ h > 1 /\ e \in [op : BINARY_OPS, args : [1..2 -> below], window : {NoWindow}]
  BY <1>1 DEF Compound
<1> QED BY <1>2, <1>3, <1>4, <1>5, <1>6

\* And whatever is built so is a tree of the level.
LEMMA Growth ==
  ASSUME NEW h \in 0..Deepest
  PROVE  /\ \A name \in FEATURES : Feature(name) \in RandomExpressions[h]
         /\ h > 1 =>
              \A a, b \in RandomExpressions[h - 1] :
                 /\ \A op \in UNARY_OPS : Unary(op, a) \in RandomExpressions[h]
                 /\ \A op \in TS_OPS, w \in WINDOWS : TimeSeries(op, a, w) \in RandomExpressions[h]
                 /\ \A op \in BINARY_OPS : Binary(op, a, b) \in RandomExpressions[h]
<1> DEFINE below == RandomExpressions[h - 1]
           here == RandomExpressions[h]
<1>1. here = Leaves \cup IF h <= 1 THEN {} ELSE Compound(below)
  BY Levels
<1>2. \A name \in FEATURES : Feature(name) \in here
  BY <1>1 DEF Leaves, Feature
<1>3. ASSUME h > 1, NEW a \in below, NEW b \in below
      PROVE  /\ \A op \in UNARY_OPS : Unary(op, a) \in here
             /\ \A op \in TS_OPS, w \in WINDOWS : TimeSeries(op, a, w) \in here
             /\ \A op \in BINARY_OPS : Binary(op, a, b) \in here
  <2> HIDE DEF below, here
  <2>1. Compound(below) \subseteq here
    BY <1>1, <1>3
  <2>2. <<a>> \in [1..1 -> below] /\ <<a, b>> \in [1..2 -> below]
    BY <1>3
  <2>3. \A op \in UNARY_OPS : Unary(op, a) \in Compound(below)
    BY <2>2 DEF Compound, Unary
  <2>4. \A op \in TS_OPS, w \in WINDOWS : TimeSeries(op, a, w) \in Compound(below)
    BY <2>2 DEF Compound, TimeSeries
  <2>5. \A op \in BINARY_OPS : Binary(op, a, b) \in Compound(below)
    BY <2>2 DEF Compound, Binary
  <2> QED BY <2>1, <2>3, <2>4, <2>5
<1> QED BY <1>2, <1>3

\* A higher level holds what a lower one holds.
LEMMA HigherHoldsMore ==
  \A h, k \in 0..Deepest : h <= k => RandomExpressions[h] \subseteq RandomExpressions[k]
<1> DEFINE One == {n \in Nat : n + 1 <= Deepest => RandomExpressions[n] \subseteq RandomExpressions[n + 1]}
           Many == {n \in Nat : \A h \in 0..Deepest : h + n <= Deepest =>
                                   RandomExpressions[h] \subseteq RandomExpressions[h + n]}
<1> Deepest \in Nat
  BY DslAssumption
<1>1. Nat \subseteq One
  <2>1. 0 \in One
    <3> SUFFICES ASSUME 1 <= Deepest, NEW e \in RandomExpressions[0]
                 PROVE  e \in RandomExpressions[1]
      OBVIOUS
    <3>1. e.op \in FEATURES /\ e = Feature(e.op)
      BY Shapes
    <3> QED BY <3>1, Growth
  <2>2. ASSUME NEW n \in Nat, n \in One PROVE n + 1 \in One
    <3> SUFFICES ASSUME n + 2 <= Deepest, NEW e \in RandomExpressions[n + 1]
                 PROVE  e \in RandomExpressions[n + 2]
      OBVIOUS
    <3>1. n + 1 \in 0..Deepest /\ n + 2 \in 0..Deepest /\ n + 2 > 1
          /\ (n + 1) - 1 = n /\ (n + 2) - 1 = n + 1
      OBVIOUS
    <3>2. RandomExpressions[n] \subseteq RandomExpressions[n + 1]
      BY <2>2, <3>1
    <3> HIDE DEF One
    <3>3. \/ e.op \in FEATURES /\ e = Feature(e.op)
          \/ \E op \in UNARY_OPS, a \in RandomExpressions[n] : e = Unary(op, a)
          \/ \E op \in TS_OPS, a \in RandomExpressions[n], w \in WINDOWS : e = TimeSeries(op, a, w)
          \/ \E op \in BINARY_OPS, a, b \in RandomExpressions[n] : e = Binary(op, a, b)
      BY <3>1, Shapes
    <3>4. /\ \A name \in FEATURES : Feature(name) \in RandomExpressions[n + 2]
          /\ \A a, b \in RandomExpressions[n + 1] :
                 /\ \A op \in UNARY_OPS : Unary(op, a) \in RandomExpressions[n + 2]
                 /\ \A op \in TS_OPS, w \in WINDOWS : TimeSeries(op, a, w) \in RandomExpressions[n + 2]
                 /\ \A op \in BINARY_OPS : Binary(op, a, b) \in RandomExpressions[n + 2]
      BY <3>1, Growth
    <3> QED BY <3>2, <3>3, <3>4
  <2> HIDE DEF One
  <2> QED BY <2>1, <2>2, Induction
<1>2. Nat \subseteq Many
  <2>1. 0 \in Many
    OBVIOUS
  <2>2. ASSUME NEW n \in Nat, n \in Many PROVE n + 1 \in Many
    <3> SUFFICES ASSUME NEW h \in 0..Deepest, h + (n + 1) <= Deepest
                 PROVE  RandomExpressions[h] \subseteq RandomExpressions[h + (n + 1)]
      OBVIOUS
    <3>1. RandomExpressions[h] \subseteq RandomExpressions[h + n]
      BY <2>2
    <3>2. h + n \in One /\ (h + n) + 1 <= Deepest /\ (h + n) + 1 = h + (n + 1)
      BY <1>1
    <3>3. RandomExpressions[h + n] \subseteq RandomExpressions[(h + n) + 1]
      BY <3>2
    <3> HIDE DEF One, Many
    <3> QED BY <3>1, <3>2, <3>3
  <2> HIDE DEF Many
  <2> QED BY <2>1, <2>2, Induction
<1> SUFFICES ASSUME NEW h \in 0..Deepest, NEW k \in 0..Deepest, h <= k
             PROVE  RandomExpressions[h] \subseteq RandomExpressions[k]
  OBVIOUS
<1>3. k - h \in Nat /\ h + (k - h) = k
  OBVIOUS
<1>4. k - h \in Many
  BY <1>2, <1>3
<1> QED BY <1>3, <1>4

\* A tree is a feature, or an operator over trees.
LEMMA TreeShapes ==
  ASSUME NEW e \in Trees
  PROVE  \/ e.op \in FEATURES /\ e = Feature(e.op)
         \/ \E op \in UNARY_OPS, a \in Trees : e = Unary(op, a)
         \/ \E op \in TS_OPS, a \in Trees, w \in WINDOWS : e = TimeSeries(op, a, w)
         \/ \E op \in BINARY_OPS, a, b \in Trees : e = Binary(op, a, b)
<1>1. Deepest \in 0..Deepest
  BY DslAssumption
<1>2. Deepest > 1 => RandomExpressions[Deepest - 1] \subseteq Trees
  <2>1. Deepest > 1 => Deepest - 1 \in 0..Deepest /\ Deepest - 1 <= Deepest
    BY <1>1
  <2> QED BY <1>1, <2>1, HigherHoldsMore DEF Trees
<1> QED BY <1>1, <1>2, Shapes DEF Trees

\* What holds of the features, and of an operator over trees if it holds of these, holds of
\* every tree.
LEMMA TreeInduction ==
  ASSUME NEW S,
         \A name \in FEATURES : Feature(name) \in S,
         \A op \in UNARY_OPS, a \in Trees : a \in S /\ Unary(op, a) \in Trees => Unary(op, a) \in S,
         \A op \in TS_OPS, a \in Trees, w \in WINDOWS :
            a \in S /\ TimeSeries(op, a, w) \in Trees => TimeSeries(op, a, w) \in S,
         \A op \in BINARY_OPS, a, b \in Trees :
            a \in S /\ b \in S /\ Binary(op, a, b) \in Trees => Binary(op, a, b) \in S
  PROVE  Trees \subseteq S
<1> DEFINE T == {n \in Nat : n <= Deepest => RandomExpressions[n] \subseteq S}
<1> Deepest \in Nat
  BY DslAssumption
<1>1. \A n \in 0..Deepest : RandomExpressions[n] \subseteq Trees
  <2>1. \A n \in 0..Deepest : n <= Deepest /\ Deepest \in 0..Deepest
    OBVIOUS
  <2> QED BY <2>1, HigherHoldsMore DEF Trees
<1>2. 0 \in T
  <2> SUFFICES ASSUME NEW e \in RandomExpressions[0] PROVE e \in S
    OBVIOUS
  <2>1. e.op \in FEATURES /\ e = Feature(e.op)
    BY Shapes
  <2> QED BY <2>1
<1>3. ASSUME NEW n \in Nat, n \in T PROVE n + 1 \in T
  <2> SUFFICES ASSUME n + 1 <= Deepest, NEW e \in RandomExpressions[n + 1] PROVE e \in S
    OBVIOUS
  <2>1. n + 1 \in 0..Deepest /\ n \in 0..Deepest /\ (n + 1) - 1 = n
    OBVIOUS
  <2>2. RandomExpressions[n] \subseteq S /\ RandomExpressions[n] \subseteq Trees /\ e \in Trees
    BY <1>1, <1>3, <2>1
  <2>3. \/ e.op \in FEATURES /\ e = Feature(e.op)
        \/ \E op \in UNARY_OPS, a \in RandomExpressions[n] : e = Unary(op, a)
        \/ \E op \in TS_OPS, a \in RandomExpressions[n], w \in WINDOWS : e = TimeSeries(op, a, w)
        \/ \E op \in BINARY_OPS, a, b \in RandomExpressions[n] : e = Binary(op, a, b)
    BY <2>1, Shapes
  <2> HIDE DEF T
  <2> QED BY <2>2, <2>3
<1>4. Deepest \in T
  <2> HIDE DEF T
  <2> QED BY <1>2, <1>3, Induction
<1> QED BY <1>4 DEF Trees

\* The arguments of a tree are trees of the level below, and there are at most two.
LEMMA Arguments ==
  /\ \A n \in 0..Deepest : RandomExpressions[n] \subseteq Trees
  /\ \A e \in RandomExpressions[0] : DOMAIN e.args = {}
  /\ \A n \in Nat : n + 1 <= Deepest =>
        /\ RandomExpressions[n] \subseteq RandomExpressions[n + 1]
        /\ \A e \in RandomExpressions[n + 1] : \A k \in DOMAIN e.args :
              k \in {1, 2} /\ e.args[k] \in RandomExpressions[n]
  /\ \A e \in Trees : \A k \in DOMAIN e.args : k \in {1, 2} /\ e.args[k] \in Trees
<1> Deepest \in Nat /\ Deepest \in 0..Deepest
  BY DslAssumption
<1>1. \A n \in 0..Deepest : RandomExpressions[n] \subseteq Trees
  <2>1. \A n \in 0..Deepest : n <= Deepest
    OBVIOUS
  <2> QED BY <2>1, HigherHoldsMore DEF Trees
<1>2. ASSUME NEW e \in RandomExpressions[0] PROVE DOMAIN e.args = {}
  <2>1. 0 \in 0..Deepest /\ e = Feature(e.op)
    BY Shapes, DslAssumption
  <2> QED BY <2>1 DEF Feature
<1>3. ASSUME NEW n \in Nat, n + 1 <= Deepest
      PROVE  /\ RandomExpressions[n] \subseteq RandomExpressions[n + 1]
             /\ \A e \in RandomExpressions[n + 1] : \A k \in DOMAIN e.args :
                     k \in {1, 2} /\ e.args[k] \in RandomExpressions[n]
  <2>1. n + 1 \in 0..Deepest /\ n \in 0..Deepest /\ n <= n + 1 /\ (n + 1) - 1 = n
    BY <1>3
  <2>2. ASSUME NEW e \in RandomExpressions[n + 1], NEW k \in DOMAIN e.args
        PROVE  k \in {1, 2} /\ e.args[k] \in RandomExpressions[n]
    <3>1. \/ e.op \in FEATURES /\ e = Feature(e.op)
          \/ \E op \in UNARY_OPS, a \in RandomExpressions[n] : e = Unary(op, a)
          \/ \E op \in TS_OPS, a \in RandomExpressions[n], w \in WINDOWS : e = TimeSeries(op, a, w)
          \/ \E op \in BINARY_OPS, a, b \in RandomExpressions[n] : e = Binary(op, a, b)
      BY <2>1, Shapes
    <3>2. CASE e = Feature(e.op)
      BY <3>2 DEF Feature
    <3>3. CASE \E op \in UNARY_OPS, a \in RandomExpressions[n] : e = Unary(op, a)
      BY <3>3 DEF Unary
    <3>4. CASE \E op \in TS_OPS, a \in RandomExpressions[n], w \in WINDOWS : e = TimeSeries(op, a, w)
      BY <3>4 DEF TimeSeries
    <3>5. CASE \E op \in BINARY_OPS, a, b \in RandomExpressions[n] : e = Binary(op, a, b)
      BY <3>5 DEF Binary
    <3> QED BY <3>1, <3>2, <3>3, <3>4, <3>5
  <2> QED BY <2>1, <2>2, HigherHoldsMore
<1>4. ASSUME NEW e \in Trees, NEW k \in DOMAIN e.args
      PROVE  k \in {1, 2} /\ e.args[k] \in Trees
  <2>1. CASE Deepest = 0
    BY <1>2, <1>4, <2>1 DEF Trees
  <2>2. CASE Deepest # 0
    <3>1. Deepest - 1 \in Nat /\ (Deepest - 1) + 1 = Deepest /\ Deepest - 1 \in 0..Deepest
      BY <2>2
    <3>2. k \in {1, 2} /\ e.args[k] \in RandomExpressions[Deepest - 1]
      BY <1>3, <1>4, <3>1 DEF Trees
    <3> QED BY <1>1, <3>1, <3>2
  <2> QED BY <2>1, <2>2
<1> QED BY <1>1, <1>2, <1>3, <1>4

\* Counting nodes is well defined.
LEMMA NodeCountRecursion ==
  \A e \in Trees : NodeCount[e] = 1 + OfArg(NodeCount, e, 1, 0) + OfArg(NodeCount, e, 2, 0)
<1> DEFINE Body(f, e) == 1 + OfArg(f, e, 1, 0) + OfArg(f, e, 2, 0)
           S == {n \in Nat : n <= Deepest =>
                   \E f : f = [e \in RandomExpressions[n] |-> Body(f, e)]}
<1>1. 0 \in S
  <2> DEFINE f == [e \in RandomExpressions[0] |-> 1 + 0 + 0]
  <2>1. \A e \in RandomExpressions[0] : Body(f, e) = 1 + 0 + 0
    BY Arguments DEF OfArg
  <2>2. f = [e \in RandomExpressions[0] |-> Body(f, e)]
    <3> HIDE DEF Body
    <3> QED BY <2>1
  <2> QED BY <2>2
<1>2. ASSUME NEW n \in Nat, n \in S PROVE n + 1 \in S
  <2> SUFFICES ASSUME n + 1 <= Deepest
               PROVE  \E g : g = [e \in RandomExpressions[n + 1] |-> Body(g, e)]
    OBVIOUS
  <2>1. PICK f : f = [e \in RandomExpressions[n] |-> Body(f, e)]
    BY <1>2, DslAssumption
  <2> DEFINE g == [e \in RandomExpressions[n + 1] |-> Body(f, e)]
  <2>2. \A e \in RandomExpressions[n] : g[e] = f[e]
    <3> HIDE DEF Body
    <3>1. RandomExpressions[n] \subseteq RandomExpressions[n + 1]
      BY Arguments
    <3> QED BY <2>1, <3>1
  <2>3. \A e \in RandomExpressions[n + 1] : Body(g, e) = Body(f, e)
    <3> HIDE DEF g
    <3>1. \A e \in RandomExpressions[n + 1] : \A k \in DOMAIN e.args : e.args[k] \in RandomExpressions[n]
      BY Arguments
    <3> QED BY <2>2, <3>1 DEF OfArg
  <2>4. g = [e \in RandomExpressions[n + 1] |-> Body(g, e)]
    <3> HIDE DEF Body
    <3> QED BY <2>3
  <2> HIDE DEF Body, g
  <2> QED BY <2>4
<1>3. Deepest \in S /\ Deepest \in Nat
  <2> HIDE DEF S
  <2> QED BY <1>1, <1>2, Induction, DslAssumption
<1>4. \E f : f = [e \in Trees |-> Body(f, e)]
  BY <1>3 DEF Trees
<1>5. NodeCount = CHOOSE f : f = [e \in Trees |-> Body(f, e)]
  BY Zenon DEF NodeCount
<1> HIDE DEF Body
<1>6. NodeCount = [e \in Trees |-> Body(NodeCount, e)]
  BY <1>4, <1>5, Zenon
<1>7. \A e \in Trees : NodeCount[e] = Body(NodeCount, e)
  BY <1>6, Zenon
<1> QED BY <1>7 DEF Body

Nothing == <<>>

\* The empty list.
LEMMA NothingFacts ==
  ASSUME NEW T
  PROVE  Nothing \in Seq(T) /\ Len(Nothing) = 0
BY DEF Nothing

\* Listing the subtrees is well defined.
LEMMA CollectRecursion ==
  \A e \in Trees :
     Collect[e] = <<e>> \o OfArg(Collect, e, 1, Nothing) \o OfArg(Collect, e, 2, Nothing)
<1> DEFINE Body(f, e) ==
               <<e>> \o OfArg(f, e, 1, <<>>) \o OfArg(f, e, 2, <<>>)
           S == {n \in Nat : n <= Deepest =>
                   \E f : f = [e \in RandomExpressions[n] |-> Body(f, e)]}
<1>1. 0 \in S
  <2> DEFINE f == [e \in RandomExpressions[0] |-> <<e>> \o <<>> \o <<>>]
  <2>1. \A e \in RandomExpressions[0] : Body(f, e) = <<e>> \o <<>> \o <<>>
    BY Arguments DEF OfArg
  <2>2. f = [e \in RandomExpressions[0] |-> Body(f, e)]
    <3> HIDE DEF Body
    <3> QED BY <2>1
  <2> QED BY <2>2
<1>2. ASSUME NEW n \in Nat, n \in S PROVE n + 1 \in S
  <2> SUFFICES ASSUME n + 1 <= Deepest
               PROVE  \E g : g = [e \in RandomExpressions[n + 1] |-> Body(g, e)]
    OBVIOUS
  <2>1. PICK f : f = [e \in RandomExpressions[n] |-> Body(f, e)]
    BY <1>2, DslAssumption
  <2> DEFINE g == [e \in RandomExpressions[n + 1] |-> Body(f, e)]
  <2>2. \A e \in RandomExpressions[n] : g[e] = f[e]
    <3> HIDE DEF Body
    <3>1. RandomExpressions[n] \subseteq RandomExpressions[n + 1]
      BY Arguments
    <3> QED BY <2>1, <3>1
  <2>3. \A e \in RandomExpressions[n + 1] : Body(g, e) = Body(f, e)
    <3> HIDE DEF g
    <3>1. \A e \in RandomExpressions[n + 1] : \A k \in DOMAIN e.args : e.args[k] \in RandomExpressions[n]
      BY Arguments
    <3> QED BY <2>2, <3>1 DEF OfArg
  <2>4. g = [e \in RandomExpressions[n + 1] |-> Body(g, e)]
    <3> HIDE DEF Body
    <3> QED BY <2>3
  <2> HIDE DEF Body, g
  <2> QED BY <2>4
<1>3. Deepest \in S /\ Deepest \in Nat
  <2> HIDE DEF S
  <2> QED BY <1>1, <1>2, Induction, DslAssumption
<1>4. \E f : f = [e \in Trees |-> Body(f, e)]
  BY <1>3 DEF Trees
<1>5. Collect = CHOOSE f : f = [e \in Trees |-> Body(f, e)]
  BY Zenon DEF Collect
<1> HIDE DEF Body
<1>6. Collect = [e \in Trees |-> Body(Collect, e)]
  BY <1>4, <1>5, Zenon
<1>7. \A e \in Trees : Collect[e] = Body(Collect, e)
  BY <1>6, Zenon
<1> QED BY <1>7, Zenon DEF Body, Nothing

\* Serializing is well defined.
LEMMA TokensRecursion ==
  \A e \in Trees :
     Tokens[e] = IF e.args = <<>> THEN <<Text(e.op)>>
                 ELSE <<Text("("), Text(e.op)>>
                      \o OfArg(Tokens, e, 1, Nothing) \o OfArg(Tokens, e, 2, Nothing)
                      \o (IF e.window # NoWindow THEN <<Number(e.window)>> ELSE Nothing)
                      \o <<Text(")")>>
<1> DEFINE Body(f, e) ==
               IF e.args = <<>> THEN <<Text(e.op)>>
               ELSE <<Text("("), Text(e.op)>>
                    \o OfArg(f, e, 1, <<>>) \o OfArg(f, e, 2, <<>>)
                    \o (IF e.window # NoWindow THEN <<Number(e.window)>> ELSE <<>>)
                    \o <<Text(")")>>
           S == {n \in Nat : n <= Deepest =>
                   \E f : f = [e \in RandomExpressions[n] |-> Body(f, e)]}
<1>1. 0 \in S
  <2> DEFINE f == [e \in RandomExpressions[0] |-> Body(<<>>, e)]
  <2>1. \A e \in RandomExpressions[0] : Body(f, e) = Body(<<>>, e)
    BY Arguments DEF OfArg
  <2>2. f = [e \in RandomExpressions[0] |-> Body(f, e)]
    <3> HIDE DEF Body
    <3> QED BY <2>1
  <2> QED BY <2>2
<1>2. ASSUME NEW n \in Nat, n \in S PROVE n + 1 \in S
  <2> SUFFICES ASSUME n + 1 <= Deepest
               PROVE  \E g : g = [e \in RandomExpressions[n + 1] |-> Body(g, e)]
    OBVIOUS
  <2>1. PICK f : f = [e \in RandomExpressions[n] |-> Body(f, e)]
    BY <1>2, DslAssumption
  <2> DEFINE g == [e \in RandomExpressions[n + 1] |-> Body(f, e)]
  <2>2. \A e \in RandomExpressions[n] : g[e] = f[e]
    <3> HIDE DEF Body
    <3>1. RandomExpressions[n] \subseteq RandomExpressions[n + 1]
      BY Arguments
    <3> QED BY <2>1, <3>1
  <2>3. \A e \in RandomExpressions[n + 1] : Body(g, e) = Body(f, e)
    <3> HIDE DEF g
    <3>1. \A e \in RandomExpressions[n + 1] : \A k \in DOMAIN e.args : e.args[k] \in RandomExpressions[n]
      BY Arguments
    <3> QED BY <2>2, <3>1 DEF OfArg
  <2>4. g = [e \in RandomExpressions[n + 1] |-> Body(g, e)]
    <3> HIDE DEF Body
    <3> QED BY <2>3
  <2> HIDE DEF Body, g
  <2> QED BY <2>4
<1>3. Deepest \in S /\ Deepest \in Nat
  <2> HIDE DEF S
  <2> QED BY <1>1, <1>2, Induction, DslAssumption
<1>4. \E f : f = [e \in Trees |-> Body(f, e)]
  BY <1>3 DEF Trees
<1>5. Tokens = CHOOSE f : f = [e \in Trees |-> Body(f, e)]
  BY Zenon DEF Tokens
<1> HIDE DEF Body
<1>6. Tokens = [e \in Trees |-> Body(Tokens, e)]
  BY <1>4, <1>5, Zenon
<1>7. \A e \in Trees : Tokens[e] = Body(Tokens, e)
  BY <1>6, Zenon
<1> QED BY <1>7, Zenon DEF Body, Nothing

\* What a function says of the arguments of a tree.
LEMMA OfArguments ==
  ASSUME NEW f, NEW none
  PROVE  /\ \A op : OfArg(f, Feature(op), 1, none) = none /\ OfArg(f, Feature(op), 2, none) = none
         /\ \A op, a : OfArg(f, Unary(op, a), 1, none) = f[a] /\ OfArg(f, Unary(op, a), 2, none) = none
         /\ \A op, a, w : /\ OfArg(f, TimeSeries(op, a, w), 1, none) = f[a]
                          /\ OfArg(f, TimeSeries(op, a, w), 2, none) = none
         /\ \A op, a, b : /\ OfArg(f, Binary(op, a, b), 1, none) = f[a]
                          /\ OfArg(f, Binary(op, a, b), 2, none) = f[b]
BY DEF OfArg, Feature, Unary, TimeSeries, Binary

\* What counting, listing and serializing make of a feature and of each operator.
LEMMA FeatureFacts ==
  ASSUME NEW name \in FEATURES
  PROVE  /\ Feature(name) \in Trees
         /\ NodeCount[Feature(name)] = 1
         /\ Collect[Feature(name)] = <<Feature(name)>> \o Nothing \o Nothing
         /\ Tokens[Feature(name)] = <<Text(name)>>
<1> DEFINE e == Feature(name)
<1>1. e \in Trees
  <2>1. Deepest \in 0..Deepest
    BY DslAssumption
  <2> QED BY <2>1, Growth DEF Trees
<1>2. e.args = <<>> /\ e.op = name
  BY Constructors
<1>3. OfArg(NodeCount, e, 1, 0) = 0 /\ OfArg(NodeCount, e, 2, 0) = 0
  BY OfArguments
<1>4. OfArg(Collect, e, 1, Nothing) = Nothing /\ OfArg(Collect, e, 2, Nothing) = Nothing
  BY OfArguments
<1> HIDE DEF e
<1>5. NodeCount[e] = 1 + 0 + 0
  BY <1>1, <1>3, NodeCountRecursion
<1>6. Collect[e] = <<e>> \o Nothing \o Nothing
  BY <1>1, <1>4, CollectRecursion
<1>7. Tokens[e] = <<Text(name)>>
  BY <1>1, <1>2, TokensRecursion
<1> QED BY <1>1, <1>5, <1>6, <1>7 DEF e

LEMMA UnaryFacts ==
  ASSUME NEW op, NEW a, Unary(op, a) \in Trees
  PROVE  /\ NodeCount[Unary(op, a)] = 1 + NodeCount[a] + 0
         /\ Collect[Unary(op, a)] = <<Unary(op, a)>> \o Collect[a] \o Nothing
         /\ Tokens[Unary(op, a)] =
               <<Text("("), Text(op)>> \o Tokens[a] \o Nothing \o Nothing \o <<Text(")")>>
<1> DEFINE e == Unary(op, a)
<1>1. e.args # <<>> /\ e.op = op /\ e.window = NoWindow
  BY DEF Unary
<1>2. OfArg(NodeCount, e, 1, 0) = NodeCount[a] /\ OfArg(NodeCount, e, 2, 0) = 0
  BY OfArguments
<1>3. OfArg(Collect, e, 1, Nothing) = Collect[a] /\ OfArg(Collect, e, 2, Nothing) = Nothing
  BY OfArguments
<1>4. OfArg(Tokens, e, 1, Nothing) = Tokens[a] /\ OfArg(Tokens, e, 2, Nothing) = Nothing
  BY OfArguments
<1>5. e \in Trees
  OBVIOUS
<1> HIDE DEF e
<1>6. NodeCount[e] = 1 + NodeCount[a] + 0
  BY <1>2, <1>5, NodeCountRecursion
<1>7. Collect[e] = <<e>> \o Collect[a] \o Nothing
  BY <1>3, <1>5, CollectRecursion
<1>8. Tokens[e] = <<Text("("), Text(op)>> \o Tokens[a] \o Nothing \o Nothing \o <<Text(")")>>
  BY <1>1, <1>4, <1>5, TokensRecursion
<1> QED BY <1>6, <1>7, <1>8 DEF e

LEMMA TimeSeriesFacts ==
  ASSUME NEW op, NEW a, NEW w \in WINDOWS, TimeSeries(op, a, w) \in Trees
  PROVE  /\ NodeCount[TimeSeries(op, a, w)] = 1 + NodeCount[a] + 0
         /\ Collect[TimeSeries(op, a, w)] = <<TimeSeries(op, a, w)>> \o Collect[a] \o Nothing
         /\ Tokens[TimeSeries(op, a, w)] =
               <<Text("("), Text(op)>> \o Tokens[a] \o Nothing \o <<Number(w)>> \o <<Text(")")>>
<1> DEFINE e == TimeSeries(op, a, w)
<1>1. e.args # <<>> /\ e.op = op /\ e.window = w /\ w # NoWindow
  BY DslAssumption DEF TimeSeries, NoWindow
<1>2. OfArg(NodeCount, e, 1, 0) = NodeCount[a] /\ OfArg(NodeCount, e, 2, 0) = 0
  BY OfArguments
<1>3. OfArg(Collect, e, 1, Nothing) = Collect[a] /\ OfArg(Collect, e, 2, Nothing) = Nothing
  BY OfArguments
<1>4. OfArg(Tokens, e, 1, Nothing) = Tokens[a] /\ OfArg(Tokens, e, 2, Nothing) = Nothing
  BY OfArguments
<1>5. e \in Trees
  OBVIOUS
<1> HIDE DEF e
<1>6. NodeCount[e] = 1 + NodeCount[a] + 0
  BY <1>2, <1>5, NodeCountRecursion
<1>7. Collect[e] = <<e>> \o Collect[a] \o Nothing
  BY <1>3, <1>5, CollectRecursion
<1>8. Tokens[e] = <<Text("("), Text(op)>> \o Tokens[a] \o Nothing \o <<Number(w)>> \o <<Text(")")>>
  BY <1>1, <1>4, <1>5, TokensRecursion
<1> QED BY <1>6, <1>7, <1>8 DEF e

LEMMA BinaryFacts ==
  ASSUME NEW op \in BINARY_OPS, NEW a \in Trees, NEW b \in Trees, Binary(op, a, b) \in Trees
  PROVE  /\ NodeCount[Binary(op, a, b)] = 1 + NodeCount[a] + NodeCount[b]
         /\ Collect[Binary(op, a, b)] = <<Binary(op, a, b)>> \o Collect[a] \o Collect[b]
         /\ Tokens[Binary(op, a, b)] =
               <<Text("("), Text(op)>> \o Tokens[a] \o Tokens[b] \o Nothing \o <<Text(")")>>
<1> DEFINE e == Binary(op, a, b)
<1>1. e.args # <<>> /\ e.op = op /\ e.window = NoWindow
  BY DEF Binary
<1>2. OfArg(NodeCount, e, 1, 0) = NodeCount[a] /\ OfArg(NodeCount, e, 2, 0) = NodeCount[b]
  BY OfArguments
<1>3. OfArg(Collect, e, 1, Nothing) = Collect[a] /\ OfArg(Collect, e, 2, Nothing) = Collect[b]
  BY OfArguments
<1>4. OfArg(Tokens, e, 1, Nothing) = Tokens[a] /\ OfArg(Tokens, e, 2, Nothing) = Tokens[b]
  BY OfArguments
<1>5. e \in Trees
  OBVIOUS
<1> HIDE DEF e
<1>6. NodeCount[e] = 1 + NodeCount[a] + NodeCount[b]
  BY <1>2, <1>5, NodeCountRecursion
<1>7. Collect[e] = <<e>> \o Collect[a] \o Collect[b]
  BY <1>3, <1>5, CollectRecursion
<1>8. Tokens[e] = <<Text("("), Text(op)>> \o Tokens[a] \o Tokens[b] \o Nothing \o <<Text(")")>>
  BY <1>1, <1>4, <1>5, TokensRecursion
<1> QED BY <1>6, <1>7, <1>8 DEF e

\* A tree has one node or more.
LEMMA NodeCountType ==
  ASSUME NEW e \in Trees
  PROVE  NodeCount[e] \in Nat \ {0}
<1> DEFINE S == {t \in Trees : NodeCount[t] \in Nat \ {0}}
<1>1. ASSUME NEW name \in FEATURES PROVE Feature(name) \in S
  <2>1. Feature(name) \in Trees /\ NodeCount[Feature(name)] = 1
    BY FeatureFacts
  <2> QED BY <2>1
<1>2. ASSUME NEW op \in UNARY_OPS, NEW a \in Trees, a \in S, Unary(op, a) \in Trees
      PROVE  Unary(op, a) \in S
  <2>0. Unary(op, a) \in Trees
    BY <1>2
  <2>1. NodeCount[Unary(op, a)] = 1 + NodeCount[a] + 0
    BY <2>0, UnaryFacts
  <2> QED BY <1>2, <2>1
<1>3. ASSUME NEW op \in TS_OPS, NEW a \in Trees, NEW w \in WINDOWS, a \in S,
             TimeSeries(op, a, w) \in Trees
      PROVE  TimeSeries(op, a, w) \in S
  <2>0. TimeSeries(op, a, w) \in Trees
    BY <1>3
  <2>1. NodeCount[TimeSeries(op, a, w)] = 1 + NodeCount[a] + 0
    BY <2>0, TimeSeriesFacts
  <2> QED BY <1>3, <2>1
<1>4. ASSUME NEW op \in BINARY_OPS, NEW a \in Trees, NEW b \in Trees, a \in S, b \in S,
             Binary(op, a, b) \in Trees
      PROVE  Binary(op, a, b) \in S
  <2>0. Binary(op, a, b) \in Trees
    BY <1>4
  <2>1. NodeCount[Binary(op, a, b)] = 1 + NodeCount[a] + NodeCount[b]
    BY <2>0, BinaryFacts
  <2> QED BY <1>4, <2>1
<1> HIDE DEF S
<1>5. Trees \subseteq S
  BY <1>1, <1>2, <1>3, <1>4, TreeInduction
<1> QED BY <1>5 DEF S

\* Two lists, one behind the other.
LEMMA Joined ==
  ASSUME NEW T
  PROVE  \A s, t \in Seq(T) :
            /\ s \o t \in Seq(T)
            /\ Len(s) \in Nat
            /\ Len(t) \in Nat
            /\ Len(s \o t) = Len(s) + Len(t)
            /\ \A i \in 1..Len(s) : (s \o t)[i] = s[i]
            /\ \A i \in 1..Len(t) : (s \o t)[Len(s) + i] = t[i]
<1> SUFFICES ASSUME NEW s \in Seq(T), NEW t \in Seq(T)
             PROVE  /\ s \o t \in Seq(T)
                    /\ Len(s) \in Nat
                    /\ Len(t) \in Nat
                    /\ Len(s \o t) = Len(s) + Len(t)
                    /\ \A i \in 1..Len(s) : (s \o t)[i] = s[i]
                    /\ \A i \in 1..Len(t) : (s \o t)[Len(s) + i] = t[i]
  OBVIOUS
<1> DEFINE u == s \o t
<1>1. /\ u \in Seq(T) /\ Len(u) = Len(s) + Len(t)
      /\ \A i \in 1..(Len(s) + Len(t)) : u[i] = IF i <= Len(s) THEN s[i] ELSE t[i - Len(s)]
  BY ConcatProperties
<1>2. Len(s) \in Nat /\ Len(t) \in Nat
  OBVIOUS
<1> HIDE DEF u
<1>3. \A i \in 1..Len(s) : u[i] = s[i]
  BY <1>1, <1>2
<1>4. ASSUME NEW i \in 1..Len(t) PROVE u[Len(s) + i] = t[i]
  <2>1. Len(s) + i \in 1..(Len(s) + Len(t)) /\ ~(Len(s) + i <= Len(s)) /\ (Len(s) + i) - Len(s) = i
    BY <1>2
  <2> QED BY <1>1, <2>1
<1> QED BY <1>1, <1>2, <1>3, <1>4 DEF u

\* The list of one element and two lists.
LEMMA Headed ==
  ASSUME NEW T, NEW e \in T, NEW s \in Seq(T), NEW t \in Seq(T), NEW c, c = <<e>> \o s \o t
  PROVE  /\ c \in Seq(T)
         /\ Len(s) \in Nat /\ Len(t) \in Nat /\ Len(c) = 1 + Len(s) + Len(t)
         /\ c[1] = e
         /\ \A i \in 1..Len(s) : c[1 + i] = s[i]
         /\ \A i \in 1..Len(t) : c[1 + Len(s) + i] = t[i]
<1>1. <<e>> \in Seq(T) /\ Len(<<e>>) = 1 /\ <<e>>[1] = e
  OBVIOUS
<1> DEFINE u == <<e>> \o s
<1>2. /\ u \in Seq(T) /\ Len(u) = 1 + Len(s) /\ Len(s) \in Nat
      /\ \A i \in 1..1 : u[i] = <<e>>[i]
      /\ \A i \in 1..Len(s) : u[1 + i] = s[i]
  BY <1>1, Joined
<1> HIDE DEF u
<1>3. /\ u \o t \in Seq(T) /\ Len(u \o t) = Len(u) + Len(t) /\ Len(t) \in Nat
      /\ \A i \in 1..Len(u) : (u \o t)[i] = u[i]
      /\ \A i \in 1..Len(t) : (u \o t)[Len(u) + i] = t[i]
  <2>1. u \in Seq(T)
    BY <1>2
  <2> QED BY <2>1, Joined
<1>4. 1 \in 1..1 /\ 1 \in 1..Len(u) /\ \A i \in 1..Len(s) : 1 + i \in 1..Len(u)
  BY <1>2
<1>5. (u \o t)[1] = e
  BY <1>1, <1>2, <1>3, <1>4
<1>6. \A i \in 1..Len(s) : (u \o t)[1 + i] = s[i]
  BY <1>2, <1>3, <1>4
<1> QED BY <1>2, <1>3, <1>5, <1>6 DEF u

\* The list of the subtrees has one entry for every node, and begins with the tree.
LEMMA CollectType ==
  ASSUME NEW e \in Trees
  PROVE  Collect[e] \in Seq(Trees) /\ Len(Collect[e]) = NodeCount[e] /\ Collect[e][1] = e
<1> DEFINE S == {t \in Trees : /\ Collect[t] \in Seq(Trees)
                               /\ Len(Collect[t]) = NodeCount[t] /\ Collect[t][1] = t}
<1>0. Nothing \in Seq(Trees) /\ Len(Nothing) = 0
  BY NothingFacts
<1>1. ASSUME NEW name \in FEATURES PROVE Feature(name) \in S
  <2> DEFINE e1 == Feature(name)
             c == Collect[e1]
  <2>1. e1 \in Trees /\ NodeCount[e1] = 1 /\ c = <<e1>> \o Nothing \o Nothing
    BY FeatureFacts
  <2> HIDE DEF c, e1
  <2>2. c \in Seq(Trees) /\ Len(c) = 1 + Len(Nothing) + Len(Nothing) /\ c[1] = e1
    BY <1>0, <2>1, Headed
  <2>3. Len(c) = NodeCount[e1]
    BY <1>0, <2>1, <2>2
  <2> QED BY <2>1, <2>2, <2>3 DEF c, e1
<1>2. ASSUME NEW op \in UNARY_OPS, NEW a \in Trees, a \in S, Unary(op, a) \in Trees
      PROVE  Unary(op, a) \in S
  <2>0. Unary(op, a) \in Trees
    BY <1>2
  <2> DEFINE e1 == Unary(op, a)
             c == Collect[e1]
  <2>1. e1 \in Trees /\ NodeCount[e1] = 1 + NodeCount[a] + 0 /\ c = <<e1>> \o Collect[a] \o Nothing
    BY <2>0, UnaryFacts
  <2>2. Collect[a] \in Seq(Trees) /\ Len(Collect[a]) = NodeCount[a]
    BY <1>2
  <2> HIDE DEF c, e1, S
  <2>3. c \in Seq(Trees) /\ Len(c) = 1 + Len(Collect[a]) + Len(Nothing) /\ c[1] = e1
    BY <1>0, <2>1, <2>2, Headed
  <2>4. Len(c) = NodeCount[e1]
    BY <1>0, <2>1, <2>2, <2>3
  <2> QED BY <2>1, <2>3, <2>4 DEF c, e1, S
<1>3. ASSUME NEW op \in TS_OPS, NEW a \in Trees, NEW w \in WINDOWS, a \in S,
             TimeSeries(op, a, w) \in Trees
      PROVE  TimeSeries(op, a, w) \in S
  <2>0. TimeSeries(op, a, w) \in Trees
    BY <1>3
  <2> DEFINE e1 == TimeSeries(op, a, w)
             c == Collect[e1]
  <2>1. e1 \in Trees /\ NodeCount[e1] = 1 + NodeCount[a] + 0 /\ c = <<e1>> \o Collect[a] \o Nothing
    BY <2>0, TimeSeriesFacts
  <2>2. Collect[a] \in Seq(Trees) /\ Len(Collect[a]) = NodeCount[a]
    BY <1>3
  <2> HIDE DEF c, e1, S
  <2>3. c \in Seq(Trees) /\ Len(c) = 1 + Len(Collect[a]) + Len(Nothing) /\ c[1] = e1
    BY <1>0, <2>1, <2>2, Headed
  <2>4. Len(c) = NodeCount[e1]
    BY <1>0, <2>1, <2>2, <2>3
  <2> QED BY <2>1, <2>3, <2>4 DEF c, e1, S
<1>4. ASSUME NEW op \in BINARY_OPS, NEW a \in Trees, NEW b \in Trees, a \in S, b \in S,
             Binary(op, a, b) \in Trees
      PROVE  Binary(op, a, b) \in S
  <2>0. Binary(op, a, b) \in Trees
    BY <1>4
  <2> DEFINE e1 == Binary(op, a, b)
             c == Collect[e1]
  <2>1. e1 \in Trees /\ NodeCount[e1] = 1 + NodeCount[a] + NodeCount[b] /\ c = <<e1>> \o Collect[a] \o Collect[b]
    BY <2>0, BinaryFacts
  <2>2. Collect[a] \in Seq(Trees) /\ Len(Collect[a]) = NodeCount[a] /\ Collect[b] \in Seq(Trees) /\ Len(Collect[b]) = NodeCount[b]
    BY <1>4
  <2> HIDE DEF c, e1, S
  <2> DEFINE s == Collect[a]
             t == Collect[b]
  <2> HIDE DEF s, t
  <2>3. c \in Seq(Trees) /\ Len(c) = 1 + Len(s) + Len(t) /\ c[1] = e1
    <3>1. s \in Seq(Trees) /\ t \in Seq(Trees) /\ c = <<e1>> \o s \o t /\ e1 \in Trees
      BY <2>1, <2>2 DEF s, t
    <3> QED BY <3>1, Headed
  <2>4. Len(c) = NodeCount[e1]
    BY <2>1, <2>2, <2>3 DEF s, t
  <2> QED BY <2>1, <2>3, <2>4 DEF c, e1, S
<1> HIDE DEF S
<1>5. Trees \subseteq S
  BY <1>1, <1>2, <1>3, <1>4, TreeInduction
<1> QED BY <1>5 DEF S

--------------------------------------------------------------------------------
(* Nothing known                                                                *)

\* The largest of finitely many numbers.
LEMMA Greatest ==
  ASSUME NEW S \in SUBSET Nat, IsFiniteSet(S), NEW x \in S
  PROVE  Max(S) \in Nat /\ Max(S) >= x
<1> DEFINE id == [y \in S |-> y]
<1>1. PICK m \in S : \A y \in S : id[m] >= id[y]
  <2>1. S # {} /\ \A y \in S : id[y] \in Int
    OBVIOUS
  <2> HIDE DEF id
  <2> QED BY <2>1, Fittest
<1>2. m \in S /\ \A y \in S : m >= y
  BY <1>1
<1>3. \A z \in S : (\A y \in S : z >= y) => z = m
  BY <1>2
<1> QED BY <1>2, <1>3 DEF Max

\* The filter turns down whatever occurs in a known factor.
LEMMA AdmittedIsNew == AdmittedExpressions \cap Known = {}
<1> SUFFICES ASSUME NEW e \in AdmittedExpressions, e \in Known PROVE FALSE
  OBVIOUS
<1>1. PICK known \in Library : e \in ToSet(Collect[known])
  BY DEF Known
<1>2. known \in Trees
  BY MiningBounds
<1>3. /\ Collect[known] \in Seq(Trees)
      /\ IsFiniteSet(ToSet(Collect[known])) /\ ToSet(Collect[known]) \subseteq Trees
  BY <1>2, CollectType, ToSetFacts
<1>4. e \in Trees
  BY <1>1, <1>3
<1>5. NodeCount[e] \in Nat \ {0}
  BY <1>4, NodeCountType
<1>6. e \in ToSet(Collect[e])
  <2>1. Collect[e] \in Seq(Trees) /\ Len(Collect[e]) = NodeCount[e] /\ Collect[e][1] = e
    BY <1>4, CollectType
  <2>2. 1 \in 1..Len(Collect[e])
    BY <1>5, <2>1
  <2> QED BY <2>1, <2>2, ToSetFacts
<1>7. Admissible(e, Library)
  BY DEF AdmittedExpressions, Rejected
<1> DEFINE shared == ToSet(Collect[e]) \cap ToSet(Collect[known])
           values == {0} \cup {NodeCount[s] : s \in shared}
<1>8. values \in SUBSET Nat /\ IsFiniteSet(values) /\ NodeCount[e] \in values
  <2>1. IsFiniteSet(shared) /\ shared \subseteq Trees /\ e \in shared
    BY <1>1, <1>3, <1>6, FS_Subset
  <2> HIDE DEF shared
  <2>2. IsFiniteSet({NodeCount[s] : s \in shared})
    <3> DEFINE f == [s \in shared |-> NodeCount[s]]
    <3>1. f \in Surjection(shared, {NodeCount[s] : s \in shared})
      BY DEF Surjection
    <3> QED BY <2>1, <3>1, FS_Surjection
  <2>3. IsFiniteSet({0}) /\ IsFiniteSet(values)
    BY <2>2, FS_Singleton, FS_Union
  <2>4. \A s \in shared : NodeCount[s] \in Nat
    BY <2>1, NodeCountType
  <2> QED BY <2>1, <2>3, <2>4
<1>9. Similarity(e, known) = Max(values)
  BY DEF Similarity
<1> DEFINE n == NodeCount[e]
           same == Similarity(e, known)
<1>10. same \in Nat /\ same >= n /\ n \in Nat \ {0}
  <2> HIDE DEF values
  <2> QED BY <1>5, <1>8, <1>9, Greatest
<1>11. 10 * same <= MaxSimilarity * n
  BY <1>7 DEF Admissible
<1> HIDE DEF n, same
<1>12. MaxSimilarity \in 0..9
  BY DslAssumption
<1>13. MaxSimilarity * n <= 9 * n
  <2>1. /\ MaxSimilarity = 0 => MaxSimilarity * n = 0
        /\ MaxSimilarity = 1 => MaxSimilarity * n = n
        /\ MaxSimilarity = 2 => MaxSimilarity * n = 2 * n
        /\ MaxSimilarity = 3 => MaxSimilarity * n = 3 * n
        /\ MaxSimilarity = 4 => MaxSimilarity * n = 4 * n
        /\ MaxSimilarity = 5 => MaxSimilarity * n = 5 * n
        /\ MaxSimilarity = 6 => MaxSimilarity * n = 6 * n
        /\ MaxSimilarity = 7 => MaxSimilarity * n = 7 * n
        /\ MaxSimilarity = 8 => MaxSimilarity * n = 8 * n
        /\ MaxSimilarity = 9 => MaxSimilarity * n = 9 * n
    BY <1>10
  <2> QED BY <1>10, <1>12, <2>1
<1> QED BY <1>10, <1>11, <1>12, <1>13

\* What is mined is an admitted tree, or something that cannot be evaluated.
LEMMA MinedInvariant ==
  Spec => [](Mined \cup ToSet(hall) \subseteq AdmittedExpressions \cup Invalid)
<1> DEFINE Empty == step # "done" => ToSet(hall) = {}
<1>1. Init => Empty
  BY DEF Init, ToSet
<1>2. Empty /\ [Next]_vars => Empty'
  BY DEF Next, vars, Propose, Fill, Raise, Rank, Breed, EndGeneration, Finish, ToSet
<1>3. MinerInv /\ Empty => Mined \cup ToSet(hall) \subseteq AdmittedExpressions \cup Invalid
  <2> SUFFICES ASSUME MinerInv, Empty
               PROVE  Mined \cup ToSet(hall) \subseteq AdmittedExpressions \cup Invalid
    OBVIOUS
  <2>1. Admitted \subseteq AdmittedExpressions \cup Invalid
    BY Wiring
  <2>2. ToSet(population) \subseteq Admitted /\ ToSet(nextPopulation) \subseteq Admitted
    BY ToSetFacts DEF MinerInv
  <2>3. ToSet(hall) \subseteq Admitted
    BY DEF MinerInv, HallIsBest
  <2> QED BY <2>1, <2>2, <2>3 DEF Mined
<1> HIDE DEF Empty
<1> QED BY <1>1, <1>2, <1>3, MinerInvariant, PTL DEF Spec

\* Neither a candidate nor a member of the hall of fame occurs in a known factor, whole or as
\* a part (NothingKnown): a subtree that is the whole of an expression is all of its similarity,
\* and less than that is allowed.
THEOREM NothingKnownIsMined == Spec => []NothingKnown
<1>1. Invalid \cap Known = {}
  <2>1. ASSUME NEW known \in Library PROVE ToSet(Collect[known]) \subseteq Trees
    <3>1. known \in Trees
      BY MiningBounds
    <3>2. Collect[known] \in Seq(Trees)
      BY <3>1, CollectType
    <3> QED BY <3>2, ToSetFacts
  <2>2. Known \subseteq Trees
    BY <2>1 DEF Known
  <2> QED BY <2>2, Wiring
<1>2. Mined \cup ToSet(hall) \subseteq AdmittedExpressions \cup Invalid => NothingKnown
  BY <1>1, AdmittedIsNew DEF NothingKnown
<1> QED BY <1>2, MinedInvariant, PTL

--------------------------------------------------------------------------------
(* No lookahead                                                                 *)

\* Evaluating is well defined.
LEMMA EvaluateRecursion ==
  ASSUME NEW bars
  PROVE  \A e \in Trees :
            Evaluate(bars)[e] =
              [t \in TickersOf(bars) |-> [d \in Dates(bars) |->
                 Cell(e, bars, OfArg(Evaluate(bars), e, 1, NaN), OfArg(Evaluate(bars), e, 2, NaN),
                      t, d)]]
<1> DEFINE Body(f, e) ==
               [t \in TickersOf(bars) |-> [d \in Dates(bars) |->
                  Cell(e, bars, OfArg(f, e, 1, NaN), OfArg(f, e, 2, NaN), t, d)]]
           S == {n \in Nat : n <= Deepest =>
                   \E f : f = [e \in RandomExpressions[n] |-> Body(f, e)]}
<1>1. 0 \in S
  <2> DEFINE f == [e \in RandomExpressions[0] |-> Body(<<>>, e)]
  <2>1. \A e \in RandomExpressions[0] : Body(f, e) = Body(<<>>, e)
    BY Arguments DEF OfArg
  <2>2. f = [e \in RandomExpressions[0] |-> Body(f, e)]
    <3> HIDE DEF Body
    <3> QED BY <2>1
  <2> QED BY <2>2
<1>2. ASSUME NEW n \in Nat, n \in S PROVE n + 1 \in S
  <2> SUFFICES ASSUME n + 1 <= Deepest
               PROVE  \E g : g = [e \in RandomExpressions[n + 1] |-> Body(g, e)]
    OBVIOUS
  <2>1. PICK f : f = [e \in RandomExpressions[n] |-> Body(f, e)]
    BY <1>2, DslAssumption
  <2> DEFINE g == [e \in RandomExpressions[n + 1] |-> Body(f, e)]
  <2>2. \A e \in RandomExpressions[n] : g[e] = f[e]
    <3> HIDE DEF Body
    <3>1. RandomExpressions[n] \subseteq RandomExpressions[n + 1]
      BY Arguments
    <3> QED BY <2>1, <3>1
  <2>3. \A e \in RandomExpressions[n + 1] : Body(g, e) = Body(f, e)
    <3> HIDE DEF g
    <3>1. \A e \in RandomExpressions[n + 1] : \A k \in DOMAIN e.args : e.args[k] \in RandomExpressions[n]
      BY Arguments
    <3>2. \A e \in RandomExpressions[n + 1] : /\ OfArg(g, e, 1, NaN) = OfArg(f, e, 1, NaN)
                                              /\ OfArg(g, e, 2, NaN) = OfArg(f, e, 2, NaN)
      BY <2>2, <3>1 DEF OfArg
    <3> QED BY <3>2
  <2>4. g = [e \in RandomExpressions[n + 1] |-> Body(g, e)]
    <3> HIDE DEF Body
    <3> QED BY <2>3
  <2> HIDE DEF Body, g
  <2> QED BY <2>4
<1>3. Deepest \in S /\ Deepest \in Nat
  <2> HIDE DEF S
  <2> QED BY <1>1, <1>2, Induction, DslAssumption
<1>4. \E f : f = [e \in Trees |-> Body(f, e)]
  BY <1>3 DEF Trees
<1> DEFINE value == Evaluate(bars)
<1>5. value = CHOOSE f : f = [e \in Trees |-> Body(f, e)]
  BY Zenon DEF Evaluate
<1> HIDE DEF Body, value
<1>6. value = [e \in Trees |-> Body(value, e)]
  BY <1>4, <1>5, Zenon
<1>7. \A e \in Trees : value[e] = Body(value, e)
  BY <1>6, Zenon
<1> QED BY <1>7 DEF Body, value

\* The bars up to a day.
Upto(bars, day) == {b \in bars : b.date <= day}

\* What a panel says of a day is said again by a panel that ends on or behind it, and a ticker
\* that has no bar yet has no value.
Agree(all, past, bars, day) ==
    /\ \A t \in TickersOf(Upto(bars, day)), d \in Dates(Upto(bars, day)) : past[t][d] = all[t][d]
    /\ \A t \in TickersOf(bars) \ TickersOf(Upto(bars, day)), d \in Dates(Upto(bars, day)) :
          all[t][d] = NaN

\* The dates and tickers of the bars up to a day.
LEMMA UptoFacts ==
  ASSUME NEW bars, \A b \in bars : b.date \in Int, NEW day \in Int
  PROVE  /\ Dates(bars) \subseteq Int
         /\ Dates(Upto(bars, day)) = {d \in Dates(bars) : d <= day}
         /\ TickersOf(Upto(bars, day)) \subseteq TickersOf(bars)
BY DEF Dates, TickersOf, Upto

\* The days before a day, a number of days back and in the window that ends there are the same
\* in both panels.
LEMMA DaysAgree ==
  ASSUME NEW bars, \A b \in bars : b.date \in Int, NEW day \in Int,
         NEW d \in Dates(Upto(bars, day)), NEW w \in Nat \ {0}
  PROVE  /\ DaysBack(w, d, Dates(bars)) = DaysBack(w, d, Dates(Upto(bars, day)))
         /\ Window(w, d, Dates(bars)) = Window(w, d, Dates(Upto(bars, day)))
         /\ DaysBack(w, d, Dates(Upto(bars, day))) \subseteq Dates(Upto(bars, day))
         /\ Window(w, d, Dates(Upto(bars, day))) \subseteq Dates(Upto(bars, day))
         /\ d \in Window(w, d, Dates(Upto(bars, day)))
<1> DEFINE D == Dates(bars)
           P == Dates(Upto(bars, day))
<1>1. D \subseteq Int /\ P = {x \in D : x <= day} /\ d \in P
  BY UptoFacts
<1> HIDE DEF D, P
<1>2. ASSUME NEW x \in D PROVE Since(x, d, D) = Since(x, d, P)
  <2>1. \A y \in D : y <= d => y \in P
    BY <1>1
  <2>2. \A y : y \in Since(x, d, D) <=> y \in Since(x, d, P)
    BY <1>1, <2>1 DEF Since
  <2> QED BY <2>2
<1>3. ASSUME NEW x \in D, x >= d PROVE Since(x, d, D) = {}
  <2>1. \A y \in D : ~(x < y /\ y <= d)
    BY <1>1, <1>3
  <2> QED BY <2>1 DEF Since
<1>4. Cardinality({}) = 0
  BY FS_EmptySet
<1>5. \A x \in D : Cardinality(Since(x, d, D)) = w => x \in P
  BY <1>1, <1>3, <1>4
<1>6. DaysBack(w, d, D) = DaysBack(w, d, P) /\ DaysBack(w, d, P) \subseteq P
  <2>1. \A y : y \in DaysBack(w, d, D) <=> y \in DaysBack(w, d, P)
    BY <1>1, <1>2, <1>5 DEF DaysBack
  <2> QED BY <2>1 DEF DaysBack
<1>7. Window(w, d, D) = Window(w, d, P) /\ Window(w, d, P) \subseteq P
  <2>1. \A y \in D : y <= d => y \in P
    BY <1>1
  <2>2. \A y : y \in Window(w, d, D) <=> y \in Window(w, d, P)
    BY <1>1, <1>2, <2>1 DEF Window
  <2> QED BY <2>2 DEF Window
<1>8. d \in Window(w, d, P)
  BY <1>1, <1>2, <1>3, <1>4 DEF Window
<1> QED BY <1>6, <1>7, <1>8 DEF D, P

\* So a rolling statistic agrees if its series do, and has no value where they have none.
LEMMA RollAgrees ==
  ASSUME NEW bars, \A b \in bars : b.date \in Int, NEW day \in Int,
         NEW d \in Dates(Upto(bars, day)), NEW w \in Nat \ {0}, NEW op, NEW s
  PROVE  /\ \A r : (\A x \in Dates(Upto(bars, day)) : r[x] = s[x])
               => Roll(op, w, r, d, Dates(Upto(bars, day))) = Roll(op, w, s, d, Dates(bars))
         /\ (\A x \in Dates(Upto(bars, day)) : s[x] = NaN) => Roll(op, w, s, d, Dates(bars)) = NaN
<1> DEFINE D == Dates(bars)
           P == Dates(Upto(bars, day))
           back == DaysBack(w, d, P)
           window == Window(w, d, P)
<1>1. /\ DaysBack(w, d, D) = back /\ Window(w, d, D) = window
      /\ back \subseteq P /\ window \subseteq P /\ d \in window /\ d \in P
  BY DaysAgree
<1> HIDE DEF D, P, back, window
<1>2. ASSUME NEW r, \A x \in P : r[x] = s[x]
      PROVE  Roll(op, w, r, d, P) = Roll(op, w, s, d, D)
  <2>1. {r[x] : x \in back} = {s[x] : x \in back} /\ {r[x] : x \in window} = {s[x] : x \in window}
    BY <1>1, <1>2
  <2>2. r[d] = s[d] /\ ((\E x \in window : r[x] = NaN) <=> (\E x \in window : s[x] = NaN))
    BY <1>1, <1>2
  <2> QED BY <1>1, <2>1, <2>2 DEF Roll, back, window
<1>3. ASSUME \A x \in P : s[x] = NaN
      PROVE  Roll(op, w, s, d, D) = NaN
  <2>1. UNION {s[x] : x \in back} = NaN
    BY <1>1, <1>3 DEF NaN
  <2>2. s[d] = NaN /\ \E x \in window : s[x] = NaN
    BY <1>1, <1>3
  <2> QED BY <1>1, <2>1, <2>2 DEF Roll, Both
<1> QED BY <1>2, <1>3 DEF P, D

\* So does a ranking.
LEMMA RankingAgrees ==
  ASSUME NEW bars, NEW day, NEW all, NEW past, Agree(all, past, bars, day),
         DOMAIN all = TickersOf(bars), DOMAIN past = TickersOf(Upto(bars, day)),
         TickersOf(Upto(bars, day)) \subseteq TickersOf(bars),
         NEW d \in Dates(Upto(bars, day))
  PROVE  /\ \A t \in TickersOf(Upto(bars, day)) : CrossSectional(past, t, d) = CrossSectional(all, t, d)
         /\ \A t \in TickersOf(bars) \ TickersOf(Upto(bars, day)) : CrossSectional(all, t, d) = NaN
<1> DEFINE T == TickersOf(bars)
           P == TickersOf(Upto(bars, day))
           row == {u \in P : past[u][d] # NaN}
<1>1. /\ P \subseteq T /\ DOMAIN all = T /\ DOMAIN past = P
      /\ \A t \in P : past[t][d] = all[t][d]
      /\ \A t \in T \ P : all[t][d] = NaN
  BY DEF Agree
<1> HIDE DEF T, P
<1>2. {u \in DOMAIN past : past[u][d] # NaN} = row
  BY <1>1
<1>3. {u \in DOMAIN all : all[u][d] # NaN} = row
  <2>1. \A u : u \in {v \in T : all[v][d] # NaN} <=> u \in row
    BY <1>1
  <2>2. {v \in T : all[v][d] # NaN} = row
    BY <2>1
  <2> QED BY <1>1, <2>2
<1>4. {past[u][d] : u \in row} = {all[u][d] : u \in row}
  BY <1>1
<1>5. \A t \in T \ P : t \notin row
  OBVIOUS
<1> HIDE DEF row
<1> QED BY <1>2, <1>3, <1>4, <1>5 DEF CrossSectional, T, P

\* The value of a tree is that of its cells.
LEMMA EvaluateCells ==
  ASSUME NEW bars, NEW e \in Trees
  PROVE  /\ DOMAIN Evaluate(bars)[e] = TickersOf(bars)
         /\ \A t \in TickersOf(bars), d \in Dates(bars) :
               Evaluate(bars)[e][t][d] =
                 Cell(e, bars, OfArg(Evaluate(bars), e, 1, NaN), OfArg(Evaluate(bars), e, 2, NaN), t, d)
<1> DEFINE v == Evaluate(bars)[e]
           cell(t, d) == Cell(e, bars, OfArg(Evaluate(bars), e, 1, NaN),
                              OfArg(Evaluate(bars), e, 2, NaN), t, d)
<1>1. v = [t \in TickersOf(bars) |-> [d \in Dates(bars) |-> cell(t, d)]]
  BY EvaluateRecursion
<1> HIDE DEF v, cell
<1>2. DOMAIN v = TickersOf(bars) /\ \A t \in TickersOf(bars), d \in Dates(bars) : v[t][d] = cell(t, d)
  BY <1>1
<1> QED BY <1>2 DEF v, cell

\* A tree whose cells agree agrees.
LEMMA CellsAgree ==
  ASSUME NEW bars, NEW day, NEW e \in Trees,
         TickersOf(Upto(bars, day)) \subseteq TickersOf(bars),
         Dates(Upto(bars, day)) \subseteq Dates(bars),
         NEW x, NEW y, NEW px, NEW py,
         x = OfArg(Evaluate(bars), e, 1, NaN), y = OfArg(Evaluate(bars), e, 2, NaN),
         px = OfArg(Evaluate(Upto(bars, day)), e, 1, NaN),
         py = OfArg(Evaluate(Upto(bars, day)), e, 2, NaN),
         \A t \in TickersOf(Upto(bars, day)), d \in Dates(Upto(bars, day)) :
            Cell(e, Upto(bars, day), px, py, t, d) = Cell(e, bars, x, y, t, d),
         \A t \in TickersOf(bars) \ TickersOf(Upto(bars, day)), d \in Dates(Upto(bars, day)) :
            Cell(e, bars, x, y, t, d) = NaN
  PROVE  Agree(Evaluate(bars)[e], Evaluate(Upto(bars, day))[e], bars, day)
<1>1. \A t \in TickersOf(bars), d \in Dates(bars) : Evaluate(bars)[e][t][d] = Cell(e, bars, x, y, t, d)
  BY EvaluateCells
<1>2. \A t \in TickersOf(Upto(bars, day)), d \in Dates(Upto(bars, day)) :
         Evaluate(Upto(bars, day))[e][t][d] = Cell(e, Upto(bars, day), px, py, t, d)
  BY EvaluateCells
<1> QED BY <1>1, <1>2 DEF Agree

\* The columns of the panel agree.
LEMMA PanelAgrees ==
  ASSUME NEW bars, \A b \in bars : b.date \in Int, NEW day \in Int
  PROVE  Agree(Panel(bars), Panel(Upto(bars, day)), bars, day)
<1> DEFINE past == Upto(bars, day)
<1>1. Dates(past) = {d \in Dates(bars) : d <= day} /\ TickersOf(past) \subseteq TickersOf(bars)
  BY UptoFacts
<1> DEFINE was(t, d) == {b \in past : b.ticker = t /\ b.date = d}
           is(t, d) == {b \in bars : b.ticker = t /\ b.date = d}
<1>2. \A t \in TickersOf(past), d \in Dates(past) : Panel(past)[t][d] = was(t, d)
  BY DEF Panel
<1>3. \A t \in TickersOf(bars), d \in Dates(past) : Panel(bars)[t][d] = is(t, d)
  BY <1>1 DEF Panel
<1>4. ASSUME NEW t, NEW d \in Dates(past) PROVE was(t, d) = is(t, d)
  <2>1. d <= day
    BY <1>1
  <2> QED BY <2>1 DEF Upto
<1>5. ASSUME NEW t, t \notin TickersOf(past), NEW d \in Dates(past)
      PROVE  was(t, d) = NaN
  BY <1>5 DEF TickersOf, NaN
<1> HIDE DEF past, was, is
<1>6. \A t \in TickersOf(past), d \in Dates(past) : Panel(past)[t][d] = Panel(bars)[t][d]
  BY <1>1, <1>2, <1>3, <1>4
<1>7. \A t \in TickersOf(bars) \ TickersOf(past), d \in Dates(past) : Panel(bars)[t][d] = NaN
  BY <1>3, <1>4, <1>5
<1> QED BY <1>6, <1>7 DEF Agree, past

\* Whatever its shape, the values of a tree agree.
LEMMA ValuesAgree ==
  ASSUME NEW bars, \A b \in bars : b.date \in Int, NEW day \in Int
  PROVE  \A e \in Trees : Agree(Evaluate(bars)[e], Evaluate(Upto(bars, day))[e], bars, day)
<1> DEFINE past == Upto(bars, day)
           v == Evaluate(bars)
           p == Evaluate(past)
           T == TickersOf(bars)
           TP == TickersOf(past)
           D == Dates(bars)
           P == Dates(past)
           S == {e \in Trees : Agree(v[e], p[e], bars, day)}
<1>1. P \subseteq D /\ TP \subseteq T
  BY DEF Dates, TickersOf, Upto
<1>2. \A e \in Trees : DOMAIN v[e] = T /\ DOMAIN p[e] = TP
  BY EvaluateCells
<1>3. \A w \in WINDOWS : w \in Nat \ {0} /\ w # NoWindow
  BY DslAssumption DEF NoWindow
<1> HIDE DEF v, p, T, TP, D, P, past
<1>4. ASSUME NEW e \in Trees, NEW x, NEW y, NEW px, NEW py,
             x = OfArg(v, e, 1, NaN), y = OfArg(v, e, 2, NaN),
             px = OfArg(p, e, 1, NaN), py = OfArg(p, e, 2, NaN),
             \A t \in TP, d \in P : Cell(e, past, px, py, t, d) = Cell(e, bars, x, y, t, d),
             \A t \in T \ TP, d \in P : Cell(e, bars, x, y, t, d) = NaN
      PROVE  e \in S
  <2>1. Agree(v[e], p[e], bars, day)
    BY <1>1, <1>4, CellsAgree DEF v, p, T, TP, D, P, past
  <2> QED BY <2>1
<1>5. ASSUME NEW name \in FEATURES PROVE Feature(name) \in S
  <2> DEFINE e == Feature(name)
  <2>1. e \in Trees /\ e.args = <<>> /\ e.op = name
    BY FeatureFacts, Constructors
  <2>2. Agree(Panel(bars), Panel(past), bars, day)
    BY PanelAgrees DEF past
  <2>3. 1 \in Nat \ {0}
    OBVIOUS
  <2>4. /\ \A t \in TP, d \in P : Panel(past)[t][d] = Panel(bars)[t][d]
        /\ \A t \in T \ TP, d \in P : Panel(bars)[t][d] = NaN
    BY <2>2 DEF Agree, T, TP, P, past
  <2>5. /\ \A t \in TP, d \in P : Roll("delta", 1, Panel(past)[t], d, P) = Roll("delta", 1, Panel(bars)[t], d, D)
        /\ \A t \in T \ TP, d \in P : Roll("delta", 1, Panel(bars)[t], d, D) = NaN
    <3>1. ASSUME NEW t \in TP, NEW d \in P
          PROVE  Roll("delta", 1, Panel(past)[t], d, P) = Roll("delta", 1, Panel(bars)[t], d, D)
      <4>1. \A x \in P : Panel(past)[t][x] = Panel(bars)[t][x]
        BY <2>4
      <4> QED BY <2>3, <4>1, RollAgrees DEF D, P, past
    <3>2. ASSUME NEW t \in T \ TP, NEW d \in P PROVE Roll("delta", 1, Panel(bars)[t], d, D) = NaN
      <4>1. \A x \in P : Panel(bars)[t][x] = NaN
        BY <2>4
      <4> QED BY <2>3, <4>1, RollAgrees DEF D, P, past
    <3> QED BY <3>1, <3>2
  <2> HIDE DEF e, S
  <2>6. ASSUME NEW x, NEW y, NEW px, NEW py
        PROVE  /\ \A t \in TP, d \in P : Cell(e, past, px, py, t, d) = Cell(e, bars, x, y, t, d)
               /\ \A t \in T \ TP, d \in P : Cell(e, bars, x, y, t, d) = NaN
    BY <2>1, <2>5, <2>4 DEF Cell, D, P
  <2>7. e \in S
    BY <1>4, <2>1, <2>6
  <2> QED BY <2>7 DEF e
<1>6. ASSUME NEW op \in UNARY_OPS, NEW a \in Trees, a \in S, Unary(op, a) \in Trees
      PROVE  Unary(op, a) \in S
  <2> DEFINE e == Unary(op, a)
  <2>1. /\ e \in Trees /\ e.args # <<>> /\ e.op = op /\ e.window = NoWindow /\ 2 \notin DOMAIN e.args
    BY <1>6 DEF Unary
  <2>2. /\ OfArg(v, e, 1, NaN) = v[a] /\ OfArg(v, e, 2, NaN) = NaN
        /\ OfArg(p, e, 1, NaN) = p[a] /\ OfArg(p, e, 2, NaN) = NaN
    BY OfArguments
  <2>3. Agree(v[a], p[a], bars, day) /\ DOMAIN v[a] = T /\ DOMAIN p[a] = TP
    BY <1>2, <1>6
  <2>4. /\ \A t \in TP, d \in P : p[a][t][d] = v[a][t][d]
        /\ \A t \in T \ TP, d \in P : v[a][t][d] = NaN
    BY <2>3 DEF Agree, T, TP, P, past
  <2>5. /\ \A t \in TP, d \in P : CrossSectional(p[a], t, d) = CrossSectional(v[a], t, d)
        /\ \A t \in T \ TP, d \in P : CrossSectional(v[a], t, d) = NaN
    BY <1>1, <2>3, RankingAgrees DEF T, TP, P, past
  <2> HIDE DEF e, S
  <2>6. /\ \A t \in TP, d \in P : Cell(e, past, p[a], NaN, t, d) = Cell(e, bars, v[a], NaN, t, d)
        /\ \A t \in T \ TP, d \in P : Cell(e, bars, v[a], NaN, t, d) = NaN
    BY <2>1, <2>4, <2>5 DEF Cell
  <2>7. e \in S
    BY <1>4, <2>1, <2>2, <2>6
  <2> QED BY <2>7 DEF e
<1>7. ASSUME NEW op \in TS_OPS, NEW a \in Trees, NEW w \in WINDOWS, a \in S,
             TimeSeries(op, a, w) \in Trees
      PROVE  TimeSeries(op, a, w) \in S
  <2> DEFINE e == TimeSeries(op, a, w)
  <2>1. e \in Trees /\ e.args # <<>> /\ e.op = op /\ e.window = w /\ w # NoWindow /\ w \in Nat \ {0}
    BY <1>3, <1>7 DEF TimeSeries
  <2>2. /\ OfArg(v, e, 1, NaN) = v[a] /\ OfArg(v, e, 2, NaN) = NaN
        /\ OfArg(p, e, 1, NaN) = p[a] /\ OfArg(p, e, 2, NaN) = NaN
    BY OfArguments
  <2>3. Agree(v[a], p[a], bars, day)
    BY <1>7
  <2>4. ASSUME NEW t \in TP, NEW d \in P
        PROVE  Roll(op, w, p[a][t], d, P) = Roll(op, w, v[a][t], d, D)
    <3>1. \A x \in P : p[a][t][x] = v[a][t][x]
      BY <2>3 DEF Agree, TP, P, past
    <3> QED BY <1>3, <3>1, RollAgrees DEF D, P, past
  <2>5. ASSUME NEW t \in T \ TP, NEW d \in P PROVE Roll(op, w, v[a][t], d, D) = NaN
    <3>1. \A x \in P : v[a][t][x] = NaN
      BY <2>3 DEF Agree, T, TP, P, past
    <3> QED BY <1>3, <3>1, RollAgrees DEF D, P, past
  <2> HIDE DEF e, S
  <2>6. /\ \A t \in TP, d \in P : Cell(e, past, p[a], NaN, t, d) = Cell(e, bars, v[a], NaN, t, d)
        /\ \A t \in T \ TP, d \in P : Cell(e, bars, v[a], NaN, t, d) = NaN
    BY <2>1, <2>4, <2>5 DEF Cell, D, P
  <2>7. e \in S
    BY <1>4, <2>1, <2>2, <2>6
  <2> QED BY <2>7 DEF e
<1>8. ASSUME NEW op \in BINARY_OPS, NEW a \in Trees, NEW b \in Trees, a \in S, b \in S,
             Binary(op, a, b) \in Trees
      PROVE  Binary(op, a, b) \in S
  <2> DEFINE e == Binary(op, a, b)
  <2>1. /\ e \in Trees /\ e.args # <<>> /\ e.window = NoWindow /\ 2 \in DOMAIN e.args
    BY <1>8 DEF Binary
  <2>2. /\ OfArg(v, e, 1, NaN) = v[a] /\ OfArg(v, e, 2, NaN) = v[b]
        /\ OfArg(p, e, 1, NaN) = p[a] /\ OfArg(p, e, 2, NaN) = p[b]
    BY DEF OfArg, Binary
  <2>3. Agree(v[a], p[a], bars, day) /\ Agree(v[b], p[b], bars, day)
    BY <1>8
  <2>4. /\ \A t \in TP, d \in P : p[a][t][d] = v[a][t][d] /\ p[b][t][d] = v[b][t][d]
        /\ \A t \in T \ TP, d \in P : v[a][t][d] = NaN
    BY <2>3 DEF Agree, T, TP, P, past
  <2> HIDE DEF e, S
  <2>6. /\ \A t \in TP, d \in P : Cell(e, past, p[a], p[b], t, d) = Cell(e, bars, v[a], v[b], t, d)
        /\ \A t \in T \ TP, d \in P : Cell(e, bars, v[a], v[b], t, d) = NaN
    BY <2>1, <2>4 DEF Cell, Both
  <2>7. e \in S
    BY <1>4, <2>1, <2>2, <2>6
  <2> QED BY <2>7 DEF e
<1> HIDE DEF S
<1>9. Trees \subseteq S
  BY <1>5, <1>6, <1>7, <1>8, TreeInduction
<1> QED BY <1>9 DEF S, v, p, past

\* An expression says the same of a day with and without the bars behind it (factor_dsl.py
\* evaluate, to_scores): who has a value on the day, and from which bars, is the same in both
\* panels.
THEOREM NoTreeLooksAhead ==
  ASSUME NEW e \in Trees, NEW bars, \A b \in bars : b.date \in Int, NEW day \in Int
  PROVE  ToScores(e, Upto(bars, day)) = {s \in ToScores(e, bars) : s.date <= day}
<1> DEFINE past == Upto(bars, day)
           v == Evaluate(bars)[e]
           p == Evaluate(past)[e]
           T == TickersOf(bars)
           TP == TickersOf(past)
           D == Dates(bars)
           P == Dates(past)
           score(t, d) == [ticker |-> t, date |-> d, from |-> v[t][d]]
           was(t, d) == [ticker |-> t, date |-> d, from |-> p[t][d]]
           row(d) == {t \in T : v[t][d] # NaN}
           rowed(d) == {t \in TP : p[t][d] # NaN}
<1>1. P = {d \in D : d <= day} /\ TP \subseteq T
  BY UptoFacts
<1>2. /\ \A t \in TP : \A d \in P : p[t][d] = v[t][d]
      /\ \A t \in T \ TP : \A d \in P : v[t][d] = NaN
  BY ValuesAgree DEF Agree
<1>3. ToScores(e, bars) =
        {s \in {score(t, d) : t \in T, d \in D} : s.from # NaN /\ Cardinality(row(s.date)) >= 2}
  BY DEF ToScores
<1>4. ToScores(e, past) =
        {s \in {was(t, d) : t \in TP, d \in P} : s.from # NaN /\ Cardinality(rowed(s.date)) >= 2}
  BY DEF ToScores
<1> HIDE DEF past, v, p, T, TP, D, P
<1>5. ASSUME NEW d \in P PROVE rowed(d) = row(d)
  BY <1>1, <1>2
<1>6. \A t \in TP, d \in P : was(t, d) = score(t, d)
  BY <1>2
<1>7. \A t, d : score(t, d).date = d /\ score(t, d).from = v[t][d]
  OBVIOUS
<1> HIDE DEF score, was, row, rowed
<1>8. ASSUME NEW s \in ToScores(e, past)
      PROVE  s \in ToScores(e, bars) /\ s.date <= day
  <2>1. PICK t \in TP, d \in P : s = was(t, d)
    BY <1>4
  <2>2. s = score(t, d) /\ s.date = d /\ s.from # NaN /\ Cardinality(row(d)) >= 2
    BY <1>4, <1>5, <1>6, <1>7, <2>1
  <2>3. t \in T /\ d \in D /\ d <= day
    BY <1>1
  <2> QED BY <1>3, <2>2, <2>3
<1>9. ASSUME NEW s \in ToScores(e, bars), s.date <= day
      PROVE  s \in ToScores(e, past)
  <2>1. PICK t \in T, d \in D : s = score(t, d)
    BY <1>3
  <2>2. s.date = d /\ s.from = v[t][d] /\ s.from # NaN /\ Cardinality(row(d)) >= 2
    BY <1>3, <1>7, <2>1
  <2>3. d \in P
    BY <1>1, <1>9, <2>2
  <2>4. t \in TP
    BY <1>2, <2>2, <2>3
  <2>5. s = was(t, d) /\ Cardinality(rowed(d)) >= 2
    BY <1>5, <1>6, <2>1, <2>2, <2>3, <2>4
  <2> QED BY <1>4, <2>2, <2>3, <2>4, <2>5
<1> QED BY <1>8, <1>9 DEF past

\* What may be mined is a tree.
LEMMA AdmittedIsTree == AdmittedExpressions \subseteq Trees
<1>1. MaxNodes \in 0..Deepest
  BY DslAssumption, MiningBounds
<1> QED BY <1>1, Arguments DEF AdmittedExpressions, Expressions

\* No mined factor says another thing of a day when it is given the days after it
\* (ScoresAreCausal), whatever bars are missing: a value is made of observations of its day and
\* of the days before it, and who has one on the day is known on the day.
THEOREM MinedScoresAreCausal == Spec => []ScoresAreCausal
<1>1. Lookahead = {}
  <2> SUFFICES ASSUME NEW e \in AdmittedExpressions, LooksAhead(e) PROVE FALSE
    BY DEF Lookahead
  <2>1. PICK bars \in SUBSET Observations : \E day \in {b.date : b \in bars} :
           ToScores(e, {b \in bars : b.date <= day}) # {s \in ToScores(e, bars) : s.date <= day}
    BY DEF LooksAhead
  <2>2. PICK day \in {b.date : b \in bars} :
           ToScores(e, {b \in bars : b.date <= day}) # {s \in ToScores(e, bars) : s.date <= day}
    BY <2>1
  <2>3. e \in Trees /\ (\A b \in bars : b.date \in Int) /\ day \in Int
    BY AdmittedIsTree, MiningBounds
  <2>4. ToScores(e, Upto(bars, day)) = {s \in ToScores(e, bars) : s.date <= day}
    BY <2>3, NoTreeLooksAhead
  <2> QED BY <2>2, <2>4 DEF Upto
<1>2. Init => ScoresAreCausal
  BY <1>1 DEF ScoresAreCausal
<1>3. ScoresAreCausal /\ [Next]_vars => ScoresAreCausal'
  BY <1>1 DEF ScoresAreCausal
<1> QED BY <1>2, <1>3, PTL DEF Spec

--------------------------------------------------------------------------------
(* Grafts                                                                       *)

\* The arguments of what Replace makes of e.
Rebuilt(args, e, index, new) ==
    /\ Replace(e, index, new) = [op |-> e.op, args |-> args, window |-> e.window]
    /\ args = [k \in DOMAIN e.args |-> args[k]]
    /\ \A k \in DOMAIN e.args : args[k] = Replace(e.args[k], index - Skipped(e, k), new)

\* Replacing is well defined.
LEMMA ReplaceRecursion ==
  ASSUME NEW new, NEW e \in Trees, NEW index \in Int
  PROVE  /\ index = 0 => Replace(e, index, new) = new
         /\ index # 0 => \E args : Rebuilt(args, e, index, new)
<1> DEFINE Body(f, x) == [toGo \in Int |->
               IF toGo = 0 THEN new
               ELSE [x EXCEPT !.args = [k \in DOMAIN x.args |->
                        f[x.args[k]][toGo - Skipped(x, k)]]]]
           S == {n \in Nat : n <= Deepest =>
                   \E f : f = [x \in RandomExpressions[n] |-> Body(f, x)]}
<1>1. 0 \in S
  <2> DEFINE f == [x \in RandomExpressions[0] |-> Body(<<>>, x)]
  <2>1. \A x \in RandomExpressions[0] : Body(f, x) = Body(<<>>, x)
    <3> HIDE DEF f
    <3> SUFFICES ASSUME NEW x \in RandomExpressions[0] PROVE Body(f, x) = Body(<<>>, x)
      OBVIOUS
    <3>1. DOMAIN x.args = {}
      BY Arguments
    <3>2. \A toGo \in Int : [k \in DOMAIN x.args |-> f[x.args[k]][toGo - Skipped(x, k)]]
                              = [k \in DOMAIN x.args |-> <<>>[x.args[k]][toGo - Skipped(x, k)]]
      BY <3>1
    <3> QED BY <3>2
  <2>2. f = [x \in RandomExpressions[0] |-> Body(f, x)]
    <3> HIDE DEF Body
    <3> QED BY <2>1
  <2> QED BY <2>2
<1>2. ASSUME NEW n \in Nat, n \in S PROVE n + 1 \in S
  <2> SUFFICES ASSUME n + 1 <= Deepest
               PROVE  \E g : g = [x \in RandomExpressions[n + 1] |-> Body(g, x)]
    OBVIOUS
  <2>1. PICK f : f = [x \in RandomExpressions[n] |-> Body(f, x)]
    BY <1>2, DslAssumption
  <2> DEFINE g == [x \in RandomExpressions[n + 1] |-> Body(f, x)]
  <2>2. \A x \in RandomExpressions[n] : g[x] = f[x]
    <3> HIDE DEF Body
    <3>1. RandomExpressions[n] \subseteq RandomExpressions[n + 1]
      BY Arguments
    <3> QED BY <2>1, <3>1
  <2>3. \A x \in RandomExpressions[n + 1] : Body(g, x) = Body(f, x)
    <3> HIDE DEF g
    <3> SUFFICES ASSUME NEW x \in RandomExpressions[n + 1] PROVE Body(g, x) = Body(f, x)
      OBVIOUS
    <3>1. \A k \in DOMAIN x.args : g[x.args[k]] = f[x.args[k]]
      BY <2>2, Arguments
    <3>2. \A toGo \in Int : [k \in DOMAIN x.args |-> g[x.args[k]][toGo - Skipped(x, k)]]
                              = [k \in DOMAIN x.args |-> f[x.args[k]][toGo - Skipped(x, k)]]
      BY <3>1
    <3> QED BY <3>2
  <2>4. g = [x \in RandomExpressions[n + 1] |-> Body(g, x)]
    <3> HIDE DEF Body
    <3> QED BY <2>3
  <2> HIDE DEF Body, g
  <2> QED BY <2>4
<1>3. Deepest \in S /\ Deepest \in Nat
  <2> HIDE DEF S
  <2> QED BY <1>1, <1>2, Induction, DslAssumption
<1>4. \E f : f = [x \in Trees |-> Body(f, x)]
  BY <1>3 DEF Trees
<1> DEFINE rebuild == CHOOSE f : f = [x \in Trees |-> Body(f, x)]
<1>5. \A x, i : Replace(x, i, new) = rebuild[x][i]
  BY Zenon DEF Replace
<1> HIDE DEF Body
<1>6. rebuild = [x \in Trees |-> Body(rebuild, x)]
  BY <1>4, Zenon
<1> HIDE DEF rebuild
<1>7. \A x \in Trees : rebuild[x] = Body(rebuild, x)
  BY <1>6, Zenon
<1> DEFINE built == [k \in DOMAIN e.args |-> rebuild[e.args[k]][index - Skipped(e, k)]]
<1>8. rebuild[e][index] = IF index = 0 THEN new ELSE [e EXCEPT !.args = built]
  BY <1>7 DEF Body
<1>9. built = [k \in DOMAIN e.args |-> built[k]]
  OBVIOUS
<1>10. \A k \in DOMAIN e.args : built[k] = Replace(e.args[k], index - Skipped(e, k), new)
  BY <1>5
<1> HIDE DEF built
<1>11. e = [op |-> e.op, args |-> e.args, window |-> e.window]
  BY TreeShapes DEF Feature, Unary, TimeSeries, Binary
<1>12. [e EXCEPT !.args = built] = [op |-> e.op, args |-> built, window |-> e.window]
  BY <1>11
<1>13. Replace(e, index, new) = IF index = 0 THEN new ELSE [op |-> e.op, args |-> built, window |-> e.window]
  BY <1>5, <1>8, <1>12
<1> QED BY <1>9, <1>10, <1>13 DEF Rebuilt

\* What becomes of a feature and of each operator, if the place is none of theirs.
LEMMA ReplaceFeature ==
  ASSUME NEW new, NEW index \in Int, index # 0, NEW name \in FEATURES
  PROVE  Replace(Feature(name), index, new) = Feature(name)
<1> DEFINE e == Feature(name)
<1>1. e \in Trees
  BY FeatureFacts
<1>2. PICK args : Rebuilt(args, e, index, new)
  BY <1>1, ReplaceRecursion
<1>3. args = <<>>
  BY <1>2 DEF Feature, Rebuilt
<1> QED BY <1>2, <1>3 DEF Feature, Rebuilt

LEMMA ReplaceUnary ==
  ASSUME NEW new, NEW index \in Int, index # 0,
         NEW op \in UNARY_OPS, NEW a \in Trees, Unary(op, a) \in Trees
  PROVE  Replace(Unary(op, a), index, new) = Unary(op, Replace(a, index - 1, new))
<1> DEFINE e == Unary(op, a)
           x == Replace(a, index - 1, new)
<1>1. e \in Trees
  OBVIOUS
<1>2. e.op = op /\ e.window = NoWindow /\ DOMAIN e.args = {1} /\ e.args[1] = a /\ Skipped(e, 1) = 1
  BY DEF Unary, Skipped
<1> HIDE DEF e
<1>3. PICK args : Rebuilt(args, e, index, new)
  BY <1>1, ReplaceRecursion
<1>4. args = [k \in {1} |-> args[k]] /\ args[1] = x
  BY <1>2, <1>3 DEF Rebuilt
<1> HIDE DEF x
<1>5. args = <<x>>
  BY <1>4
<1>6. Replace(e, index, new) = Unary(op, x)
  BY <1>2, <1>3, <1>5 DEF Rebuilt, Unary
<1> QED BY <1>6 DEF e, x

LEMMA ReplaceTimeSeries ==
  ASSUME NEW new, NEW index \in Int, index # 0,
         NEW op \in TS_OPS, NEW a \in Trees, NEW w \in WINDOWS, TimeSeries(op, a, w) \in Trees
  PROVE  Replace(TimeSeries(op, a, w), index, new) = TimeSeries(op, Replace(a, index - 1, new), w)
<1> DEFINE e == TimeSeries(op, a, w)
           x == Replace(a, index - 1, new)
<1>1. e \in Trees
  OBVIOUS
<1>2. e.op = op /\ e.window = w /\ DOMAIN e.args = {1} /\ e.args[1] = a /\ Skipped(e, 1) = 1
  BY DEF TimeSeries, Skipped
<1> HIDE DEF e
<1>3. PICK args : Rebuilt(args, e, index, new)
  BY <1>1, ReplaceRecursion
<1>4. args = [k \in {1} |-> args[k]] /\ args[1] = x
  BY <1>2, <1>3 DEF Rebuilt
<1> HIDE DEF x
<1>5. args = <<x>>
  BY <1>4
<1>6. Replace(e, index, new) = TimeSeries(op, x, w)
  BY <1>2, <1>3, <1>5 DEF Rebuilt, TimeSeries
<1> QED BY <1>6 DEF e, x

LEMMA ReplaceBinary ==
  ASSUME NEW new, NEW index \in Int, index # 0,
         NEW op \in BINARY_OPS, NEW a \in Trees, NEW b \in Trees, Binary(op, a, b) \in Trees
  PROVE  Replace(Binary(op, a, b), index, new) =
           Binary(op, Replace(a, index - 1, new), Replace(b, index - (1 + NodeCount[a]), new))
<1> DEFINE e == Binary(op, a, b)
           x == Replace(a, index - 1, new)
           y == Replace(b, index - (1 + NodeCount[a]), new)
<1>1. e \in Trees
  OBVIOUS
<1>2. /\ e.op = op /\ e.window = NoWindow /\ DOMAIN e.args = {1, 2} /\ e.args[1] = a /\ e.args[2] = b
      /\ Skipped(e, 1) = 1 /\ Skipped(e, 2) = 1 + NodeCount[a]
  BY DEF Binary, Skipped
<1> HIDE DEF e
<1>3. PICK args : Rebuilt(args, e, index, new)
  BY <1>1, ReplaceRecursion
<1>4. args = [k \in {1, 2} |-> args[k]] /\ args[1] = x /\ args[2] = y
  BY <1>2, <1>3 DEF Rebuilt
<1> HIDE DEF x, y
<1>5. args = <<x, y>>
  BY <1>4
<1>6. Replace(e, index, new) = Binary(op, x, y)
  BY <1>2, <1>3, <1>5 DEF Rebuilt, Binary
<1> QED BY <1>6 DEF e, x, y

\* Where there is no such place nothing changes.
LEMMA Untouched ==
  ASSUME NEW new
  PROVE  \A e \in Trees : \A index \in Int :
            index < 0 \/ index >= NodeCount[e] => Replace(e, index, new) = e
<1> DEFINE S == {e \in Trees : \A index \in Int :
                    index < 0 \/ index >= NodeCount[e] => Replace(e, index, new) = e}
<1>1. ASSUME NEW name \in FEATURES PROVE Feature(name) \in S
  <2>1. Feature(name) \in Trees /\ NodeCount[Feature(name)] = 1
    BY FeatureFacts
  <2>2. ASSUME NEW index \in Int, index # 0 PROVE Replace(Feature(name), index, new) = Feature(name)
    BY <2>2, ReplaceFeature
  <2> QED BY <2>1, <2>2
<1>2. ASSUME NEW op \in UNARY_OPS, NEW a \in Trees, a \in S, Unary(op, a) \in Trees
      PROVE  Unary(op, a) \in S
  <2>0. Unary(op, a) \in Trees
    BY <1>2
  <2>1. NodeCount[Unary(op, a)] = 1 + NodeCount[a] + 0 /\ NodeCount[a] \in Nat
    BY <2>0, UnaryFacts, NodeCountType
  <2>2. ASSUME NEW index \in Int, index < 0 \/ index >= 1 + NodeCount[a]
        PROVE  Replace(Unary(op, a), index, new) = Unary(op, a)
    <3>1. index # 0 /\ index - 1 \in Int /\ (index - 1 < 0 \/ index - 1 >= NodeCount[a])
      BY <2>1, <2>2
    <3>2. Replace(a, index - 1, new) = a
      BY <1>2, <3>1
    <3> QED BY <2>0, <3>1, <3>2, ReplaceUnary
  <2> QED BY <2>0, <2>1, <2>2
<1>3. ASSUME NEW op \in TS_OPS, NEW a \in Trees, NEW w \in WINDOWS, a \in S,
             TimeSeries(op, a, w) \in Trees
      PROVE  TimeSeries(op, a, w) \in S
  <2>0. TimeSeries(op, a, w) \in Trees
    BY <1>3
  <2>1. NodeCount[TimeSeries(op, a, w)] = 1 + NodeCount[a] + 0 /\ NodeCount[a] \in Nat
    BY <2>0, TimeSeriesFacts, NodeCountType
  <2>2. ASSUME NEW index \in Int, index < 0 \/ index >= 1 + NodeCount[a]
        PROVE  Replace(TimeSeries(op, a, w), index, new) = TimeSeries(op, a, w)
    <3>1. index # 0 /\ index - 1 \in Int /\ (index - 1 < 0 \/ index - 1 >= NodeCount[a])
      BY <2>1, <2>2
    <3>2. Replace(a, index - 1, new) = a
      BY <1>3, <3>1
    <3> QED BY <2>0, <3>1, <3>2, ReplaceTimeSeries
  <2> QED BY <2>0, <2>1, <2>2
<1>4. ASSUME NEW op \in BINARY_OPS, NEW a \in Trees, NEW b \in Trees, a \in S, b \in S,
             Binary(op, a, b) \in Trees
      PROVE  Binary(op, a, b) \in S
  <2>0. Binary(op, a, b) \in Trees
    BY <1>4
  <2>1. /\ NodeCount[Binary(op, a, b)] = 1 + NodeCount[a] + NodeCount[b]
        /\ NodeCount[a] \in Nat /\ NodeCount[b] \in Nat
    BY <2>0, BinaryFacts, NodeCountType
  <2>2. ASSUME NEW index \in Int, index < 0 \/ index >= 1 + NodeCount[a] + NodeCount[b]
        PROVE  Replace(Binary(op, a, b), index, new) = Binary(op, a, b)
    <3> DEFINE j == index - (1 + NodeCount[a])
    <3>1. /\ index # 0 /\ index - 1 \in Int /\ (index - 1 < 0 \/ index - 1 >= NodeCount[a])
          /\ j \in Int /\ (j < 0 \/ j >= NodeCount[b])
      BY <2>1, <2>2
    <3>2. Replace(a, index - 1, new) = a /\ Replace(b, j, new) = b
      <4> HIDE DEF j
      <4> QED BY <1>4, <3>1
    <3> QED BY <2>0, <3>1, <3>2, ReplaceBinary
  <2> QED BY <2>0, <2>1, <2>2
<1> HIDE DEF S
<1>5. Trees \subseteq S
  BY <1>1, <1>2, <1>3, <1>4, TreeInduction
<1> QED BY <1>5 DEF S

\* In preorder a comes p places behind e, and q nodes of e come behind a.
Under(e, a, p, q) ==
    /\ NodeCount[e] = p + NodeCount[a] + q
    /\ \A k \in 1..NodeCount[a] : Collect[e][p + k] = Collect[a][k]

\* g is e with new at a place, and nothing else has changed in size.
Landed(e, index, g, new) ==
    /\ Collect[g][index + 1] = new
    /\ NodeCount[g] - NodeCount[new] = NodeCount[e] - NodeCount[Collect[e][index + 1]]
    /\ index < NodeCount[g]

\* The arguments of an operator in preorder.
LEMMA UnderUnary ==
  ASSUME NEW op, NEW a \in Trees, NEW w,
         NEW e \in Trees, e = Unary(op, a) \/ (w \in WINDOWS /\ e = TimeSeries(op, a, w))
  PROVE  Under(e, a, 1, 0)
<1>1. NodeCount[e] = 1 + NodeCount[a] + 0 /\ Collect[e] = <<e>> \o Collect[a] \o Nothing
  <2>1. CASE e = Unary(op, a)
    <3>1. Unary(op, a) \in Trees
      BY <2>1
    <3> QED BY <2>1, <3>1, UnaryFacts
  <2>2. CASE w \in WINDOWS /\ e = TimeSeries(op, a, w)
    <3>1. TimeSeries(op, a, w) \in Trees
      BY <2>2
    <3> QED BY <2>2, <3>1, TimeSeriesFacts
  <2> QED BY <2>1, <2>2
<1> DEFINE s == Collect[a]
           c == Collect[e]
<1>2. s \in Seq(Trees) /\ Len(s) = NodeCount[a] /\ Nothing \in Seq(Trees) /\ c = <<e>> \o s \o Nothing
  BY <1>1, CollectType, NothingFacts
<1> HIDE DEF s, c
<1>3. \A i \in 1..Len(s) : c[1 + i] = s[i]
  BY <1>2, Headed
<1> QED BY <1>1, <1>2, <1>3 DEF Under, s, c

LEMMA UnderBinary ==
  ASSUME NEW op \in BINARY_OPS, NEW a \in Trees, NEW b \in Trees, Binary(op, a, b) \in Trees
  PROVE  /\ Under(Binary(op, a, b), a, 1, NodeCount[b])
         /\ Under(Binary(op, a, b), b, 1 + NodeCount[a], 0)
<1> DEFINE e == Binary(op, a, b)
           s == Collect[a]
           t == Collect[b]
           c == Collect[e]
<1>0. e \in Trees
  OBVIOUS
<1>1. NodeCount[e] = 1 + NodeCount[a] + NodeCount[b] /\ c = <<e>> \o s \o t
  BY BinaryFacts
<1>2. /\ s \in Seq(Trees) /\ Len(s) = NodeCount[a] /\ NodeCount[a] \in Nat
      /\ t \in Seq(Trees) /\ Len(t) = NodeCount[b] /\ NodeCount[b] \in Nat
  BY CollectType, NodeCountType
<1> HIDE DEF e, s, t, c
<1>3. /\ \A i \in 1..Len(s) : c[1 + i] = s[i]
      /\ \A i \in 1..Len(t) : c[1 + Len(s) + i] = t[i]
  <2>1. e \in Trees /\ s \in Seq(Trees) /\ t \in Seq(Trees) /\ c = <<e>> \o s \o t
    BY <1>0, <1>1, <1>2
  <2> QED BY <2>1, Headed
<1>4. \A i \in 1..NodeCount[a] : c[1 + i] = s[i]
  BY <1>2, <1>3
<1>5. \A i \in 1..NodeCount[b] : c[(1 + NodeCount[a]) + i] = t[i]
  BY <1>2, <1>3
<1>6. Under(e, a, 1, NodeCount[b])
  BY <1>1, <1>4 DEF Under, s, c
<1>7. Under(e, b, 1 + NodeCount[a], 0)
  <2>1. NodeCount[e] = (1 + NodeCount[a]) + NodeCount[b] + 0
    BY <1>1, <1>2
  <2> QED BY <1>5, <2>1 DEF Under, t, c
<1> QED BY <1>6, <1>7 DEF e

\* What lands in an argument lands in the tree.
LEMMA LandsAbove ==
  ASSUME NEW p \in Nat, NEW q \in Nat, NEW new, NEW j, NEW a, NEW g, NEW e, NEW h,
         {a, g, e, h, new} \subseteq Trees, j \in 0..(NodeCount[a] - 1), NodeCount[Collect[a][j + 1]] \in Int,
         Under(e, a, p, q), Under(h, g, p, q), Landed(a, j, g, new)
  PROVE  p + j \in 0..(NodeCount[e] - 1) /\ Landed(e, p + j, h, new)
<1>1. {NodeCount[a], NodeCount[g], NodeCount[new]} \subseteq Nat
  BY NodeCountType
<1>2. j + 1 \in 1..NodeCount[a] /\ j + 1 \in 1..NodeCount[g] /\ p + (j + 1) = (p + j) + 1
  BY <1>1 DEF Landed
<1>3. Collect[e][(p + j) + 1] = Collect[a][j + 1] /\ Collect[h][(p + j) + 1] = Collect[g][j + 1]
  BY <1>2 DEF Under
<1>4. /\ NodeCount[e] = p + NodeCount[a] + q /\ NodeCount[h] = p + NodeCount[g] + q
      /\ j < NodeCount[g] /\ j \in Nat
      /\ NodeCount[g] - NodeCount[new] = NodeCount[a] - NodeCount[Collect[a][j + 1]]
  BY DEF Under, Landed
<1>5. p + j < NodeCount[h] /\ p + j \in 0..(NodeCount[e] - 1)
  BY <1>1, <1>2, <1>4
<1>6. NodeCount[h] - NodeCount[new] = NodeCount[e] - NodeCount[Collect[e][(p + j) + 1]]
  BY <1>1, <1>3, <1>4
<1> QED BY <1>3, <1>5, <1>6 DEF Landed

\* The subtrees of a tree have sizes.
LEMMA PlaceSize ==
  ASSUME NEW e \in Trees, NEW index \in 0..(NodeCount[e] - 1)
  PROVE  NodeCount[Collect[e][index + 1]] \in Nat \ {0}
<1>1. NodeCount[e] \in Nat /\ Collect[e] \in Seq(Trees) /\ Len(Collect[e]) = NodeCount[e]
  BY NodeCountType, CollectType
<1>2. index + 1 \in 1..Len(Collect[e])
  BY <1>1
<1>3. Collect[e][index + 1] \in Trees
  BY <1>1, <1>2, ElementOfSeq
<1> QED BY <1>3, NodeCountType

\* What lands at the root is all there is.
LEMMA LandsAtRoot ==
  ASSUME NEW e \in Trees, NEW new \in Trees
  PROVE  Landed(e, 0, new, new)
<1>1. NodeCount[new] \in Nat \ {0} /\ NodeCount[e] \in Nat \ {0}
  BY NodeCountType
<1>2. Collect[new][0 + 1] = new /\ Collect[e][0 + 1] = e
  BY CollectType
<1> QED BY <1>1, <1>2 DEF Landed

\* A graft lands on the place in preorder it was meant for and makes a tree no higher than the
\* two together (quanta_alpha.py _replace), in any tree.
THEOREM GraftsFit ==
  ASSUME NEW m \in Nat, m <= Deepest, NEW new \in RandomExpressions[m]
  PROVE  \A n \in Nat : n + m <= Deepest =>
            \A e \in RandomExpressions[n] : \A index \in 0..(NodeCount[e] - 1) :
               /\ Replace(e, index, new) \in RandomExpressions[n + m]
               /\ Landed(e, index, Replace(e, index, new), new)
<1> DEFINE Fits(n, e) == \A index \in 0..(NodeCount[e] - 1) :
               /\ Replace(e, index, new) \in RandomExpressions[n + m]
               /\ Landed(e, index, Replace(e, index, new), new)
           S == {n \in Nat : n + m <= Deepest => \A e \in RandomExpressions[n] : Fits(n, e)}
<1> Deepest \in Nat
  BY DslAssumption
<1>0. new \in Trees
  BY Arguments
<1>1. ASSUME NEW n \in Nat, n + m <= Deepest, NEW e \in Trees
      PROVE  Replace(e, 0, new) \in RandomExpressions[n + m] /\ Landed(e, 0, Replace(e, 0, new), new)
  <2>1. m \in 0..Deepest /\ n + m \in 0..Deepest /\ m <= n + m /\ 0 \in Int
    BY <1>1
  <2>2. Replace(e, 0, new) = new
    BY <2>1, ReplaceRecursion
  <2>3. new \in RandomExpressions[n + m]
    BY <2>1, HigherHoldsMore
  <2> QED BY <1>0, <2>2, <2>3, LandsAtRoot
<1>2. ASSUME NEW n \in Nat, n + m <= Deepest, NEW name \in FEATURES
      PROVE  Fits(n, Feature(name))
  <2>1. Feature(name) \in Trees /\ NodeCount[Feature(name)] = 1
    BY FeatureFacts
  <2>2. \A index \in 0..(1 - 1) : index = 0
    OBVIOUS
  <2> QED BY <1>1, <1>2, <2>1, <2>2
<1>3. 0 \in S
  <2> SUFFICES ASSUME 0 + m <= Deepest, NEW e \in RandomExpressions[0] PROVE Fits(0, e)
    OBVIOUS
  <2>1. 0 \in 0..Deepest
    OBVIOUS
  <2>2. e.op \in FEATURES /\ e = Feature(e.op)
    BY <2>1, Shapes
  <2> HIDE DEF Fits
  <2> QED BY <1>2, <2>2
<1>4. ASSUME NEW n \in Nat, n \in S PROVE n + 1 \in S
  <2> SUFFICES ASSUME (n + 1) + m <= Deepest, NEW e \in RandomExpressions[n + 1]
               PROVE  Fits(n + 1, e)
    OBVIOUS
  <2> DEFINE top == (n + 1) + m
  <2>1. /\ n + 1 \in 0..Deepest /\ n \in 0..Deepest /\ (n + 1) - 1 = n /\ n + 1 \in Nat
        /\ top \in 0..Deepest /\ top - 1 = n + m /\ n + m \in 0..Deepest /\ n + m <= Deepest
        /\ (n + 1 > 1 => top > 1)
    OBVIOUS
  <2>2. \A a \in RandomExpressions[n] : Fits(n, a)
    BY <1>4, <2>1
  <2>3. /\ RandomExpressions[n] \subseteq Trees /\ RandomExpressions[n + m] \subseteq Trees
        /\ RandomExpressions[top] \subseteq Trees /\ e \in Trees
    BY <2>1, Arguments
  <2>4. \/ e.op \in FEATURES /\ e = Feature(e.op)
        \/ n + 1 > 1 /\ \E op \in UNARY_OPS, a \in RandomExpressions[n] : e = Unary(op, a)
        \/ n + 1 > 1 /\ \E op \in TS_OPS, a \in RandomExpressions[n], w \in WINDOWS :
                           e = TimeSeries(op, a, w)
        \/ n + 1 > 1 /\ \E op \in BINARY_OPS, a, b \in RandomExpressions[n] : e = Binary(op, a, b)
    BY <2>1, Shapes
  <2>5. n + 1 > 1 =>
          \A a, b \in RandomExpressions[n + m] :
             /\ \A op \in UNARY_OPS : Unary(op, a) \in RandomExpressions[top]
             /\ \A op \in TS_OPS, w \in WINDOWS : TimeSeries(op, a, w) \in RandomExpressions[top]
             /\ \A op \in BINARY_OPS : Binary(op, a, b) \in RandomExpressions[top]
    BY <2>1, Growth
  <2>6. CASE e = Feature(e.op) /\ e.op \in FEATURES
    <3> HIDE DEF Fits
    <3> QED BY <1>2, <2>1, <2>6
  <2> SUFFICES ASSUME n + 1 > 1, NEW index \in 0..(NodeCount[e] - 1), index # 0
               PROVE  /\ Replace(e, index, new) \in RandomExpressions[top]
                      /\ Landed(e, index, Replace(e, index, new), new)
    BY <1>1, <2>1, <2>3, <2>4, <2>6
  <2> NodeCount[e] \in Nat /\ index \in Int
    BY <2>3, NodeCountType
  <2>7. RandomExpressions[n] \subseteq RandomExpressions[n + m]
    BY <2>1, HigherHoldsMore
  <2>8. ASSUME NEW op, NEW w, NEW a \in RandomExpressions[n],
               \/ op \in UNARY_OPS /\ e = Unary(op, a)
               \/ op \in TS_OPS /\ w \in WINDOWS /\ e = TimeSeries(op, a, w)
        PROVE  /\ Replace(e, index, new) \in RandomExpressions[top]
               /\ Landed(e, index, Replace(e, index, new), new)
    <3> DEFINE j == index - 1
               g == Replace(a, j, new)
               h == Replace(e, index, new)
    <3>1. a \in Trees
      BY <2>3
    <3>2. Under(e, a, 1, 0) /\ NodeCount[a] \in Nat
      BY <2>3, <2>8, <3>1, UnderUnary, NodeCountType
    <3>3. j \in 0..(NodeCount[a] - 1) /\ 1 + j = index
      BY <3>2 DEF Under
    <3>4. g \in RandomExpressions[n + m] /\ Landed(a, j, g, new)
      BY <2>2, <3>3
    <3>5. \/ op \in UNARY_OPS /\ h = Unary(op, g)
          \/ op \in TS_OPS /\ w \in WINDOWS /\ h = TimeSeries(op, g, w)
      <4>1. CASE op \in UNARY_OPS /\ e = Unary(op, a)
        <5>1. Unary(op, a) \in Trees
          BY <2>3, <4>1
        <5> QED BY <3>1, <4>1, <5>1, ReplaceUnary
      <4>2. CASE op \in TS_OPS /\ w \in WINDOWS /\ e = TimeSeries(op, a, w)
        <5>1. TimeSeries(op, a, w) \in Trees
          BY <2>3, <4>2
        <5> QED BY <3>1, <4>2, <5>1, ReplaceTimeSeries
      <4> QED BY <2>8, <4>1, <4>2
    <3> HIDE DEF g, h, j
    <3>6. h \in RandomExpressions[top]
      BY <2>5, <3>4, <3>5
    <3>7. h \in Trees /\ g \in Trees
      BY <2>3, <3>4, <3>6
    <3>8. Under(h, g, 1, 0)
      BY <3>5, <3>7, UnderUnary
    <3>9. NodeCount[Collect[a][j + 1]] \in Int
      BY <3>1, <3>3, PlaceSize
    <3>10. Landed(e, 1 + j, h, new)
      <4>1. 1 \in Nat /\ 0 \in Nat /\ {a, g, e, h, new} \subseteq Trees
        BY <1>0, <2>3, <3>1, <3>7
      <4> QED BY <3>2, <3>3, <3>4, <3>8, <3>9, <4>1, LandsAbove
    <3> QED BY <3>3, <3>6, <3>10 DEF h
  <2>9. ASSUME NEW op \in BINARY_OPS, NEW a \in RandomExpressions[n], NEW b \in RandomExpressions[n],
               e = Binary(op, a, b)
        PROVE  /\ Replace(e, index, new) \in RandomExpressions[top]
               /\ Landed(e, index, Replace(e, index, new), new)
    <3>0. a \in Trees /\ b \in Trees /\ Binary(op, a, b) \in Trees
      BY <2>3, <2>9
    <3>1. /\ Under(e, a, 1, NodeCount[b]) /\ Under(e, b, 1 + NodeCount[a], 0)
          /\ NodeCount[a] \in Nat /\ NodeCount[b] \in Nat
      BY <2>9, <3>0, UnderBinary, NodeCountType
    <3>2. NodeCount[e] = 1 + NodeCount[a] + NodeCount[b]
      BY <3>1 DEF Under
    <3> DEFINE i == index - 1
               j == index - (1 + NodeCount[a])
    <3>3. Replace(e, index, new) = Binary(op, Replace(a, i, new), Replace(b, j, new))
      BY <2>9, <3>0, ReplaceBinary
    <3>4. CASE index <= NodeCount[a]
      <4> DEFINE g == Replace(a, i, new)
                 h == Replace(e, index, new)
      <4>1. i \in 0..(NodeCount[a] - 1) /\ 1 + i = index /\ j \in Int /\ j < 0
        BY <3>1, <3>4
      <4>2. Replace(b, j, new) = b
        BY <3>0, <4>1, Untouched
      <4>3. g \in RandomExpressions[n + m] /\ Landed(a, i, g, new)
        BY <2>2, <4>1
      <4>4. h = Binary(op, g, b)
        BY <3>3, <4>2
      <4> HIDE DEF g, h, i, j
      <4>5. h \in RandomExpressions[top]
        BY <2>5, <2>7, <4>3, <4>4
      <4>6. h \in Trees /\ g \in Trees /\ Binary(op, g, b) \in Trees
        BY <2>3, <4>3, <4>4, <4>5
      <4>7. Under(h, g, 1, NodeCount[b])
        BY <3>0, <4>4, <4>6, UnderBinary
      <4>8. NodeCount[Collect[a][i + 1]] \in Int
        BY <3>0, <4>1, PlaceSize
      <4>9. Landed(e, 1 + i, h, new)
        <5>1. 1 \in Nat /\ {a, g, e, h, new} \subseteq Trees
          BY <1>0, <2>3, <3>0, <4>6
        <5> QED BY <3>1, <4>1, <4>3, <4>7, <4>8, <5>1, LandsAbove
      <4> QED BY <4>1, <4>5, <4>9 DEF h
    <3>5. CASE ~(index <= NodeCount[a])
      <4> DEFINE g == Replace(b, j, new)
                 h == Replace(e, index, new)
      <4>1. /\ j \in 0..(NodeCount[b] - 1) /\ (1 + NodeCount[a]) + j = index
            /\ i \in Int /\ i >= NodeCount[a] /\ 1 + NodeCount[a] \in Nat
        BY <3>1, <3>2, <3>5
      <4>2. Replace(a, i, new) = a
        BY <3>0, <4>1, Untouched
      <4>3. g \in RandomExpressions[n + m] /\ Landed(b, j, g, new)
        BY <2>2, <4>1
      <4>4. h = Binary(op, a, g)
        BY <3>3, <4>2
      <4> HIDE DEF g, h, i, j
      <4>5. h \in RandomExpressions[top]
        BY <2>5, <2>7, <4>3, <4>4
      <4>6. h \in Trees /\ g \in Trees /\ Binary(op, a, g) \in Trees
        BY <2>3, <4>3, <4>4, <4>5
      <4>7. Under(h, g, 1 + NodeCount[a], 0)
        BY <3>0, <4>4, <4>6, UnderBinary
      <4>8. NodeCount[Collect[b][j + 1]] \in Int
        BY <3>0, <4>1, PlaceSize
      <4>9. Landed(e, (1 + NodeCount[a]) + j, h, new)
        <5>1. 0 \in Nat /\ {b, g, e, h, new} \subseteq Trees
          BY <1>0, <2>3, <3>0, <4>6
        <5> QED BY <3>1, <4>1, <4>3, <4>7, <4>8, <5>1, LandsAbove
      <4> QED BY <4>1, <4>5, <4>9 DEF h
    <3> QED BY <3>4, <3>5
  <2>10. NodeCount[e] = 1 => index = 0
    OBVIOUS
  <2>11. \/ \E op \in UNARY_OPS, a \in RandomExpressions[n] : e = Unary(op, a)
         \/ \E op \in TS_OPS, a \in RandomExpressions[n], w \in WINDOWS : e = TimeSeries(op, a, w)
         \/ \E op \in BINARY_OPS, a, b \in RandomExpressions[n] : e = Binary(op, a, b)
    BY <2>4, <2>10, FeatureFacts
  <2> QED BY <2>8, <2>9, <2>11
<1> HIDE DEF S, Fits
<1>5. Nat \subseteq S
  BY <1>3, <1>4, Induction
<1> QED BY <1>5 DEF S, Fits

\* A graft on a mined factor lands where the preorder count says and changes nothing else in
\* size (GraftsLand).
THEOREM MinedGraftsLand == Spec => []GraftsLand
<1>1. Misgraft = {}
  <2> SUFFICES ASSUME NEW e \in AdmittedExpressions, NEW index \in 0..(NodeCount[e] - 1),
                      NEW new \in Drawn
               PROVE  /\ Collect[Replace(e, index, new)][index + 1] = new
                      /\ NodeCount[Replace(e, index, new)] - NodeCount[new]
                           = NodeCount[e] - NodeCount[Collect[e][index + 1]]
    BY DEF Misgraft
  <2>1. /\ MaxDepth \in Nat /\ MaxNodes \in Nat /\ MaxDepth <= Deepest /\ MaxNodes + MaxDepth <= Deepest
        /\ new \in RandomExpressions[MaxDepth] /\ e \in RandomExpressions[MaxNodes]
    BY DslAssumption, MiningBounds DEF Drawn, AdmittedExpressions, Expressions
  <2>2. Landed(e, index, Replace(e, index, new), new)
    BY <2>1, GraftsFit
  <2> QED BY <2>2 DEF Landed
<1>2. Init => GraftsLand
  BY <1>1 DEF GraftsLand
<1>3. GraftsLand /\ [Next]_vars => GraftsLand'
  BY <1>1 DEF GraftsLand
<1> QED BY <1>2, <1>3, PTL DEF Spec

--------------------------------------------------------------------------------
(* Reading back                                                                 *)

\* The arguments from a position, given those of the positions behind it.
ArgsFrom(tokens, pos, argsAt) ==
    LET child == ParseTokens(tokens, pos, argsAt)
        rest  == argsAt[IF tokens[pos].text = "digits" THEN pos + 1 ELSE child.pos]
    IN  IF pos > Len(tokens) \/ tokens[pos].text = ")"
        THEN [args |-> <<>>, window |-> NoWindow, pos |-> pos]
        ELSE IF tokens[pos].text = "digits"
        THEN [args |-> rest.args, pos |-> rest.pos,
              window |-> IF rest.window = NoWindow THEN tokens[pos].number ELSE rest.window]
        ELSE IF child = ParseError
        THEN [args |-> <<>>, window |-> NoWindow, pos |-> Len(tokens) + 1]
        ELSE [args |-> <<child.expr>> \o rest.args, window |-> rest.window, pos |-> rest.pos]

\* What parses ends behind its beginning, and only what comes behind the beginning matters.
LEMMA ParsesOnwards ==
  ASSUME NEW tokens, Len(tokens) \in Nat, NEW pos \in Nat, NEW f,
         \A q \in Nat : q > pos => f[q].pos \in Nat /\ f[q].pos >= q
  PROVE  /\ \/ ParseTokens(tokens, pos, f) = ParseError
            \/ /\ ParseTokens(tokens, pos, f).pos \in Nat
               /\ ParseTokens(tokens, pos, f).pos > pos
         /\ \A g : (\A q \in Nat : q > pos => g[q] = f[q])
               => ParseTokens(tokens, pos, g) = ParseTokens(tokens, pos, f)
<1>1. pos + 2 \in Nat /\ pos + 2 > pos
  OBVIOUS
<1>2. f[pos + 2].pos \in Nat /\ f[pos + 2].pos >= pos + 2
  BY <1>1
<1> DEFINE op   == IF pos < Len(tokens) THEN tokens[pos + 1].text ELSE ""
           body == f[pos + 2]
<1>3. ParseTokens(tokens, pos, f) =
        IF pos > Len(tokens) THEN ParseError
        ELSE IF tokens[pos].text # "("
        THEN IF tokens[pos].text \in FEATURES
             THEN [expr |-> Feature(tokens[pos].text), pos |-> pos + 1] ELSE ParseError
        ELSE IF body.pos <= Len(tokens) /\ WellFormed(op, body.args, body.window)
             THEN [expr |-> Form(op, body.args, body.window), pos |-> body.pos + 1]
             ELSE ParseError
  BY DEF ParseTokens
<1> HIDE DEF op, body
<1>4. \/ ParseTokens(tokens, pos, f) = ParseError
      \/ ParseTokens(tokens, pos, f).pos = pos + 1
      \/ ParseTokens(tokens, pos, f).pos = body.pos + 1
  BY <1>3
<1>5. body.pos \in Nat /\ body.pos >= pos + 2
  BY <1>2 DEF body
<1>6. \A g : g[pos + 2] = f[pos + 2] => ParseTokens(tokens, pos, g) = ParseTokens(tokens, pos, f)
  BY DEF ParseTokens
<1> QED BY <1>1, <1>4, <1>5, <1>6

LEMMA ArgsOnwards ==
  ASSUME NEW tokens, Len(tokens) \in Nat, NEW pos \in Nat, pos <= Len(tokens) + 1, NEW f,
         \A q \in Nat : q > pos => f[q].pos \in Nat /\ f[q].pos >= q
  PROVE  /\ ArgsFrom(tokens, pos, f).pos \in Nat /\ ArgsFrom(tokens, pos, f).pos >= pos
         /\ \A g : (\A q \in Nat : q > pos => g[q] = f[q])
               => ArgsFrom(tokens, pos, g) = ArgsFrom(tokens, pos, f)
<1> DEFINE child == ParseTokens(tokens, pos, f)
           next  == IF tokens[pos].text = "digits" THEN pos + 1 ELSE child.pos
           rest  == f[next]
           L == Len(tokens)
<1>1. \/ child = ParseError
      \/ child.pos \in Nat /\ child.pos > pos
  BY ParsesOnwards
<1>2. ArgsFrom(tokens, pos, f) =
        IF pos > L \/ tokens[pos].text = ")"
        THEN [args |-> <<>>, window |-> NoWindow, pos |-> pos]
        ELSE IF tokens[pos].text = "digits"
        THEN [args |-> rest.args, pos |-> rest.pos,
              window |-> IF rest.window = NoWindow THEN tokens[pos].number ELSE rest.window]
        ELSE IF child = ParseError
        THEN [args |-> <<>>, window |-> NoWindow, pos |-> L + 1]
        ELSE [args |-> <<child.expr>> \o rest.args, window |-> rest.window, pos |-> rest.pos]
  BY Zenon DEF ArgsFrom
<1>3. tokens[pos].text = "digits" \/ child # ParseError => next \in Nat /\ next > pos
  <2> HIDE DEF child
  <2> QED BY <1>1
<1> HIDE DEF child, next, rest
<1>4. tokens[pos].text = "digits" \/ child # ParseError => rest.pos \in Nat /\ rest.pos >= pos
  BY <1>3 DEF rest
<1>5. \/ ArgsFrom(tokens, pos, f).pos = pos
      \/ ArgsFrom(tokens, pos, f).pos = L + 1
      \/ ArgsFrom(tokens, pos, f).pos = rest.pos /\ (tokens[pos].text = "digits" \/ child # ParseError)
  BY <1>2
<1>6. ASSUME NEW g, \A q \in Nat : q > pos => g[q] = f[q]
      PROVE  ArgsFrom(tokens, pos, g) = ArgsFrom(tokens, pos, f)
  <2>1. ParseTokens(tokens, pos, g) = child
    BY <1>6, ParsesOnwards DEF child
  <2>2. tokens[pos].text = "digits" \/ child # ParseError => g[next] = rest
    BY <1>3, <1>6 DEF rest
  <2> DEFINE rest2 == g[next]
  <2>3. ArgsFrom(tokens, pos, g) =
          IF pos > L \/ tokens[pos].text = ")"
          THEN [args |-> <<>>, window |-> NoWindow, pos |-> pos]
          ELSE IF tokens[pos].text = "digits"
          THEN [args |-> rest2.args, pos |-> rest2.pos,
                window |-> IF rest2.window = NoWindow THEN tokens[pos].number ELSE rest2.window]
          ELSE IF child = ParseError
          THEN [args |-> <<>>, window |-> NoWindow, pos |-> L + 1]
          ELSE [args |-> <<child.expr>> \o rest2.args, window |-> rest2.window, pos |-> rest2.pos]
    BY <2>1, Zenon DEF ArgsFrom, next
  <2> HIDE DEF rest2
  <2>4. CASE tokens[pos].text = "digits" \/ child # ParseError
    <3>1. rest2 = rest
      BY <2>2, <2>4 DEF rest2
    <3> QED BY <1>2, <2>3, <3>1
  <2>5. CASE ~(tokens[pos].text = "digits" \/ child # ParseError)
    BY <1>2, <2>3, <2>5
  <2> QED BY <2>4, <2>5
<1>7. L + 1 \in Nat /\ L + 1 >= pos
  OBVIOUS
<1> QED BY <1>4, <1>5, <1>6, <1>7

\* Reading arguments is well defined.
LEMMA ArgsAtRecursion ==
  ASSUME NEW tokens, Len(tokens) \in Nat
  PROVE  \A pos \in Nat : ArgsAt(tokens)[pos] = ArgsFrom(tokens, pos, ArgsAt(tokens))
<1> DEFINE L == Len(tokens)
           Solves(f, n) == \A pos \in Nat : pos + n > L =>
               f[pos] = ArgsFrom(tokens, pos, f) /\ f[pos].pos \in Nat /\ f[pos].pos >= pos
           S == {n \in Nat : \E f : f = [pos \in Nat |-> f[pos]] /\ Solves(f, n)}
<1>1. 0 \in S
  <2> DEFINE f == [pos \in Nat |-> [args |-> <<>>, window |-> NoWindow, pos |-> pos]]
  <2>1. \A pos \in Nat : pos + 0 > L =>
           f[pos] = ArgsFrom(tokens, pos, f) /\ f[pos].pos \in Nat /\ f[pos].pos >= pos
    BY DEF ArgsFrom
  <2>2. f = [pos \in Nat |-> f[pos]]
    OBVIOUS
  <2> HIDE DEF f
  <2> QED BY <2>1, <2>2
<1>2. ASSUME NEW n \in Nat, n \in S PROVE n + 1 \in S
  <2>1. PICK f : f = [pos \in Nat |-> f[pos]] /\ Solves(f, n)
    BY <1>2
  <2>2. CASE n > L
    <3>1. Solves(f, n + 1)
      <4>1. \A pos \in Nat : pos + (n + 1) > L => pos + n > L
        BY <2>2
      <4> QED BY <2>1, <4>1
    <3> HIDE DEF Solves
    <3> QED BY <2>1, <3>1
  <2>3. CASE n <= L
    <3> DEFINE p == L - n
               g == [pos \in Nat |-> IF pos = p THEN ArgsFrom(tokens, p, f) ELSE f[pos]]
    <3>1. p \in Nat /\ p <= L + 1 /\ \A q \in Nat : q + n > L <=> q > p
      BY <2>3
    <3> HIDE DEF p
    <3>2. \A q \in Nat : q > p => /\ f[q] = ArgsFrom(tokens, q, f)
                                  /\ f[q].pos \in Nat /\ f[q].pos >= q
      BY <2>1, <3>1
    <3>3. \A q \in Nat : q > p => g[q] = f[q]
      BY <3>1
    <3>4. g[p] = ArgsFrom(tokens, p, f) /\ g = [pos \in Nat |-> g[pos]]
      BY <3>1
    <3> HIDE DEF g, Solves, L
    <3>5. /\ ArgsFrom(tokens, p, f).pos \in Nat /\ ArgsFrom(tokens, p, f).pos >= p
          /\ ArgsFrom(tokens, p, g) = ArgsFrom(tokens, p, f)
      BY <3>1, <3>2, <3>3, ArgsOnwards DEF L
    <3>6. ASSUME NEW q \in Nat, q > p
          PROVE  g[q] = ArgsFrom(tokens, q, g) /\ g[q].pos \in Nat /\ g[q].pos >= q
      <4>1. CASE q <= L + 1
        <5>1. /\ \A r \in Nat : r > q => f[r].pos \in Nat /\ f[r].pos >= r
              /\ \A r \in Nat : r > q => g[r] = f[r]
          BY <3>1, <3>2, <3>3, <3>6
        <5>2. ArgsFrom(tokens, q, g) = ArgsFrom(tokens, q, f)
          BY <4>1, <5>1, ArgsOnwards DEF L
        <5> QED BY <3>2, <3>3, <3>6, <5>2
      <4>2. CASE q > L + 1
        <5>1. ArgsFrom(tokens, q, g) = ArgsFrom(tokens, q, f)
          BY <4>2 DEF ArgsFrom, L
        <5> QED BY <3>2, <3>3, <3>6, <5>1
      <4> QED BY <4>1, <4>2 DEF L
    <3>7. \A q \in Nat : q + (n + 1) > L => q = p \/ q > p
      BY <3>1, <2>3 DEF L, p
    <3>8. Solves(g, n + 1)
      BY <3>4, <3>5, <3>6, <3>7 DEF Solves
    <3> QED BY <3>4, <3>8
  <2> QED BY <2>2, <2>3
<1>3. L + 1 \in S
  <2>1. L + 1 \in Nat
    OBVIOUS
  <2> HIDE DEF S
  <2> QED BY <1>1, <1>2, <2>1, Induction
<1>4. PICK f : f = [pos \in Nat |-> f[pos]] /\ Solves(f, L + 1)
  BY <1>3
<1>5. \A pos \in Nat : f[pos] = ArgsFrom(tokens, pos, f)
  <2>1. \A pos \in Nat : pos + (L + 1) > L
    OBVIOUS
  <2> QED BY <1>4, <2>1
<1>6. \E h : h = [pos \in Nat |-> ArgsFrom(tokens, pos, h)]
  <2>1. f = [pos \in Nat |-> ArgsFrom(tokens, pos, f)]
    BY <1>4, <1>5
  <2> QED BY <2>1
<1> DEFINE a == ArgsAt(tokens)
<1>7. a = CHOOSE h : h = [pos \in Nat |-> ArgsFrom(tokens, pos, h)]
  BY Zenon DEF ArgsAt, ArgsFrom
<1> HIDE DEF a
<1>8. a = [pos \in Nat |-> ArgsFrom(tokens, pos, a)]
  BY <1>6, <1>7, Zenon
<1>9. \A pos \in Nat : a[pos] = ArgsFrom(tokens, pos, a)
  BY <1>8, Zenon
<1> QED BY <1>9 DEF a

\* What the argument reader makes of the closing parenthesis, a window and an expression.
LEMMA ArgsEnd ==
  ASSUME NEW tokens, Len(tokens) \in Nat, NEW pos \in Nat, tokens[pos].text = ")"
  PROVE  ArgsAt(tokens)[pos] = [args |-> Nothing, window |-> NoWindow, pos |-> pos]
<1>1. ArgsAt(tokens)[pos] = ArgsFrom(tokens, pos, ArgsAt(tokens))
  BY ArgsAtRecursion
<1> QED BY <1>1 DEF ArgsFrom, Nothing

LEMMA ArgsWindow ==
  ASSUME NEW tokens, Len(tokens) \in Nat, NEW pos \in Nat, pos <= Len(tokens),
         NEW w, tokens[pos] = Number(w), tokens[pos + 1].text = ")"
  PROVE  ArgsAt(tokens)[pos] = [args |-> Nothing, window |-> w, pos |-> pos + 1]
<1> DEFINE a == ArgsAt(tokens)
<1>1. a[pos] = ArgsFrom(tokens, pos, a)
  BY ArgsAtRecursion
<1>2. a[pos + 1] = [args |-> Nothing, window |-> NoWindow, pos |-> pos + 1]
  BY ArgsEnd
<1>3. tokens[pos].text = "digits" /\ tokens[pos].number = w
  BY DEF Number
<1> HIDE DEF a
<1>4. a[pos] = [args |-> a[pos + 1].args, pos |-> a[pos + 1].pos,
                window |-> IF a[pos + 1].window = NoWindow THEN tokens[pos].number ELSE a[pos + 1].window]
  BY <1>1, <1>3 DEF ArgsFrom
<1> QED BY <1>2, <1>3, <1>4 DEF a

LEMMA ArgsChild ==
  ASSUME NEW tokens, Len(tokens) \in Nat, NEW pos \in Nat, pos <= Len(tokens),
         tokens[pos].text \notin {")", "digits"},
         ParseTokens(tokens, pos, ArgsAt(tokens)).pos # 0
  PROVE  ArgsAt(tokens)[pos] =
           [args |-> <<ParseTokens(tokens, pos, ArgsAt(tokens)).expr>>
                       \o ArgsAt(tokens)[ParseTokens(tokens, pos, ArgsAt(tokens)).pos].args,
            window |-> ArgsAt(tokens)[ParseTokens(tokens, pos, ArgsAt(tokens)).pos].window,
            pos |-> ArgsAt(tokens)[ParseTokens(tokens, pos, ArgsAt(tokens)).pos].pos]
<1> DEFINE a == ArgsAt(tokens)
           child == ParseTokens(tokens, pos, a)
<1>1. a[pos] = ArgsFrom(tokens, pos, a)
  BY ArgsAtRecursion
<1>2. child # ParseError
  BY DEF ParseError
<1> HIDE DEF a
<1>3. a[pos] = [args |-> <<child.expr>> \o a[child.pos].args, window |-> a[child.pos].window,
                pos |-> a[child.pos].pos]
  <2>1. /\ ~(pos > Len(tokens) \/ tokens[pos].text = ")") /\ tokens[pos].text # "digits"
    OBVIOUS
  <2> QED BY <1>1, <1>2, <2>1 DEF ArgsFrom
<1> QED BY <1>3 DEF a

\* And an operator.
LEMMA ParseOperator ==
  ASSUME NEW tokens, Len(tokens) \in Nat, NEW pos \in Nat, pos < Len(tokens), NEW op,
         tokens[pos] = Text("("), tokens[pos + 1] = Text(op),
         NEW args, NEW window, NEW end \in Nat, end <= Len(tokens),
         ArgsAt(tokens)[pos + 2] = [args |-> args, window |-> window, pos |-> end],
         WellFormed(op, args, window)
  PROVE  ParseTokens(tokens, pos, ArgsAt(tokens)) =
           [expr |-> [op |-> op, args |-> args, window |-> window], pos |-> end + 1]
<1> DEFINE body == ArgsAt(tokens)[pos + 2]
<1>1. tokens[pos].text = "(" /\ tokens[pos + 1].text = op /\ ~(pos > Len(tokens))
  BY DEF Text
<1>2. body.args = args /\ body.window = window /\ body.pos = end
  OBVIOUS
<1> HIDE DEF body
<1>3. ParseTokens(tokens, pos, ArgsAt(tokens)) =
        IF body.pos <= Len(tokens) /\ WellFormed(op, body.args, body.window)
        THEN [expr |-> Form(op, body.args, body.window), pos |-> body.pos + 1]
        ELSE ParseError
  BY <1>1 DEF ParseTokens, body
<1> QED BY <1>2, <1>3 DEF Form

\* s stands in tokens behind the first at tokens.
Found(s, tokens, at) ==
    /\ at + Len(s) <= Len(tokens)
    /\ \A k \in 1..Len(s) : tokens[at + k] = s[k]

\* What an operator is serialized to.
Bracketed(x, y, s, t, u, z) == <<x, y>> \o s \o t \o u \o <<z>>

\* c is a list over T, and the pieces stand in it in their order.
Assembled(T, c, x, y, s, t, u, z) ==
    /\ c \in Seq(T) /\ Len(s) \in Nat /\ Len(t) \in Nat /\ Len(u) \in Nat
    /\ Len(c) = 2 + Len(s) + Len(t) + Len(u) + 1
    /\ c[1] = x /\ c[2] = y
    /\ \A k \in 1..Len(s) : c[2 + k] = s[k]
    /\ \A k \in 1..Len(t) : c[2 + Len(s) + k] = t[k]
    /\ \A k \in 1..Len(u) : c[2 + Len(s) + Len(t) + k] = u[k]
    /\ c[Len(c)] = z

LEMMA Pieces ==
  ASSUME NEW T, NEW x \in T, NEW y \in T, NEW z \in T,
         NEW s \in Seq(T), NEW t \in Seq(T), NEW u \in Seq(T)
  PROVE  Assembled(T, Bracketed(x, y, s, t, u, z), x, y, s, t, u, z)
<1> DEFINE c == Bracketed(x, y, s, t, u, z)
           c0 == <<x, y>>
           c1 == c0 \o s
           c2 == c1 \o t
           c3 == c2 \o u
           end == <<z>>
<1>1. c0 \in Seq(T) /\ Len(c0) = 2 /\ c0[1] = x /\ c0[2] = y
      /\ end \in Seq(T) /\ Len(end) = 1 /\ end[1] = z
  OBVIOUS
<1>2. c = c3 \o end
  BY DEF Bracketed
<1> HIDE DEF c, c0, end
<1>3. /\ c1 \in Seq(T) /\ Len(s) \in Nat /\ Len(c1) = Len(c0) + Len(s)
      /\ \A i \in 1..Len(c0) : c1[i] = c0[i]
      /\ \A i \in 1..Len(s) : c1[Len(c0) + i] = s[i]
  <2>1. c0 \in Seq(T)
    BY <1>1
  <2> QED BY <2>1, Joined
<1> HIDE DEF c1
<1>4. /\ c2 \in Seq(T) /\ Len(t) \in Nat /\ Len(c2) = Len(c1) + Len(t)
      /\ \A i \in 1..Len(c1) : c2[i] = c1[i]
      /\ \A i \in 1..Len(t) : c2[Len(c1) + i] = t[i]
  <2>1. c1 \in Seq(T)
    BY <1>3
  <2> QED BY <2>1, Joined
<1> HIDE DEF c2
<1>5. /\ c3 \in Seq(T) /\ Len(u) \in Nat /\ Len(c3) = Len(c2) + Len(u)
      /\ \A i \in 1..Len(c2) : c3[i] = c2[i]
      /\ \A i \in 1..Len(u) : c3[Len(c2) + i] = u[i]
  <2>1. c2 \in Seq(T)
    BY <1>4
  <2> QED BY <2>1, Joined
<1> HIDE DEF c3
<1>6. /\ c \in Seq(T) /\ Len(c) = Len(c3) + Len(end)
      /\ \A i \in 1..Len(c3) : c[i] = c3[i]
      /\ \A i \in 1..Len(end) : c[Len(c3) + i] = end[i]
  <2> DEFINE d == c3 \o end
  <2>1. c3 \in Seq(T) /\ end \in Seq(T)
    BY <1>1, <1>5
  <2>2. /\ d \in Seq(T) /\ Len(d) = Len(c3) + Len(end)
        /\ \A i \in 1..Len(c3) : d[i] = c3[i]
        /\ \A i \in 1..Len(end) : d[Len(c3) + i] = end[i]
    BY <2>1, Joined
  <2> QED BY <1>2, <2>2
<1>7. /\ Len(c1) = 2 + Len(s) /\ Len(c2) = 2 + Len(s) + Len(t) /\ Len(c3) = 2 + Len(s) + Len(t) + Len(u)
      /\ Len(s) \in Nat /\ Len(t) \in Nat /\ Len(u) \in Nat
  BY <1>1, <1>3, <1>4, <1>5
<1>8. \A i \in 1..Len(c2) : c[i] = c2[i]
  BY <1>5, <1>6, <1>7, <1>3, <1>4
<1>9. \A i \in 1..Len(c1) : c[i] = c1[i]
  BY <1>3, <1>4, <1>7, <1>8
<1>10. c[1] = x /\ c[2] = y
  BY <1>1, <1>3, <1>7, <1>9
<1>11. \A k \in 1..Len(s) : c[2 + k] = s[k]
  BY <1>1, <1>3, <1>7, <1>9
<1>12. ASSUME NEW k \in 1..Len(t) PROVE c[2 + Len(s) + k] = t[k]
  <2>1. (2 + Len(s)) + k = Len(c1) + k /\ (2 + Len(s)) + k \in 1..Len(c2)
    BY <1>7
  <2> QED BY <1>4, <1>8, <2>1
<1>13. ASSUME NEW k \in 1..Len(u) PROVE c[2 + Len(s) + Len(t) + k] = u[k]
  <2>1. (2 + Len(s) + Len(t)) + k = Len(c2) + k /\ (2 + Len(s) + Len(t)) + k \in 1..Len(c3)
    BY <1>7
  <2> QED BY <1>5, <1>6, <2>1
<1>14. c[Len(c)] = z /\ Len(c) = 2 + Len(s) + Len(t) + Len(u) + 1
  BY <1>1, <1>3, <1>4, <1>5, <1>6, <1>7
<1> QED BY <1>3, <1>4, <1>5, <1>6, <1>10, <1>11, <1>12, <1>13, <1>14 DEF c, Assembled

\* And so they stand in any list that c stands in.
Placed(tokens, at, c, x, y, s, t, u, z) ==
    /\ Len(s) \in Nat /\ Len(t) \in Nat /\ Len(u) \in Nat
    /\ Len(c) = 2 + Len(s) + Len(t) + Len(u) + 1
    /\ at + Len(c) <= Len(tokens)
    /\ tokens[at + 1] = x /\ tokens[at + 2] = y
    /\ Found(s, tokens, at + 2)
    /\ Found(t, tokens, at + 2 + Len(s))
    /\ Found(u, tokens, at + 2 + Len(s) + Len(t))
    /\ tokens[at + Len(c)] = z

LEMMA FoundPieces ==
  ASSUME NEW T, NEW x \in T, NEW y \in T, NEW z \in T,
         NEW s \in Seq(T), NEW t \in Seq(T), NEW u \in Seq(T),
         NEW tokens, Len(tokens) \in Nat, NEW at \in Nat, Found(Bracketed(x, y, s, t, u, z), tokens, at)
  PROVE  Placed(tokens, at, Bracketed(x, y, s, t, u, z), x, y, s, t, u, z)
<1> DEFINE c == Bracketed(x, y, s, t, u, z)
<1>1. /\ c \in Seq(T) /\ Len(s) \in Nat /\ Len(t) \in Nat /\ Len(u) \in Nat
      /\ Len(c) = 2 + Len(s) + Len(t) + Len(u) + 1
      /\ c[1] = x /\ c[2] = y
      /\ \A k \in 1..Len(s) : c[2 + k] = s[k]
      /\ \A k \in 1..Len(t) : c[2 + Len(s) + k] = t[k]
      /\ \A k \in 1..Len(u) : c[2 + Len(s) + Len(t) + k] = u[k]
      /\ c[Len(c)] = z
  <2>1. Assembled(T, c, x, y, s, t, u, z)
    BY Pieces
  <2> QED BY <2>1, Zenon DEF Assembled
<1>2. at + Len(c) <= Len(tokens) /\ \A k \in 1..Len(c) : tokens[at + k] = c[k]
  BY DEF Found
<1> HIDE DEF c
<1> DEFINE ls == Len(s)
           lt == Len(t)
           lu == Len(u)
           n == Len(c)
<1> HIDE DEF ls, lt, lu, n
<1>3. /\ ls \in Nat /\ lt \in Nat /\ lu \in Nat /\ n = 2 + ls + lt + lu + 1
      /\ at + n <= Len(tokens) /\ \A k \in 1..n : tokens[at + k] = c[k]
  BY <1>1, <1>2 DEF ls, lt, lu, n
<1>4. tokens[at + 1] = x /\ tokens[at + 2] = y /\ tokens[at + n] = z
  <2>1. 1 \in 1..n /\ 2 \in 1..n /\ n \in 1..n
    BY <1>3
  <2> QED BY <1>1, <1>3, <2>1 DEF n
<1>5. \A k \in 1..ls : tokens[(at + 2) + k] = s[k]
  <2> SUFFICES ASSUME NEW k \in 1..ls PROVE tokens[(at + 2) + k] = s[k]
    OBVIOUS
  <2>1. 2 + k \in 1..n /\ (at + 2) + k = at + (2 + k)
    BY <1>3
  <2>2. tokens[at + (2 + k)] = c[2 + k]
    BY <1>3, <2>1
  <2> QED BY <1>1, <2>1, <2>2 DEF ls
<1>6. \A k \in 1..lt : tokens[(at + 2 + ls) + k] = t[k]
  <2> SUFFICES ASSUME NEW k \in 1..lt PROVE tokens[(at + 2 + ls) + k] = t[k]
    OBVIOUS
  <2>1. 2 + ls + k \in 1..n /\ (at + 2 + ls) + k = at + (2 + ls + k)
    BY <1>3
  <2>2. tokens[at + (2 + ls + k)] = c[2 + ls + k]
    BY <1>3, <2>1
  <2> QED BY <1>1, <2>1, <2>2 DEF ls, lt
<1>7. \A k \in 1..lu : tokens[(at + 2 + ls + lt) + k] = u[k]
  <2> SUFFICES ASSUME NEW k \in 1..lu PROVE tokens[(at + 2 + ls + lt) + k] = u[k]
    OBVIOUS
  <2>1. 2 + ls + lt + k \in 1..n /\ (at + 2 + ls + lt) + k = at + (2 + ls + lt + k)
    BY <1>3
  <2>2. tokens[at + (2 + ls + lt + k)] = c[2 + ls + lt + k]
    BY <1>3, <2>1
  <2> QED BY <1>1, <2>1, <2>2 DEF ls, lt, lu
<1>8. (at + 2) + ls <= Len(tokens) /\ (at + 2 + ls) + lt <= Len(tokens) /\ (at + 2 + ls + lt) + lu <= Len(tokens)
  BY <1>3
<1> QED BY <1>1, <1>3, <1>4, <1>5, <1>6, <1>7, <1>8 DEF Found, Placed, ls, lt, lu, n, c

\* The tokens of the interchange format.
Words ==
    {Text(x) : x \in FEATURES \cup UNARY_OPS \cup BINARY_OPS \cup TS_OPS \cup {"(", ")"}}
        \cup {Number(w) : w \in WINDOWS}

\* A list of tokens that begins as an expression does.
Spelled(s) == s \in Seq(Words) /\ Len(s) \in Nat \ {0} /\ s[1].text \in FEATURES \cup {"("}

LEMMA WordFacts ==
  /\ Text("(") \in Words /\ Text(")") \in Words
  /\ \A op \in FEATURES \cup UNARY_OPS \cup BINARY_OPS \cup TS_OPS : Text(op) \in Words
  /\ \A w \in WINDOWS : Number(w) \in Words
BY DEF Words

LEMMA BracketSpelled ==
  ASSUME NEW op \in UNARY_OPS \cup BINARY_OPS \cup TS_OPS,
         NEW s \in Seq(Words), NEW t \in Seq(Words), NEW u \in Seq(Words)
  PROVE  Spelled(Bracketed(Text("("), Text(op), s, t, u, Text(")")))
<1> DEFINE x == Text("(")
           y == Text(op)
           z == Text(")")
           c == Bracketed(x, y, s, t, u, z)
<1>1. x \in Words /\ y \in Words /\ z \in Words /\ x.text = "("
  BY WordFacts DEF Text
<1> HIDE DEF x, y, z
<1>2. Assembled(Words, c, x, y, s, t, u, z)
  BY <1>1, Pieces
<1> HIDE DEF c
<1>3. c \in Seq(Words) /\ Len(s) \in Nat /\ Len(t) \in Nat /\ Len(u) \in Nat
      /\ Len(c) = 2 + Len(s) + Len(t) + Len(u) + 1 /\ c[1] = x
  BY <1>2 DEF Assembled
<1>4. Len(c) \in Nat \ {0}
  BY <1>3
<1> QED BY <1>1, <1>3, <1>4 DEF Spelled, c, x, y, z

\* What the serializer makes of each operator, as pieces in brackets.
LEMMA BracketedForms ==
  /\ \A op, a : Unary(op, a) \in Trees =>
        Tokens[Unary(op, a)] = Bracketed(Text("("), Text(op), Tokens[a], Nothing, Nothing, Text(")"))
  /\ \A op, a : \A w \in WINDOWS : TimeSeries(op, a, w) \in Trees =>
        Tokens[TimeSeries(op, a, w)]
          = Bracketed(Text("("), Text(op), Tokens[a], Nothing, <<Number(w)>>, Text(")"))
  /\ \A op \in BINARY_OPS, a, b \in Trees : Binary(op, a, b) \in Trees =>
        Tokens[Binary(op, a, b)]
          = Bracketed(Text("("), Text(op), Tokens[a], Tokens[b], Nothing, Text(")"))
<1>1. ASSUME NEW op, NEW a, Unary(op, a) \in Trees
      PROVE  Tokens[Unary(op, a)] = Bracketed(Text("("), Text(op), Tokens[a], Nothing, Nothing, Text(")"))
  BY <1>1, UnaryFacts DEF Bracketed
<1>2. ASSUME NEW op, NEW a, NEW w \in WINDOWS, TimeSeries(op, a, w) \in Trees
      PROVE  Tokens[TimeSeries(op, a, w)]
               = Bracketed(Text("("), Text(op), Tokens[a], Nothing, <<Number(w)>>, Text(")"))
  BY <1>2, TimeSeriesFacts DEF Bracketed
<1>3. ASSUME NEW op \in BINARY_OPS, NEW a \in Trees, NEW b \in Trees, Binary(op, a, b) \in Trees
      PROVE  Tokens[Binary(op, a, b)]
               = Bracketed(Text("("), Text(op), Tokens[a], Tokens[b], Nothing, Text(")"))
  BY <1>3, BinaryFacts DEF Bracketed
<1> QED BY <1>1, <1>2, <1>3, Zenon

LEMMA TokensType ==
  ASSUME NEW e \in Trees
  PROVE  Spelled(Tokens[e])
<1> DEFINE S == {t \in Trees : Spelled(Tokens[t])}
<1>0. Nothing \in Seq(Words)
  BY NothingFacts
<1>1. ASSUME NEW name \in FEATURES PROVE Feature(name) \in S
  <2>1. Feature(name) \in Trees /\ Tokens[Feature(name)] = <<Text(name)>> /\ Text(name) \in Words
    BY FeatureFacts, WordFacts
  <2> DEFINE x == Text(name)
             c == <<x>>
  <2>2. x.text = name
    BY DEF Text
  <2>3. x \in Words
    BY <2>1
  <2> HIDE DEF x
  <2>4. c \in Seq(Words) /\ Len(c) = 1 /\ c[1] = x
    BY <2>3
  <2>5. Spelled(c)
    BY <2>2, <2>4 DEF Spelled
  <2> QED BY <2>1, <2>5 DEF x
<1>2. ASSUME NEW op \in UNARY_OPS, NEW a \in Trees, a \in S, Unary(op, a) \in Trees
      PROVE  Unary(op, a) \in S
  <2>1. Tokens[a] \in Seq(Words)
    BY <1>2 DEF Spelled
  <2>2. Tokens[Unary(op, a)] = Bracketed(Text("("), Text(op), Tokens[a], Nothing, Nothing, Text(")"))
    BY <1>2, BracketedForms
  <2>3. Spelled(Bracketed(Text("("), Text(op), Tokens[a], Nothing, Nothing, Text(")")))
    BY <1>0, <2>1, BracketSpelled
  <2> QED BY <1>2, <2>2, <2>3
<1>3. ASSUME NEW op \in TS_OPS, NEW a \in Trees, NEW w \in WINDOWS, a \in S,
             TimeSeries(op, a, w) \in Trees
      PROVE  TimeSeries(op, a, w) \in S
  <2> DEFINE u == <<Number(w)>>
  <2>1. Tokens[a] \in Seq(Words) /\ u \in Seq(Words)
    BY <1>3, WordFacts DEF Spelled
  <2>2. Tokens[TimeSeries(op, a, w)] = Bracketed(Text("("), Text(op), Tokens[a], Nothing, u, Text(")"))
    BY <1>3, BracketedForms
  <2> HIDE DEF u
  <2>3. Spelled(Bracketed(Text("("), Text(op), Tokens[a], Nothing, u, Text(")")))
    BY <1>0, <2>1, BracketSpelled
  <2> QED BY <1>3, <2>2, <2>3
<1>4. ASSUME NEW op \in BINARY_OPS, NEW a \in Trees, NEW b \in Trees, a \in S, b \in S,
             Binary(op, a, b) \in Trees
      PROVE  Binary(op, a, b) \in S
  <2>1. Tokens[a] \in Seq(Words) /\ Tokens[b] \in Seq(Words)
    BY <1>4 DEF Spelled
  <2>2. Tokens[Binary(op, a, b)] = Bracketed(Text("("), Text(op), Tokens[a], Tokens[b], Nothing, Text(")"))
    BY <1>4, BracketedForms
  <2>3. Spelled(Bracketed(Text("("), Text(op), Tokens[a], Tokens[b], Nothing, Text(")")))
    BY <1>0, <2>1, BracketSpelled
  <2> QED BY <1>4, <2>2, <2>3
<1> HIDE DEF S
<1>5. Trees \subseteq S
  BY <1>1, <1>2, <1>3, <1>4, TreeInduction
<1> QED BY <1>5 DEF S

\* Where a feature stands, the parser reads it.
LEMMA FeatureRead ==
  ASSUME NEW tokens, Len(tokens) \in Nat, NEW name \in FEATURES, NEW at \in Nat,
         Found(<<Text(name)>>, tokens, at)
  PROVE  ParseTokens(tokens, at + 1, ArgsAt(tokens)) = [expr |-> Feature(name), pos |-> at + 2]
<1>1. at + 1 <= Len(tokens) /\ tokens[at + 1] = Text(name)
  BY DEF Found
<1>2. tokens[at + 1].text = name /\ name # "("
  BY <1>1, DslAssumption DEF Text
<1> DEFINE p == at + 1
<1>3. ~(p > Len(tokens)) /\ p + 1 = at + 2 /\ tokens[p].text = name
  BY <1>1, <1>2
<1> HIDE DEF p
<1>4. ParseTokens(tokens, p, ArgsAt(tokens)) = [expr |-> Feature(name), pos |-> p + 1]
  BY <1>2, <1>3 DEF ParseTokens
<1> QED BY <1>3, <1>4 DEF p

\* The arguments from pos are args and window, closed by the parenthesis at end.
ArgsRead(tokens, pos, args, window, end) ==
    ArgsAt(tokens)[pos] = [args |-> args, window |-> window, pos |-> end]

\* Wherever the tokens of e stand, the parser reads e and stops behind them.
ReadAs(tokens, e) ==
    \A at \in Nat : Found(Tokens[e], tokens, at) =>
       ParseTokens(tokens, at + 1, ArgsAt(tokens)) = [expr |-> e, pos |-> at + 1 + Len(Tokens[e])]

\* The parenthesis closes the arguments; a window and an argument come before those behind them.
LEMMA EndRead ==
  ASSUME NEW tokens, Len(tokens) \in Nat, NEW pos \in Nat, tokens[pos] = Text(")")
  PROVE  ArgsRead(tokens, pos, Nothing, NoWindow, pos)
BY ArgsEnd DEF ArgsRead, Text

LEMMA WindowRead ==
  ASSUME NEW tokens, Len(tokens) \in Nat, NEW pos \in Nat, pos <= Len(tokens),
         NEW w, tokens[pos] = Number(w), NEW end, end = pos + 1, tokens[end] = Text(")")
  PROVE  ArgsRead(tokens, pos, Nothing, w, end)
<1>1. tokens[pos + 1].text = ")"
  BY DEF Text
<1> QED BY <1>1, ArgsWindow DEF ArgsRead

LEMMA ArgumentRead ==
  ASSUME NEW tokens, Len(tokens) \in Nat, NEW a \in Trees, NEW at \in Nat, Found(Tokens[a], tokens, at),
         ReadAs(tokens, a), NEW args, NEW window, NEW end,
         ArgsRead(tokens, at + 1 + Len(Tokens[a]), args, window, end)
  PROVE  ArgsRead(tokens, at + 1, <<a>> \o args, window, end)
<1> DEFINE n == Len(Tokens[a])
           first == Tokens[a][1]
           pos == at + 1
           next == at + 1 + n
           child == ParseTokens(tokens, pos, ArgsAt(tokens))
<1>1. n \in Nat \ {0} /\ first.text \in FEATURES \cup {"("}
  BY TokensType DEF Spelled
<1>2. at + n <= Len(tokens) /\ \A k \in 1..n : tokens[at + k] = Tokens[a][k]
  BY DEF Found
<1>3. tokens[pos] = first
  BY <1>1, <1>2
<1>4. tokens[pos].text \notin {")", "digits"}
  BY <1>1, <1>3, DslAssumption
<1>5. pos \in Nat /\ pos <= Len(tokens) /\ next \in Nat /\ next >= 1
  <2> HIDE DEF n
  <2>1. n \in Nat /\ n >= 1 /\ at + n <= Len(tokens)
    BY <1>1, <1>2
  <2> QED BY <2>1
<1>6. child = [expr |-> a, pos |-> next]
  BY DEF ReadAs
<1>7. ArgsAt(tokens)[next] = [args |-> args, window |-> window, pos |-> end]
  BY DEF ArgsRead
<1> HIDE DEF pos, next
<1>8. child.expr = a /\ child.pos = next /\ child.pos # 0
  <2> HIDE DEF child
  <2>1. child.expr = a /\ child.pos = next
    BY <1>6
  <2>2. next # 0
    BY <1>5
  <2> QED BY <2>1, <2>2
<1>9. ArgsAt(tokens)[pos] = [args |-> <<child.expr>> \o ArgsAt(tokens)[child.pos].args,
                             window |-> ArgsAt(tokens)[child.pos].window,
                             pos |-> ArgsAt(tokens)[child.pos].pos]
  BY <1>4, <1>5, <1>8, ArgsChild
<1> HIDE DEF child
<1>10. ArgsAt(tokens)[next].args = args /\ ArgsAt(tokens)[next].window = window
       /\ ArgsAt(tokens)[next].pos = end
  BY <1>7
<1>11. ArgsAt(tokens)[pos] = [args |-> <<a>> \o args, window |-> window, pos |-> end]
  BY <1>8, <1>9, <1>10
<1> QED BY <1>11 DEF ArgsRead, pos

\* What stands between the parentheses is read as the operator.
LEMMA OperatorRead ==
  ASSUME NEW tokens, Len(tokens) \in Nat, NEW at \in Nat, NEW op,
         tokens[at + 1] = Text("("), tokens[at + 2] = Text(op),
         NEW pos, pos = at + 3, NEW args, NEW window, NEW end \in Nat, end <= Len(tokens), end >= pos,
         ArgsRead(tokens, pos, args, window, end), WellFormed(op, args, window)
  PROVE  ParseTokens(tokens, at + 1, ArgsAt(tokens)) =
           [expr |-> [op |-> op, args |-> args, window |-> window], pos |-> end + 1]
<1> DEFINE p == at + 1
<1>1. p \in Nat /\ p < Len(tokens) /\ p + 2 = pos /\ tokens[p] = Text("(") /\ tokens[p + 1] = Text(op)
  OBVIOUS
<1> HIDE DEF p
<1>2. ArgsAt(tokens)[p + 2] = [args |-> args, window |-> window, pos |-> end]
  BY <1>1 DEF ArgsRead
<1>3. ParseTokens(tokens, p, ArgsAt(tokens)) =
        [expr |-> [op |-> op, args |-> args, window |-> window], pos |-> end + 1]
  BY <1>1, <1>2, ParseOperator
<1> QED BY <1>3 DEF p

\* Lists of one and of two.
LEMMA Singles ==
  ASSUME NEW T, NEW a \in T, NEW b \in T
  PROVE  <<a>> \o Nothing = <<a>> /\ <<a>> \o <<b>> = <<a, b>>
<1>1. <<a>> \o Nothing = <<a>>
  BY DEF Nothing
<1> DEFINE s == <<a>>
           t == <<b>>
           st == s \o t
<1>2. s \in Seq(T) /\ t \in Seq(T) /\ Len(s) = 1 /\ Len(t) = 1 /\ s[1] = a /\ t[1] = b
  OBVIOUS
<1>3. st = <<a, b>>
  <2> HIDE DEF s, t
  <2>1. st \in Seq(T) /\ Len(st) = 2 /\ st[1] = a /\ st[2] = b
    BY <1>2, Joined
  <2> HIDE DEF st
  <2> QED BY <2>1
<1> QED BY <1>1, <1>3

\* Where the tokens of an operator stand and those of its arguments are read as the arguments,
\* the parser reads the operator: one argument,
LEMMA UnaryRead ==
  ASSUME NEW tokens, Len(tokens) \in Nat, NEW op \in UNARY_OPS, NEW a \in Trees,
         NEW at \in Nat, Found(Bracketed(Text("("), Text(op), Tokens[a], Nothing, Nothing, Text(")")), tokens, at),
         ReadAs(tokens, a)
  PROVE  ParseTokens(tokens, at + 1, ArgsAt(tokens)) =
           [expr |-> Unary(op, a),
            pos |-> at + 1 + Len(Bracketed(Text("("), Text(op), Tokens[a], Nothing, Nothing, Text(")")))]
<1> DEFINE x == Text("(")
           y == Text(op)
           z == Text(")")
           s == Tokens[a]
           c == Bracketed(x, y, s, Nothing, Nothing, z)
           n == Len(c)
           ls == Len(s)
<1>1. Found(c, tokens, at)
  OBVIOUS
<1>2. x \in Words /\ y \in Words /\ z \in Words
  BY WordFacts
<1>3. s \in Seq(Words) /\ Nothing \in Seq(Words) /\ Len(Nothing) = 0
  BY TokensType, NothingFacts DEF Spelled
<1>4. /\ ls \in Nat /\ n = 2 + ls + Len(Nothing) + Len(Nothing) + 1
      /\ at + n <= Len(tokens)
      /\ tokens[at + 1] = x /\ tokens[at + 2] = y /\ Found(s, tokens, at + 2) /\ tokens[at + n] = z
  <2>1. Placed(tokens, at, c, x, y, s, Nothing, Nothing, z)
    <3> HIDE DEF x, y, z, s
    <3> QED BY <1>1, <1>2, <1>3, FoundPieces
  <2> QED BY <2>1 DEF Placed
<1> DEFINE begin == (at + 2) + 1
           end == begin + ls
<1>5. /\ begin = at + 3 /\ end = at + n /\ end + 1 = at + 1 + n
      /\ at + 2 \in Nat /\ end \in Nat /\ end <= Len(tokens) /\ end >= begin
  <2> HIDE DEF n, ls
  <2> QED BY <1>3, <1>4
<1>6. ArgsRead(tokens, end, Nothing, NoWindow, end)
  <2> HIDE DEF end, n
  <2>1. tokens[end] = z
    BY <1>4, <1>5
  <2> QED BY <1>5, <2>1, EndRead
<1>7. ArgsRead(tokens, begin, <<a>> \o Nothing, NoWindow, end)
  <2>1. ArgsRead(tokens, (at + 2) + 1 + Len(Tokens[a]), Nothing, NoWindow, end) /\ Found(Tokens[a], tokens, at + 2)
    BY <1>4, <1>6
  <2> HIDE DEF end
  <2> QED BY <1>5, <2>1, ArgumentRead
<1>8. <<a>> \o Nothing = <<a>>
  BY Singles
<1>9. WellFormed(op, <<a>>, NoWindow)
  BY DEF WellFormed
<1>10. ParseTokens(tokens, at + 1, ArgsAt(tokens))
         = [expr |-> [op |-> op, args |-> <<a>>, window |-> NoWindow], pos |-> end + 1]
  <2>1. tokens[at + 1] = Text("(") /\ tokens[at + 2] = Text(op)
    BY <1>4
  <2> DEFINE args == <<a>>
  <2>2. ArgsRead(tokens, begin, args, NoWindow, end) /\ WellFormed(op, args, NoWindow)
    BY <1>7, <1>8, <1>9
  <2> HIDE DEF begin, end, args
  <2> QED BY <1>5, <2>1, <2>2, OperatorRead DEF args
<1> QED BY <1>5, <1>10 DEF Unary

\* one argument and a window,
LEMMA TimeSeriesRead ==
  ASSUME NEW tokens, Len(tokens) \in Nat, NEW op \in TS_OPS, NEW a \in Trees, NEW w \in WINDOWS,
         NEW at \in Nat, Found(Bracketed(Text("("), Text(op), Tokens[a], Nothing, <<Number(w)>>, Text(")")), tokens, at),
         ReadAs(tokens, a)
  PROVE  ParseTokens(tokens, at + 1, ArgsAt(tokens)) =
           [expr |-> TimeSeries(op, a, w),
            pos |-> at + 1 + Len(Bracketed(Text("("), Text(op), Tokens[a], Nothing, <<Number(w)>>, Text(")")))]
<1> DEFINE x == Text("(")
           y == Text(op)
           z == Text(")")
           s == Tokens[a]
           digits == Number(w)
           u == <<digits>>
           c == Bracketed(x, y, s, Nothing, u, z)
           n == Len(c)
           ls == Len(s)
<1>1. Found(c, tokens, at)
  OBVIOUS
<1>2. x \in Words /\ y \in Words /\ z \in Words /\ digits \in Words
  BY WordFacts
<1>3. s \in Seq(Words) /\ Nothing \in Seq(Words) /\ Len(Nothing) = 0
  BY TokensType, NothingFacts DEF Spelled
<1>4. u \in Seq(Words) /\ Len(u) = 1 /\ u[1] = digits
  <2> HIDE DEF digits
  <2> QED BY <1>2
<1>5. /\ ls \in Nat /\ n = 2 + ls + Len(Nothing) + Len(u) + 1
      /\ at + n <= Len(tokens)
      /\ tokens[at + 1] = x /\ tokens[at + 2] = y /\ Found(s, tokens, at + 2) /\ tokens[at + n] = z
      /\ Found(u, tokens, at + 2 + ls + Len(Nothing))
  <2>1. Placed(tokens, at, c, x, y, s, Nothing, u, z)
    <3> HIDE DEF x, y, z, s, u
    <3> QED BY <1>1, <1>2, <1>3, <1>4, FoundPieces
  <2> QED BY <2>1 DEF Placed
<1> DEFINE begin == (at + 2) + 1
           next == begin + ls
           end == next + 1
           b == at + 2 + ls + Len(Nothing)
<1>6. /\ begin = at + 3 /\ end = at + n /\ end + 1 = at + 1 + n /\ b + 1 = next
      /\ at + 2 \in Nat /\ next \in Nat /\ next <= Len(tokens)
      /\ end \in Nat /\ end <= Len(tokens) /\ end >= begin
  <2> HIDE DEF n, ls, u
  <2>1. ls \in Nat /\ n = ls + 4 /\ Len(Nothing) = 0 /\ at + n <= Len(tokens)
    <3>1. ls \in Nat /\ n = 2 + ls + Len(Nothing) + Len(u) + 1
      BY <1>5
    <3>2. Len(Nothing) = 0 /\ Len(u) = 1 /\ at + n <= Len(tokens)
      BY <1>3, <1>4, <1>5
    <3> QED BY <3>1, <3>2
  <2> QED BY <2>1
<1>7. tokens[next] = digits
  <2>1. 1 \in 1..Len(u) /\ Found(u, tokens, b)
    <3>1. 1 \in 1..Len(u)
      BY <1>4
    <3>2. Found(u, tokens, b)
      BY <1>5
    <3> QED BY <3>1, <3>2
  <2> HIDE DEF u, b, next
  <2>2. tokens[b + 1] = u[1]
    BY <2>1 DEF Found
  <2> QED BY <1>4, <1>6, <2>2
<1>8. ArgsRead(tokens, next, Nothing, w, end)
  <2>1. tokens[end] = Text(")")
    <3> HIDE DEF end, n
    <3> QED BY <1>5, <1>6
  <2>2. tokens[next] = Number(w) /\ end = next + 1
    BY <1>7
  <2> HIDE DEF next, end
  <2> QED BY <1>6, <2>1, <2>2, WindowRead
<1>9. ArgsRead(tokens, begin, <<a>> \o Nothing, w, end)
  <2>1. ArgsRead(tokens, (at + 2) + 1 + Len(Tokens[a]), Nothing, w, end) /\ Found(Tokens[a], tokens, at + 2)
    BY <1>5, <1>8
  <2> HIDE DEF end
  <2> QED BY <1>6, <2>1, ArgumentRead
<1>10. <<a>> \o Nothing = <<a>>
  BY Singles
<1>11. WellFormed(op, <<a>>, w)
  BY DslAssumption DEF WellFormed, NoWindow
<1>12. ParseTokens(tokens, at + 1, ArgsAt(tokens))
         = [expr |-> [op |-> op, args |-> <<a>>, window |-> w], pos |-> end + 1]
  <2>1. tokens[at + 1] = Text("(") /\ tokens[at + 2] = Text(op)
    BY <1>5
  <2> DEFINE args == <<a>>
  <2>2. ArgsRead(tokens, begin, args, w, end) /\ WellFormed(op, args, w)
    BY <1>9, <1>10, <1>11
  <2> HIDE DEF begin, end, args
  <2> QED BY <1>6, <2>1, <2>2, OperatorRead DEF args
<1> QED BY <1>6, <1>12 DEF TimeSeries

\* and two.
LEMMA BinaryRead ==
  ASSUME NEW tokens, Len(tokens) \in Nat, NEW op \in BINARY_OPS, NEW a \in Trees, NEW b \in Trees,
         NEW at \in Nat, Found(Bracketed(Text("("), Text(op), Tokens[a], Tokens[b], Nothing, Text(")")), tokens, at),
         ReadAs(tokens, a), ReadAs(tokens, b)
  PROVE  ParseTokens(tokens, at + 1, ArgsAt(tokens)) =
           [expr |-> Binary(op, a, b),
            pos |-> at + 1 + Len(Bracketed(Text("("), Text(op), Tokens[a], Tokens[b], Nothing, Text(")")))]
<1> DEFINE x == Text("(")
           y == Text(op)
           z == Text(")")
           s == Tokens[a]
           t == Tokens[b]
           c == Bracketed(x, y, s, t, Nothing, z)
           n == Len(c)
           ls == Len(s)
           lt == Len(t)
<1>1. Found(c, tokens, at)
  OBVIOUS
<1>2. x \in Words /\ y \in Words /\ z \in Words
  BY WordFacts
<1>3. s \in Seq(Words) /\ t \in Seq(Words) /\ Nothing \in Seq(Words) /\ Len(Nothing) = 0
  BY TokensType, NothingFacts DEF Spelled
<1>4. /\ ls \in Nat /\ lt \in Nat /\ n = 2 + ls + lt + Len(Nothing) + 1
      /\ at + n <= Len(tokens)
      /\ tokens[at + 1] = x /\ tokens[at + 2] = y /\ Found(s, tokens, at + 2) /\ tokens[at + n] = z
      /\ Found(t, tokens, at + 2 + ls)
  <2>1. Placed(tokens, at, c, x, y, s, t, Nothing, z)
    <3> HIDE DEF x, y, z, s, t
    <3> QED BY <1>1, <1>2, <1>3, FoundPieces
  <2> QED BY <2>1 DEF Placed
<1> DEFINE begin == (at + 2) + 1
           m == at + 2 + ls
           next == m + 1
           end == next + lt
<1>5. /\ begin = at + 3 /\ end = at + n /\ end + 1 = at + 1 + n /\ next = begin + ls
      /\ at + 2 \in Nat /\ m \in Nat /\ end \in Nat /\ end <= Len(tokens) /\ end >= begin
  <2> HIDE DEF n, ls, lt
  <2> QED BY <1>3, <1>4
<1>6. ArgsRead(tokens, end, Nothing, NoWindow, end)
  <2> HIDE DEF end, n
  <2>1. tokens[end] = z
    BY <1>4, <1>5
  <2> QED BY <1>5, <2>1, EndRead
<1>7. ArgsRead(tokens, next, <<b>> \o Nothing, NoWindow, end)
  <2>1. ArgsRead(tokens, m + 1 + Len(Tokens[b]), Nothing, NoWindow, end) /\ Found(Tokens[b], tokens, m)
    BY <1>4, <1>6
  <2> HIDE DEF end, m
  <2> QED BY <1>5, <2>1, ArgumentRead
<1>8. <<b>> \o Nothing = <<b>> /\ <<a>> \o <<b>> = <<a, b>>
  BY Singles
<1>9. ArgsRead(tokens, begin, <<a>> \o <<b>>, NoWindow, end)
  <2> DEFINE args == <<b>>
  <2>1. ArgsRead(tokens, (at + 2) + 1 + Len(Tokens[a]), args, NoWindow, end) /\ Found(Tokens[a], tokens, at + 2)
    <3>1. ArgsRead(tokens, next, args, NoWindow, end)
      BY <1>7, <1>8
    <3>2. next = (at + 2) + 1 + Len(Tokens[a])
      BY <1>5
    <3> HIDE DEF next, end, args
    <3> QED BY <1>4, <3>1, <3>2
  <2> HIDE DEF end, args
  <2>2. ArgsRead(tokens, begin, <<a>> \o args, NoWindow, end)
    BY <1>5, <2>1, ArgumentRead
  <2> QED BY <2>2 DEF args
<1>10. WellFormed(op, <<a, b>>, NoWindow)
  BY DEF WellFormed
<1>11. ParseTokens(tokens, at + 1, ArgsAt(tokens))
         = [expr |-> [op |-> op, args |-> <<a, b>>, window |-> NoWindow], pos |-> end + 1]
  <2>1. tokens[at + 1] = Text("(") /\ tokens[at + 2] = Text(op)
    BY <1>4
  <2> DEFINE args == <<a, b>>
  <2>2. ArgsRead(tokens, begin, args, NoWindow, end) /\ WellFormed(op, args, NoWindow)
    BY <1>8, <1>9, <1>10
  <2> HIDE DEF begin, end, args
  <2> QED BY <1>5, <2>1, <2>2, OperatorRead DEF args
<1> QED BY <1>5, <1>11 DEF Binary

\* Every tree is read back wherever its tokens stand.
LEMMA TreesRead ==
  ASSUME NEW tokens, Len(tokens) \in Nat
  PROVE  \A e \in Trees : ReadAs(tokens, e)
<1> DEFINE S == {t \in Trees : ReadAs(tokens, t)}
<1>1. ASSUME NEW name \in FEATURES PROVE Feature(name) \in S
  <2> DEFINE e == Feature(name)
             c == <<Text(name)>>
  <2>1. e \in Trees /\ Tokens[e] = c
    BY FeatureFacts
  <2>2. Len(c) = 1
    OBVIOUS
  <2>3. ASSUME NEW at \in Nat, Found(c, tokens, at)
        PROVE  ParseTokens(tokens, at + 1, ArgsAt(tokens)) = [expr |-> e, pos |-> at + 1 + Len(c)]
    <3>1. at + 1 + Len(c) = at + 2
      BY <2>2
    <3>2. ParseTokens(tokens, at + 1, ArgsAt(tokens)) = [expr |-> e, pos |-> at + 2]
      BY <2>3, FeatureRead
    <3> HIDE DEF c, e
    <3> QED BY <3>1, <3>2
  <2> HIDE DEF c, e
  <2> QED BY <2>1, <2>3 DEF ReadAs, e
<1>2. ASSUME NEW op \in UNARY_OPS, NEW a \in Trees, a \in S, Unary(op, a) \in Trees
      PROVE  Unary(op, a) \in S
  <2> DEFINE e == Unary(op, a)
             c == Bracketed(Text("("), Text(op), Tokens[a], Nothing, Nothing, Text(")"))
  <2>1. e \in Trees /\ Tokens[e] = c /\ ReadAs(tokens, a)
    BY <1>2, BracketedForms
  <2>2. ASSUME NEW at \in Nat, Found(c, tokens, at)
        PROVE  ParseTokens(tokens, at + 1, ArgsAt(tokens)) = [expr |-> e, pos |-> at + 1 + Len(c)]
    BY <2>1, <2>2, UnaryRead
  <2> HIDE DEF c, e
  <2> QED BY <2>1, <2>2 DEF ReadAs, e
<1>3. ASSUME NEW op \in TS_OPS, NEW a \in Trees, NEW w \in WINDOWS, a \in S,
             TimeSeries(op, a, w) \in Trees
      PROVE  TimeSeries(op, a, w) \in S
  <2> DEFINE e == TimeSeries(op, a, w)
             c == Bracketed(Text("("), Text(op), Tokens[a], Nothing, <<Number(w)>>, Text(")"))
  <2>1. e \in Trees /\ Tokens[e] = c /\ ReadAs(tokens, a)
    BY <1>3, BracketedForms
  <2>2. ASSUME NEW at \in Nat, Found(c, tokens, at)
        PROVE  ParseTokens(tokens, at + 1, ArgsAt(tokens)) = [expr |-> e, pos |-> at + 1 + Len(c)]
    BY <2>1, <2>2, TimeSeriesRead
  <2> HIDE DEF c, e
  <2> QED BY <2>1, <2>2 DEF ReadAs, e
<1>4. ASSUME NEW op \in BINARY_OPS, NEW a \in Trees, NEW b \in Trees, a \in S, b \in S,
             Binary(op, a, b) \in Trees
      PROVE  Binary(op, a, b) \in S
  <2> DEFINE e == Binary(op, a, b)
             c == Bracketed(Text("("), Text(op), Tokens[a], Tokens[b], Nothing, Text(")"))
  <2>1. e \in Trees /\ Tokens[e] = c /\ ReadAs(tokens, a) /\ ReadAs(tokens, b)
    BY <1>4, BracketedForms
  <2>2. ASSUME NEW at \in Nat, Found(c, tokens, at)
        PROVE  ParseTokens(tokens, at + 1, ArgsAt(tokens)) = [expr |-> e, pos |-> at + 1 + Len(c)]
    BY <2>1, <2>2, BinaryRead
  <2> HIDE DEF c, e
  <2> QED BY <2>1, <2>2 DEF ReadAs, e
<1> HIDE DEF S
<1>5. Trees \subseteq S
  BY <1>1, <1>2, <1>3, <1>4, TreeInduction
<1> QED BY <1>5 DEF S

\* Serializing a tree, whatever its shape, and parsing what was written gives the tree back
\* (factor_dsl.py __str__, parse): two trees never share their text.
THEOREM TreesReadBack == \A e \in Trees : Parse(Tokens[e]) = e
<1> SUFFICES ASSUME NEW e \in Trees PROVE Parse(Tokens[e]) = e
  OBVIOUS
<1> DEFINE tokens == Tokens[e]
           read == ParseTokens(tokens, 1, ArgsAt(tokens))
<1>1. Len(tokens) \in Nat
  BY TokensType DEF Spelled
<1>2. Found(tokens, tokens, 0)
  <2> HIDE DEF tokens
  <2> QED BY <1>1 DEF Found
<1>3. ReadAs(tokens, e)
  BY <1>1, TreesRead
<1>4. ParseTokens(tokens, 0 + 1, ArgsAt(tokens)) = [expr |-> e, pos |-> 0 + 1 + Len(tokens)]
  BY <1>2, <1>3 DEF ReadAs
<1> HIDE DEF tokens
<1>5. 0 + 1 = 1 /\ 0 + 1 + Len(tokens) = Len(tokens) + 1
  BY <1>1
<1>6. read = [expr |-> e, pos |-> Len(tokens) + 1]
  BY <1>4, <1>5
<1>7. Parse(tokens) = IF read.pos = Len(tokens) + 1 THEN read.expr ELSE ParseError.expr
  BY DEF Parse
<1> HIDE DEF read
<1>8. Parse(tokens) = e
  BY <1>6, <1>7
<1> QED BY <1>8 DEF tokens

\* Nothing mined is lost in its own serialization (ReadsBack).
THEOREM MinedReadBack == Spec => []ReadsBack
<1>1. Misread = {}
  BY TreesReadBack, AdmittedIsTree DEF Misread
<1>2. Init => ReadsBack
  BY <1>1 DEF ReadsBack
<1>3. ReadsBack /\ [Next]_vars => ReadsBack'
  BY <1>1 DEF ReadsBack
<1> QED BY <1>2, <1>3, PTL DEF Spec

\* So the text of a factor, by which the fitness cache is keyed, is the factor's alone
\* (quanta_alpha.py evaluate).
THEOREM KeysAreUnique == \A a, b \in Trees : Tokens[a] = Tokens[b] => a = b
BY TreesReadBack
================================================================================
