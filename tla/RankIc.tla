---- MODULE RankIc ----
(***************************************************************************)
(* The rank correlation of two cross-sections, as ic_calculator.py takes   *)
(* it: of scores with forward returns (an IC), or of two signals.  A       *)
(* cross-section gives each ticker a number.  An IC is whole, in units of  *)
(* 1/IcUnit, for the cross-sections of the runs: up to three names, either  *)
(* all distinct or all equal.                                              *)
(***************************************************************************)
EXTENDS Integers, FiniteSets, Functions

CONSTANTS MinCrossSection,   \* MIN_CROSS_SECTION_SIZE
          NoIc               \* a date without a computable IC

IcUnit == 4

\* _average_ranks, doubled so that a rank shared by ties is whole.
TwiceRanks(values) ==
    [t \in DOMAIN values |->
       2 * Cardinality({u \in DOMAIN values : values[u] < values[t]})
         + Cardinality({u \in DOMAIN values : values[u] = values[t]}) + 1]

\* _pearson's sums of products, for ranks, whose mean is known.
CrossMoment(x, y) ==
    LET mean == Cardinality(DOMAIN x) + 1
    IN  SumFunction([t \in DOMAIN x |-> (TwiceRanks(x)[t] - mean) * (TwiceRanks(y)[t] - mean)])

\* spearman_ic; a side that does not vary has no correlation.
SpearmanIc(x, y) ==
    IF CrossMoment(x, x) = 0 \/ CrossMoment(y, y) = 0 THEN NoIc
    ELSE (IcUnit * CrossMoment(x, y)) \div CrossMoment(x, x)

\* One date: over the names both sides have, if there are enough.
DateIc(x, y) ==
    LET common == DOMAIN x \cap DOMAIN y
    IN  IF Cardinality(common) < MinCrossSection THEN NoIc
        ELSE SpearmanIc(Restrict(x, common), Restrict(y, common))

\* daily_ics, and the loop of the two redundancy tests: the dates that have an IC.
DailyIcs(a, b) ==
    LET days == {d \in DOMAIN a \cap DOMAIN b : DateIc(a[d], b[d]) # NoIc}
    IN  [d \in days |-> DateIc(a[d], b[d])]
====
