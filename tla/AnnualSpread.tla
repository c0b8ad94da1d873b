---- MODULE AnnualSpread ----
(***************************************************************************)
(* The long-short legs: src/backtest/seasonal.py, once a year over the     *)
(* universe, and _long_short_returns of backtest_runner.py, once a date.   *)
(*                                                                         *)
(* signals and returns are functions from securities, named by numbers; a  *)
(* name without a return is not in the domain of returns.                  *)
(***************************************************************************)
EXTENDS Integers, FiniteSets, FiniteSetsExt, Functions

CONSTANTS LegOneIn,    \* 1 / QUINTILE
          MIN_LEG,
          TercileOneIn, TercileMin,  \* 1 / QUANTILE_FRACTION and min_cross_section
          Cost,        \* ROUND_TRIP_COST
          NoSpread     \* no result for the year

\* A leg is a half at most and has names, and a year without a result is told apart.
ASSUME LegsAssumption ==
    /\ LegOneIn \in Nat /\ LegOneIn >= 2 /\ MIN_LEG \in Nat \ {0}
    /\ TercileOneIn \in Nat /\ TercileOneIn >= 2 /\ TercileMin \in Nat /\ TercileMin >= 2
    /\ Cost \in Int /\ NoSpread \notin Int
    /\ NoSpread \notin [long_return : Int \X Nat, short_return : Int \X Nat, net_return : Int,
                        n_long : Nat, n_short : Nat]

\* Where a name stands in the order by signal; of equals the smaller number comes first.
Standing(signals, p) ==
    Cardinality({q \in DOMAIN signals :
                   signals[q] < signals[p] \/ (signals[q] = signals[p] /\ q <= p)})

Lowest(signals, k)  == {p \in DOMAIN signals : Standing(signals, p) <= k}
Highest(signals, k) == {p \in DOMAIN signals : Standing(signals, p) > Cardinality(DOMAIN signals) - k}

\* The bottom and the top of the order, or two empty legs.
QuintileSplit(signals) ==
    LET size == Cardinality(DOMAIN signals) \div LegOneIn
    IN  IF size < MIN_LEG THEN <<{}, {}>>
        ELSE <<Lowest(signals, size), Highest(signals, size)>>

\* A mean is <<sum, count>>.
LegMean(leg, returns) ==
    LET known == leg \cap DOMAIN returns
    IN  <<SumFunctionOnSet(returns, known), Cardinality(known)>>

\* mean(long) - mean(short) - cost, times both counts.
Net(long, short) == long[1] * short[2] - short[1] * long[2] - Cost * long[2] * short[2]

\* spread_return.
SpreadReturn(longs, shorts, returns) ==
    LET long == LegMean(longs, returns)  short == LegMean(shorts, returns)
    IN  IF long[2] = 0 \/ short[2] = 0 THEN NoSpread ELSE Net(long, short)

\* run_annual_spread.
AnnualResult(signals, returns) ==
    LET legs  == QuintileSplit(signals)
        long  == LegMean(legs[1], returns)
        short == LegMean(legs[2], returns)
    IN  IF legs[1] = {} \/ legs[2] = {} \/ long[2] = 0 \/ short[2] = 0 THEN NoSpread
        ELSE [long_return |-> long, short_return |-> short, net_return |-> Net(long, short),
              n_long |-> long[2], n_short |-> short[2]]

\* _long_short_returns for one date: only names with a return are ranked.
TercileLegs(signals, returns) ==
    LET ranked == Restrict(signals, DOMAIN signals \cap DOMAIN returns)
        n      == Cardinality(DOMAIN ranked)
        k      == Max({1, n \div TercileOneIn})
    IN  IF n < TercileMin THEN <<{}, {}>>
        ELSE <<Highest(ranked, k), Lowest(ranked, k)>>
====
