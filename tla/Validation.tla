---- MODULE Validation ----
(***************************************************************************)
(* The verdict of src/signals/validation/backtest_runner.py on one signal, *)
(* with regime_tester.py, decay_tester.py and pvalue_test.py.              *)
(*                                                                         *)
(* A history is one record per trading day: move, the market's one-day     *)
(* return, and ic, the signal's IC that day or NoIc; both whole numbers.   *)
(* Where a comparison takes a square root it is made on the squares, and a *)
(* p-value or a ceiling that no whole number decides may fall either way.  *)
(***************************************************************************)
EXTENDS RankIc, Sequences, FiniteSetsExt, SequencesExt

CONSTANTS IcAcceptance,         \* ic_acceptance
          DecayIcMin,           \* decay_ic_min
          MinRegimesPositive,   \* MIN_REGIMES_POSITIVE
          RegimeWindow          \* TREND_WINDOW and VOL_WINDOW, at most 3

ASSUME WindowAssumption == RegimeWindow \in Nat
ASSUME ThresholdsAssumption == DecayIcMin \in Int /\ MinRegimesPositive \in Nat

REGIMES == {"bull", "bear", "high_vol", "low_vol"}

\* A series is a function to whole numbers: from days, or from positions.
NPeriods(s) == Cardinality(DOMAIN s)
Total(s) == SumFunction(s)
Squares(s) == SumFunction([i \in DOMAIN s |-> s[i] * s[i]])
MeanAbove(s, bound) == Total(s) > bound * NPeriods(s)

\* The square of the number of periods times the variance of s.
Dispersion(s) == NPeriods(s) * Squares(s) - Total(s) * Total(s)

\* daily_ics of a history: the days without one are skipped.
Ics(history) == [i \in {d \in DOMAIN history : history[d].ic # NoIc} |-> history[i].ic]
---------------------------------------------------------------------------
\* classify_regimes.  _market_returns has none for the first day.
MarketDays(history) == 2..Len(history)

Trailing(history, i) ==
    [k \in 1..Min({RegimeWindow, i - 1}) |-> history[i + 1 - k].move]

\* The variance of the trailing moves, times 36; a day with one move has none.
VolDays(history) == {i \in MarketDays(history) : Len(Trailing(history, i)) >= 2}
TrailingVol(history, i) ==
    LET s == Trailing(history, i)
    IN  (36 \div (Len(s) * Len(s))) * Dispersion(s)

\* At or above the median: at or above the upper of the two middle values.
HighVol(history, i) ==
    Cardinality({j \in VolDays(history) : TrailingVol(history, j) <= TrailingVol(history, i)})
      > Cardinality(VolDays(history)) \div 2

Direction(history, i) == IF Total(Trailing(history, i)) >= 0 THEN "bull" ELSE "bear"

RegimesOn(history, i) ==
    IF i \notin MarketDays(history) THEN {}
    ELSE {Direction(history, i)}
         \cup {IF HighVol(history, i) THEN "high_vol" ELSE "low_vol" :
                 j \in {i} \cap VolDays(history)}

\* regime_test: the ICs in a regime, and whether enough regimes have a positive mean.
Bucket(history, regime) ==
    Restrict(Ics(history), {i \in DOMAIN Ics(history) : regime \in RegimesOn(history, i)})

\* A slip of PositiveRegimes, for the runs to refute.
NotNegativeRegimes(history) == {r \in REGIMES : Total(Bucket(history, r)) >= 0}

PositiveRegimes(history) == {r \in REGIMES : Total(Bucket(history, r)) > 0}
---------------------------------------------------------------------------
\* evaluate_signal's ICIR above 0.5; zero when the ICs do not vary.
IcirAboveHalf(ics) ==
    LET n == NPeriods(ics)
    IN  /\ n >= 2 /\ Dispersion(ics) > 0
        /\ Total(ics) > 0
        /\ 4 * (n - 1) * Total(ics) * Total(ics) > n * Dispersion(ics)

\* multiple_testing_guard: whether the corrected p-value and the ceiling may be met.
Significant(ics) == IF NPeriods(ics) < 2 THEN {FALSE}
                    ELSE IF Dispersion(ics) = 0 THEN {TRUE} ELSE BOOLEAN
BeatsCeiling(ics, trials) ==
    IF Total(ics) <= 0 THEN {FALSE}
    ELSE IF trials = 1 \/ NPeriods(ics) < 2 \/ Dispersion(ics) = 0 THEN {TRUE} ELSE BOOLEAN
GuardOutcomes(ics, trials) ==
    {significant /\ beats /\ Total(ics) > 0 :
        significant \in Significant(ics), beats \in BeatsCeiling(ics, trials)}

\* _sector_neutral_ic: scores less their sector's mean, times 6 to be whole in sectors of up
\* to three; names without a sector drop out.
Neutral(values, sectors) ==
    LET Peers(t) == {u \in DOMAIN values \cap DOMAIN sectors : sectors[u] = sectors[t]}
    IN  [t \in DOMAIN values \cap DOMAIN sectors |->
           6 * values[t] - (6 \div Cardinality(Peers(t))) * SumFunctionOnSet(values, Peers(t))]
NeutralIcs(signal, labels, sectors) ==
    DailyIcs([day \in DOMAIN signal |-> Neutral(signal[day], sectors)], labels)
FailsTest7(signal, labels, sectors) ==
    LET ics == NeutralIcs(signal, labels, sectors)
    IN  DOMAIN ics # {} /\ SumFunction(ics) <= IcAcceptance * Cardinality(DOMAIN ics)

\* run_backtest: the failed tests of every verdict it may reach; decay are the ICs at the
\* decay horizon, others the failures among the two optional tests.  No verdict when a
\* series is empty: the ValueError.
Verdicts(history, decay, trials, others) ==
    LET ics == Ics(history)
    IN  IF DOMAIN ics = {} \/ DOMAIN decay = {} THEN {}
        ELSE {(IF MeanAbove(ics, IcAcceptance) THEN {} ELSE {1})
              \cup (IF IcirAboveHalf(ics) THEN {} ELSE {2})
              \cup (IF passed THEN {} ELSE {3})
              \cup (IF MeanAbove(decay, DecayIcMin) THEN {} ELSE {4})
              \cup (IF Cardinality(PositiveRegimes(history)) >= MinRegimesPositive
                    THEN {} ELSE {5})
              \cup others : passed \in GuardOutcomes(ics, trials)}
====
