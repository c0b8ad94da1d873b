---- MODULE AnalystEstimates ----
(***************************************************************************)
(* From analysts' estimates and reported figures to the TrueBeats signal:  *)
(* get_estimates and get_actuals of src/data/wrds/source.py, then          *)
(* analyst_accuracy.py and truebeats.py of src/signals/construction.       *)
(*                                                                         *)
(* An estimate is [analyst, ticker, date, value, quarterly], an actual     *)
(* [ticker, date, value, quarterly]; each ticker has one fiscal period.    *)
(* date is the day of announcement, or Unannounced; quarterly stands for   *)
(* all the screens a row must pass.                                        *)
(***************************************************************************)
EXTENDS Integers, FiniteSets, FiniteSetsExt, Functions

CONSTANTS Unannounced,
          MinObservations   \* MIN_OBSERVATIONS

\* get_actuals and get_estimates: both select on the announcement, alike.
Announced(rows, start, end) ==
    {r \in rows : r.quarterly /\ r.date # Unannounced /\ r.date \in start..end}

\* A slip of Forecasts, for the runs to refute.
ForecastsWithHindsight(estimates, actual, analyst) ==
    {e \in estimates : /\ e.ticker = actual.ticker /\ e.analyst = analyst
                       /\ e.date <= actual.date}

\* The estimates of an analyst that came before the figure did.
Forecasts(estimates, actual, analyst) ==
    {e \in estimates : /\ e.ticker = actual.ticker /\ e.analyst = analyst
                       /\ e.date < actual.date}

\* Everybody's last one, for a figure.
LastForecasts(estimates, actual) ==
    LET Of(a) == Forecasts(estimates, actual, a)
    IN  [a \in {x \in {e.analyst : e \in estimates} : Of(x) # {}} |->
           CHOOSE e \in Of(a) : \A other \in Of(a) : other.date <= e.date]

Miss(forecast, actual) == IF forecast.value < actual.value THEN actual.value - forecast.value
                          ELSE forecast.value - actual.value

\* The place of an analyst in the ranking of misses, from 0; ties in the order of the file,
\* which is taken to be that of the analysts.
Place(forecasts, actual, analyst) ==
    Cardinality({a \in DOMAIN forecasts :
        \/ Miss(forecasts[a], actual) < Miss(forecasts[analyst], actual)
        \/ Miss(forecasts[a], actual) = Miss(forecasts[analyst], actual) /\ a < analyst})

\* analyst_accuracy, in quarters: exact for up to three analysts and two figures.
AnalystAccuracy(estimates, actuals, asOf) ==
    LET known  == {a \in actuals : a.date <= asOf}
        Field(actual) == LastForecasts(estimates, actual)
        Scored(analyst) == {a \in known : /\ analyst \in DOMAIN Field(a)
                                          /\ Cardinality(DOMAIN Field(a)) >= 2}
        Score(actual, analyst) ==
            LET last == Cardinality(DOMAIN Field(actual)) - 1
            IN  (4 * (last - Place(Field(actual), actual, analyst))) \div last
    IN  [x \in {y \in {e.analyst : e \in estimates} :
                  Scored(y) # {} /\ Cardinality(Scored(y)) >= MinObservations} |->
           SumFunction([a \in Scored(x) |-> Score(a, x)]) \div Cardinality(Scored(x))]

\* enrich_with_accuracy: the neutral prior for analysts without a record.
Trust(accuracy, analyst) == IF analyst \in DOMAIN accuracy THEN accuracy[analyst] ELSE 2
---------------------------------------------------------------------------
\* compute_truebeats, before its components are standardized and weighed.  A fraction is
\* <<numerator, denominator>>.
Covering(estimates, ticker) == {e.analyst : e \in {f \in estimates : f.ticker = ticker}}

\* The weighted consensus less the simple one.
ExpertBeat(estimates, accuracy, ticker) ==
    LET rows == {e \in estimates : e.ticker = ticker}
        Sum(Of(_)) == SumFunction([e \in rows |-> Of(e)])
        n      == Cardinality(rows)
        weight == Sum(LAMBDA e : Trust(accuracy, e.analyst))
    IN  IF weight = 0 THEN <<0, 1>>
        ELSE <<n * Sum(LAMBDA e : Trust(accuracy, e.analyst) * e.value)
                 - weight * Sum(LAMBDA e : e.value), n * weight>>

\* The names that share an analyst with this one.
Peers(estimates, ticker) ==
    {t \in {e.ticker : e \in estimates} \ {ticker} :
       Covering(estimates, t) \cap Covering(estimates, ticker) # {}}

\* The square of pstdev(values), times n squared.
Disagreement(estimates, ticker) ==
    LET rows == {e \in estimates : e.ticker = ticker}
        n    == Cardinality(rows)
        sum  == SumFunction([e \in rows |-> e.value])
    IN  n * SumFunction([e \in rows |-> e.value * e.value]) - sum * sum

TrueBeats(estimates, accuracy, asOf) ==
    LET relevant == {e \in estimates : e.date <= asOf}
    IN  [t \in {e.ticker : e \in relevant} |->
           [expert |-> ExpertBeat(relevant, accuracy, t),
            trend |-> {<<p, ExpertBeat(relevant, accuracy, p)>> : p \in Peers(relevant, t)},
            management |-> Disagreement(relevant, t)]]

\* The signal as of a day, from what the source serves up to another.
SignalAsOf(estimates, actuals, asOf, served) ==
    LET est == Announced(estimates, 1, served)
        act == Announced(actuals, 1, served)
    IN  TrueBeats(est, AnalystAccuracy(est, act, asOf), asOf)
====
