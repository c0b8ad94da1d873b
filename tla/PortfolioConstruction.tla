---- MODULE PortfolioConstruction ----
(***************************************************************************)
(* src/portfolio: from the scores of one day and the bars so far to target *)
(* weights, by tilting on the scores (construction.py, constraints.py) or  *)
(* by the mean-CVaR program (mean_cvar.py), and the risk they report.      *)
(*                                                                         *)
(* Weights are exact fractions: a book [of, unit] holds of[t] / unit of t. *)
(* A score is [ticker, date, raw]; a bar is [ticker, date, close].         *)
(***************************************************************************)
EXTENDS Integers, FiniteSets, FiniteSetsExt, Functions

CONSTANTS MaxPosition, MaxGross,   \* PortfolioConstraints
          VolLookback,             \* VOL_LOOKBACK_DAYS
          TailOneIn,               \* 1 / (1 - cvar_beta)
          NoBook                   \* the ValueError of a day without scores or scenarios

\* Limits are positive (PortfolioConstraints), and a tail is a part of the scenarios.
ASSUME LimitsAssumption ==
    /\ MaxPosition \in Nat \ {0} /\ MaxGross \in Nat \ {0}
    /\ TailOneIn \in Nat \ {0}

Magnitude(n) == IF n < 0 THEN -n ELSE n
Gross(w) == SumFunction([t \in DOMAIN w |-> Magnitude(w[t])])
LongLeg(w)  == SumFunction([t \in DOMAIN w |-> IF w[t] > 0 THEN w[t] ELSE 0])
ShortLeg(w) == SumFunction([t \in DOMAIN w |-> IF w[t] < 0 THEN -w[t] ELSE 0])
---------------------------------------------------------------------------
\* The steps of enforce, in its order.
Demeaned(book) ==
    LET n     == Cardinality(DOMAIN book.of)
        total == SumFunction(book.of)
    IN  [of |-> [t \in DOMAIN book.of |-> n * book.of[t] - total],
         unit |-> n * book.unit]

Capped(book) ==
    LET cap == MaxPosition * book.unit
    IN  [book EXCEPT !.of = [t \in DOMAIN @ |-> Max({-cap, Min({cap, @[t]})})]]

\* The larger leg comes down to the smaller one.
Balanced(book) ==
    LET long    == LongLeg(book.of)
        short   == ShortLeg(book.of)
        larger  == Max({long, short})
        smaller == Min({long, short})
    IN  IF smaller = 0 \/ long = short THEN book
        ELSE [of |-> [t \in DOMAIN book.of |->
                        IF (book.of[t] > 0) = (long > short) THEN smaller * book.of[t]
                        ELSE larger * book.of[t]],
              unit |-> larger * book.unit]

Levered(book) ==
    IF Gross(book.of) <= MaxGross * book.unit THEN book
    ELSE [of |-> [t \in DOMAIN book.of |-> MaxGross * book.of[t]], unit |-> Gross(book.of)]

\* A slip of Enforced, for the runs to refute.
EnforcedCapFirst(book, neutral) ==
    Levered(IF neutral THEN Balanced(Demeaned(Capped(book))) ELSE Capped(book))

Enforced(book, neutral) ==
    Levered(IF neutral THEN Balanced(Capped(Demeaned(book))) ELSE Capped(book))

\* violations: a residual net exposure of 0.05 is let pass.
Feasible(book, neutral) ==
    /\ \A t \in DOMAIN book.of : Magnitude(book.of[t]) <= MaxPosition * book.unit
    /\ Gross(book.of) <= MaxGross * book.unit
    /\ neutral => 20 * Magnitude(SumFunction(book.of)) <= book.unit
---------------------------------------------------------------------------
\* The n latest of a set of days.
LatestOf(days, n) == {d \in days : Cardinality({e \in days : e > d}) < n}

BarsAsOf(bars, asOf) == {b \in bars : b.date <= asOf}

\* The last bar of the same ticker before this one, if any.
LastBefore(bars, bar) ==
    LET earlier == {b \in bars : b.ticker = bar.ticker /\ b.date < bar.date}
    IN  {b \in earlier : \A e \in earlier : e.date <= b.date}

\* The one-period returns, each with its ticker and day, in units that keep them whole.
ReturnsAsOf(bars, asOf) ==
    LET known == BarsAsOf(bars, asOf)
    IN  UNION {{[ticker |-> bar.ticker, date |-> bar.date,
                 return |-> (2 * bar.close) \div last.close - 2] :
                   last \in LastBefore(known, bar)} : bar \in known}

\* _trailing_vols.  The spread of the returns stands for their deviation: both are zero
\* exactly when the returns are all equal.
TrailingVols(bars, asOf) ==
    LET returns == ReturnsAsOf(bars, asOf)
        days == [t \in {r.ticker : r \in returns} |->
                   LatestOf({r.date : r \in {q \in returns : q.ticker = t}}, VolLookback)]
        Values(t) == {r.return : r \in {q \in returns : q.ticker = t /\ q.date \in days[t]}}
    IN  [t \in {u \in DOMAIN days : Cardinality(days[u]) >= 2} |->
           Max(Values(t)) - Min(Values(t))]

\* statistics.median, doubled so that it is whole: the least value that half of them do not
\* exceed, and the greatest that half of them reach.
TwiceMedian(f) ==
    LET Half(names) == 2 * Cardinality(names) >= Cardinality(DOMAIN f)
        low  == {t \in DOMAIN f : Half({u \in DOMAIN f : f[u] <= f[t]})}
        high == {t \in DOMAIN f : Half({u \in DOMAIN f : f[u] >= f[t]})}
    IN  Min({f[t] : t \in low}) + Max({f[t] : t \in high})

\* The volatility a name is scaled by, doubled: its own, or the median where it has none.
TwiceVol(vols, ticker) ==
    LET positive == [t \in {u \in DOMAIN vols : vols[u] > 0} |-> vols[t]]
    IN  IF ticker \in DOMAIN positive THEN 2 * positive[ticker]
        ELSE IF DOMAIN positive = {} THEN 2 ELSE TwiceMedian(positive)

DayScores(scores, asOf) ==
    LET own == {s \in scores : s.date = asOf}
    IN  [t \in {s.ticker : s \in own} |-> (CHOOSE s \in own : s.ticker = t).raw]

\* zscore, up to the positive scale its deviation divides by.
Standardized(raw) == Demeaned([of |-> raw, unit |-> 1]).of

\* The unconstrained tilts; unit is that scale, and 60 keeps the quotients whole.
RawWeights(scores, bars, asOf, unit) ==
    LET z    == Standardized(DayScores(scores, asOf))
        vols == TrailingVols(bars, asOf)
    IN  [of |-> [t \in DOMAIN z |-> z[t] * (60 \div TwiceVol(vols, t))], unit |-> unit]
---------------------------------------------------------------------------
\* build_scenarios: the latest days on which some name has a return.
Scenarios(bars, asOf) ==
    LET returns == ReturnsAsOf(bars, asOf)
        On(day) == {r \in returns : r.date = day}
    IN  [day \in LatestOf({r.date : r \in returns}, VolLookback) |->
           [t \in {r.ticker : r \in On(day)} |-> (CHOOSE r \in On(day) : r.ticker = t).return]]

\* portfolio_scenario_returns: a name without a return in the scenario adds nothing.
ScenarioReturns(of, scenarios) ==
    [day \in DOMAIN scenarios |->
       SumFunction([t \in DOMAIN of \cap DOMAIN scenarios[day] |-> of[t] * scenarios[day][t]])]

TailSize(n) == Max({1, n \div TailOneIn})

\* conditional_value_at_risk, times the size of the tail.
TailLoss(returns) ==
    LET k == TailSize(Cardinality(DOMAIN returns))
    IN  -Min({SumFunctionOnSet(returns, tail) : tail \in kSubset(k, DOMAIN returns)})

\* value_at_risk: the loss at the tail's edge, which this one rounds up.
ValueAtRisk(returns) ==
    LET n    == Cardinality(DOMAIN returns)
        edge == (n + TailOneIn - 1) \div TailOneIn
    IN  -Min({returns[day] : day \in {d \in DOMAIN returns :
                Cardinality({e \in DOMAIN returns : returns[e] <= returns[d]}) >= edge}})

\* construct_portfolio, of the day's tilts.
TiltedBook(tilts, neutral) ==
    IF DOMAIN tilts.of = {} THEN NoBook ELSE Enforced(tilts, neutral)

\* The CVaR the program minimises, times the number of scenarios: the loss alpha plus the
\* mean excess over it, at the best alpha, which is one of the losses.
ProgramLoss(returns) ==
    LET Excess(alpha) == SumFunction([day \in DOMAIN returns |-> Max({0, -returns[day] - alpha})])
    IN  Min({Cardinality(DOMAIN returns) * alpha + TailOneIn * Excess(alpha) :
               alpha \in {-returns[day] : day \in DOMAIN returns}})

\* The weights the program may give, on a grid of unit.
Candidates(tickers, unit, neutral) ==
    LET cap == MaxPosition * unit
    IN  {of \in [tickers -> -cap..cap] : Gross(of) <= MaxGross * unit
                                         /\ (neutral => SumFunction(of) = 0)}

\* construct_portfolio_cvar with solve_mean_cvar, for the day's standardized scores: the
\* books that minimise CVaR less the expected return of the scores.
CvarBooks(z, scenarios, unit, neutral) ==
    LET books == {[book |-> [of |-> of, unit |-> unit],
                   returns |-> ScenarioReturns(of, scenarios)] :
                     of \in Candidates(DOMAIN z, unit, neutral)}
        Reward(of) == SumFunction([t \in DOMAIN of |-> z[t] * of[t]])
        Objective(b) == ProgramLoss(b.returns) - Cardinality(DOMAIN scenarios) * Reward(b.book.of)
        least == Min({Objective(b) : b \in books})
    IN  IF DOMAIN z = {} \/ DOMAIN scenarios = {} THEN {NoBook}
        ELSE {b \in books : Objective(b) = least}
====
