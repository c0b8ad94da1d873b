---- MODULE DeskRecords ----
(***************************************************************************)
(* What the desk makes of the vendors' records: a book from bars and       *)
(* scores, a selection and weights from signals, a verdict from a market's *)
(* days, a universe and its legs from a month's rows, and the certificate  *)
(* of what a pipeline took in.  As in VendorRecords, the records grow one  *)
(* at a time and every result is asked for at every point.                 *)
(***************************************************************************)
EXTENDS Feeds, PortfolioConstruction, SignalCombination, Validation,
        SizeUniverse, AnnualSpread, Hygiene

CONSTANTS Sessions,   \* what a day's close may be: functions from tickers to prices
          Names,      \* the names the scores are about
          Units,      \* scales of the scores to try
          Signals,    \* signals that may come up: from dates to cross-sections
          Labels,     \* the forward returns of their dates
          Listings,   \* kinds of securities a month may list
          Years,      \* formation years
          FirmYears   \* what a company may file for a year: from quarters to
                      \* [flow, month_end]

\* Closes are positive (PriceData), and scores have a scale.
ASSUME SessionsAssumption ==
    /\ Units \subseteq Nat \ {0}
    /\ \A session \in Sessions : /\ IsFiniteSet(DOMAIN session)
                                /\ \A t \in DOMAIN session : session[t] \in Nat \ {0}

\* A year on file has a quarter (hygiene.py groups the rows it is given).
ASSUME FilingsAssumption ==
    \A year \in FirmYears :
      /\ IsFiniteSet(DOMAIN year) /\ DOMAIN year # {} /\ DOMAIN year \subseteq Int
      /\ \A q \in DOMAIN year : year[q].flow \in Int /\ year[q].month_end \in BOOLEAN

\* Signals and labels give finitely many names whole scores, which are all distinct or all
\* equal (see RankIc).
CrossSection(x) ==
    /\ IsFiniteSet(DOMAIN x)
    /\ \A t \in DOMAIN x : x[t] \in Int
    /\ \/ \A s, t \in DOMAIN x : x[s] = x[t] => s = t
       \/ \A s, t \in DOMAIN x : x[s] = x[t]
ASSUME SignalsAssumption ==
    /\ NoIc \notin Int
    /\ \A signal \in Signals \cup {Labels} :
          IsFiniteSet(DOMAIN signal) /\ \A day \in DOMAIN signal : CrossSection(signal[day])
    /\ MaxCorrelation \in Int /\ Ridge \in Nat \ {0}

\* A price is small beside the caps, which are six times the rows before them (see List).
ASSUME ListingsAssumption ==
    Listings \subseteq [price : -6..6, nyse : BOOLEAN, common : BOOLEAN,
                       signal : Int, held : BOOLEAN, return : Int]

\* A date has up to three names, so that sector means are whole (see Validation's Neutral).
ASSUME SectorsAssumption ==
    \A signal \in Signals : \A day \in DOMAIN signal : Cardinality(DOMAIN signal[day]) <= 3

NoRecords == [bars |-> {}, scores |-> {}]
NoIntake  == [prices |-> {}, filed |-> <<>>, links |-> <<>>]

EmptyDesk(what) == CASE what = "book" -> NoRecords
                     [] what = "pipeline" -> NoIntake
                     [] OTHER -> <<>>
---------------------------------------------------------------------------
\* The book: a name is scored today.  (Bound: scores come on the last day.)
Score ==
    /\ kind = "book"
    /\ today = LastDay[kind]
    /\ Cardinality(feed.scores) < MaxRecords[kind]
    /\ \E ticker \in Names, raw \in {-1, 1} :
         /\ ticker \notin {s.ticker : s \in feed.scores}
         /\ feed' = [feed EXCEPT !.scores =
                       @ \cup {[ticker |-> ticker, date |-> today, raw |-> raw]}]
    /\ UNCHANGED <<kind, today>>

\* The market closes.
Close ==
    /\ kind = "book"
    /\ ~\E b \in feed.bars : b.date = today
    /\ \E session \in Sessions :
         feed' = [feed EXCEPT !.bars = @ \cup
                    {[ticker |-> t, date |-> today, close |-> session[t]] : t \in DOMAIN session}]
    /\ UNCHANGED <<kind, today>>

\* Signals: one more passes validation, with its scores.
Validate ==
    /\ kind = "signals"
    /\ Len(feed) < MaxRecords[kind]
    /\ \E signal \in Signals : feed' = Append(feed, signal)
    /\ UNCHANGED <<kind, today>>

\* Validation: the market trades, and the signal has an IC that day or not.
Trade ==
    /\ kind = "validation"
    /\ Len(feed) < MaxRecords[kind]
    /\ \E move \in {-1, 2}, ic \in {NoIc, -1, 3} : feed' = Append(feed, [move |-> move, ic |-> ic])
    /\ UNCHANGED <<kind, today>>

\* A month: one more security, larger than those before.
List ==
    /\ kind = "month"
    /\ Len(feed) < MaxRecords[kind]
    /\ \E row \in Listings :
         feed' = Append(feed, [permno |-> Len(feed) + 1,
                   price |-> row.price,
                   shares |-> IF row.price = 0 THEN 1 ELSE (6 * (Len(feed) + 1)) \div Price(row),
                   nyse |-> row.nyse, common |-> row.common,
                   signal |-> row.signal, held |-> row.held, return |-> row.return])
    /\ UNCHANGED <<kind, today>>

\* A pipeline takes in a price, a year of a company, or a row of the link table.
TakeIn ==
    /\ kind = "pipeline"
    /\ Cardinality(feed.prices) + Len(feed.filed) + Len(feed.links) < MaxRecords[kind]
    /\ \/ \E price \in {5, -6} : price \notin feed.prices /\ feed' = [feed EXCEPT !.prices = @ \cup {price}]
       \/ \E year \in FirmYears : feed' = [feed EXCEPT !.filed = Append(@, year)]
       \/ \E usable \in BOOLEAN : feed' = [feed EXCEPT !.links = Append(@, usable)]
    /\ UNCHANGED <<kind, today>>

DeskNext == Score \/ Close \/ Validate \/ Trade \/ List \/ TakeIn
---------------------------------------------------------------------------
BarsBy(day) == {b \in feed.bars : b.date <= day}

\* The book: volatilities and scenarios as of a past day use no later bar.
BookPointInTime ==
    kind = "book" =>
      \A day \in Past : /\ TrailingVols(feed.bars, day) = TrailingVols(BarsBy(day), day)
                        /\ Scenarios(feed.bars, day) = Scenarios(BarsBy(day), day)

\* A tilted book meets every limit at once, is exactly neutral when it must be, and holds
\* the names in the order the tilts put them, whichever limits bind (constraints.py
\* enforce: each step may undo the one before).
BookIsFeasible ==
    kind = "book" =>
      \A unit \in Units, neutral \in BOOLEAN :
        \A tilts \in {RawWeights(feed.scores, feed.bars, today, unit)} :
          \A book \in {TiltedBook(tilts, neutral)} \ {NoBook} :
             /\ Feasible(book, neutral)
             /\ neutral => SumFunction(book.of) = 0
             /\ \A s, t \in DOMAIN book.of :
                   tilts.of[s] <= tilts.of[t] => book.of[s] <= book.of[t]

\* The loss a book reports is never below the one the program minimised, and equal to it
\* when the tail is a whole number of scenarios or less than one; nor below its value at
\* risk, though the two round the tail differently (risk.py value_at_risk and
\* conditional_value_at_risk, mean_cvar.py).
RiskIsReported ==
    kind = "book" =>
      \A z \in {Standardized(DayScores(feed.scores, today))},
         scenarios \in {Scenarios(feed.bars, today)}, neutral \in BOOLEAN :
        \A b \in CvarBooks(z, scenarios, 1, neutral) \ {NoBook} :
          LET n == Cardinality(DOMAIN scenarios)
          IN  /\ Feasible(b.book, neutral)
              /\ n * TailLoss(b.returns) >= TailSize(n) * ProgramLoss(b.returns)
              /\ TailLoss(b.returns) >= TailSize(n) * ValueAtRisk(b.returns)
              /\ n % TailOneIn = 0 \/ n < TailOneIn =>
                   n * TailLoss(b.returns) = TailSize(n) * ProgramLoss(b.returns)

\* The books are sound, tilted or optimised (construction.py, mean_cvar.py).
BooksAreSound == BookIsFeasible /\ RiskIsReported

Priorities == BoundedSeq(1..MaxRecords["signals"], 2)

\* When a signal is considered: where the priority has it, or after all of the priority.
Turn(priority, n) == IF n \in ToSet(priority)
                     THEN CHOOSE i \in DOMAIN priority : priority[i] = n
                     ELSE Len(priority) + n

\* What is kept is pairwise unlike, in the order it was considered; what is dropped gives
\* way to a kept signal considered before it; nothing else is lost; and no signal is
\* dropped that test #6 would pass beside those kept (signal_selector.py select_signals,
\* backtest_runner.py _max_abs_correlation: the two take the mean differently).
SelectionIsJustified ==
    kind = "signals" =>
      \A priority \in {p \in Priorities : IsInjective(p)} :
       \A chosen \in {SelectSignals(feed, priority)} :
        LET kept    == ToSet(chosen.kept)
            dropped == DOMAIN chosen.dropped
        IN  /\ kept \cup dropped = DOMAIN feed /\ kept \cap dropped = {}
            /\ \A i, j \in DOMAIN chosen.kept : i < j =>
                  /\ Turn(priority, chosen.kept[i]) < Turn(priority, chosen.kept[j])
                  /\ ~Conflicting(feed[chosen.kept[i]], feed[chosen.kept[j]])
            /\ \A n \in dropped :
                  /\ chosen.dropped[n] \in kept
                  /\ Turn(priority, chosen.dropped[n]) < Turn(priority, n)
                  /\ Conflicting(feed[n], feed[chosen.dropped[n]])
                  /\ FailsTest6(feed[n], {feed[k] : k \in kept})

\* The weights of two signals earn: their combined mean IC is positive, unless both have
\* none or there are too few common dates to tell (optimal_weights.py optimal_weights).
CombinationPays ==
    kind = "signals" =>
      \A i, j \in DOMAIN feed :
        LET a == DailyIcs(feed[i], Labels)
            b == DailyIcs(feed[j], Labels)
            common == DOMAIN a \cap DOMAIN b
            w == OptimalWeights(a, b)
            Mean(f) == SumFunctionOnSet(f, common)
        IN  Cardinality(common) >= 2 /\ (Mean(a) # 0 \/ Mean(b) # 0)
              => w[1] * Mean(a) + w[2] * Mean(b) > 0

\* A blend takes every name some signal scores, is centred on every date, and where two
\* signals both score a date in full its order never goes against a weighted vote that is
\* unanimous (optimal_weights.py combine_signals).
BlendIsFair ==
    kind = "signals" =>
      \A i, j \in DOMAIN feed : i # j =>
        \A w \in (-1..2) \X {1} :
          LET blend == CombineSignals(<<feed[i], feed[j]>>, w)
              Scored(n, day) == IF day \in DOMAIN feed[n] THEN DOMAIN feed[n][day] ELSE {}
              Votes(day, x, y) ==
                  {w[k] * (feed[<<i, j>>[k]][day][x] - feed[<<i, j>>[k]][day][y]) : k \in 1..2}
          IN  \A day \in DOMAIN blend :
                LET both == Scored(i, day) \cap Scored(j, day)
                IN  /\ DOMAIN blend[day] = Scored(i, day) \cup Scored(j, day)
                    /\ SumFunction(blend[day]) = 0
                    /\ both = DOMAIN blend[day] =>
                         \A x, y \in both :
                            Votes(day, x, y) \subseteq Nat => blend[day][x] >= blend[day][y]

\* What is kept is justified, and what is weighted pays (src/signals/combination).
CombinationIsJustified == SelectionIsJustified /\ CombinationPays /\ BlendIsFair

\* A verdict to pass takes ICs on two days that differ, a label at the decay horizon,
\* and a positive mean IC in both regimes of a kind that the market was seen in, so a
\* signal that earns only in one market, or only outside every labelled day, never passes
\* (backtest_runner.py run_backtest, regime_tester.py regime_test).
VerdictIsEarned ==
    kind = "validation" =>
      \A decay \in {<<>>, <<-1>>, <<3, -1>>} :
        {} \in Verdicts(feed, decay, 2, {}) =>
          /\ \E i, j \in DOMAIN Ics(feed) : Ics(feed)[i] # Ics(feed)[j]
          /\ Total(decay) > 0
          /\ \E pair \in {{"bull", "bear"}, {"high_vol", "low_vol"}} :
                \A regime \in pair :
                  \E i \in DOMAIN feed : /\ feed[i].ic # NoIc /\ feed[i].ic > 0
                                         /\ regime \in RegimesOn(feed, i)

\* What a sector does as a whole does not count: moving it up or down changes no neutral
\* IC of the signal that came up last.  And so one that only ranks sectors has none, and
\* test #7, which is to fail sector bets, does not judge it (_sector_neutral_ic of
\* backtest_runner.py).
SectorsDoNotCount ==
    kind = "signals" /\ feed # <<>> =>
        LET signal == Last(feed)
            names == UNION {DOMAIN signal[day] : day \in DOMAIN signal}
        IN  \A sectors \in [names -> 1..2], lift \in {-1, 1} :
              LET Lifted(of) == [day \in DOMAIN of |->
                     [t \in DOMAIN of[day] |-> of[day][t] + lift * sectors[t]]]
                  flat == [day \in DOMAIN signal |-> [t \in DOMAIN signal[day] |-> 0]]
              IN  /\ NeutralIcs(Lifted(signal), Labels, sectors)
                        = NeutralIcs(signal, Labels, sectors)
                  /\ ~FailsTest7(Lifted(flat), Labels, sectors)

\* A pass is earned, and not by sectors (backtest_runner.py run_backtest).
PassIsEarned == VerdictIsEarned /\ SectorsDoNotCount

\* A day's direction is settled when the day is over: later days change only the
\* volatility labels, which the whole sample's median decides (regime_tester.py).
DirectionIsSettled ==
    kind = "validation" =>
      \A n \in DOMAIN feed : \A i \in MarketDays(SubSeq(feed, 1, n)) :
        /\ RegimesOn(feed, i) \cap {"bull", "bear"} = {Direction(SubSeq(feed, 1, n), i)}
        /\ (i \in VolDays(SubSeq(feed, 1, n))) = (i \in VolDays(feed))

\* The month's members of a year, as what is ranked and held.
Members(year) == {m.permno : m \in SelectUniverse(feed, year)}
SignalsOf(members) == [p \in members |-> feed[p].signal]
HeldReturns == [p \in {q \in DOMAIN feed : feed[q].held} |-> feed[p].return]

\* The cuts are fair: the NYSE names, all different in size, fall into deciles whose sizes
\* differ by at most one, and a larger name is never in a lower decile
\* (small_cap.py nyse_breakpoints: the rounding of each cut).
FairCuts ==
    kind = "month" =>
      LET cuts == NyseBreakpoints(feed)
          Held(d) == {i \in NyseNames(feed) : AssignDecile(MarketCap(feed[i]), cuts) = d}
          n == Cardinality(NyseNames(feed))
      IN  /\ cuts # <<>> => \A d \in 1..Deciles :
                               Cardinality(Held(d)) \in {n \div Deciles, (n + Deciles - 1) \div Deciles}
          /\ \A year \in Years : \A m, o \in SelectUniverse(feed, year) :
                m.market_cap <= o.market_cap => m.decile <= o.decile

\* The two legs of a spread never share a name and hold as many, every long ranks at or
\* below every short, whoever has no return is left out and never counted as flat, and the
\* two ways to score a year agree (seasonal.py; backtest_runner.py _long_short_returns).
LegsAreApart ==
    kind = "month" =>
      \A year \in Years :
        LET signals == SignalsOf(Members(year))
            legs    == QuintileSplit(signals)
            result  == AnnualResult(signals, HeldReturns)
            tercile == TercileLegs(signals, HeldReturns)
            Apart(low, high) ==
                /\ low \cap high = {} /\ Cardinality(low) = Cardinality(high)
                /\ \A p \in low, q \in high : signals[p] <= signals[q]
        IN  /\ Apart(legs[1], legs[2]) /\ Apart(tercile[2], tercile[1])
            /\ legs[1] # {} => Cardinality(legs[1]) >= MIN_LEG
            /\ result = NoSpread <=> SpreadReturn(legs[1], legs[2], HeldReturns) = NoSpread
            /\ result # NoSpread =>
                  /\ result.net_return = SpreadReturn(legs[1], legs[2], HeldReturns)
                  /\ result.n_long = Cardinality(legs[1] \cap DOMAIN HeldReturns)

\* A year is scored on fair cuts and on legs apart (small_cap.py, seasonal.py).
YearsAreFair == FairCuts /\ LegsAreApart

\* What a pipeline hands on when only some of its steps were done: prices made absolute,
\* report dates taken from rdq, flows differenced, links filtered.
Prices(done) == {IF "absolute" \in done /\ p < 0 THEN -p ELSE p : p \in feed.prices}
Flow(year, q, done) ==
    IF "differenced" \in done THEN year[q].flow
    ELSE SumFunctionOnSet([p \in DOMAIN year |-> year[p].flow], {p \in DOMAIN year : p <= q})
Fundamentals(done) ==
    UNION {{[fiscal_year |-> i, fiscal_quarter |-> q,
             operating_cash_flow |-> Flow(feed.filed[i], q, done),
             month_end |-> "lagged" \in done => feed.filed[i][q].month_end] :
              q \in DOMAIN feed.filed[i]} : i \in DOMAIN feed.filed}
Links(usable) == Cardinality({i \in DOMAIN feed.links : feed.links[i] = usable})
Certificate(done) ==
    Certify(Prices(done), Fundamentals(done), "merged" \in done,
            IF "filtered" \in done THEN Links(TRUE) ELSE Len(feed.links),
            IF "filtered" \in done THEN Links(FALSE) ELSE 0)

\* A clean certificate is evidence: whatever was taken in, it cannot be had with a step
\* left out that the data needed, except that raw year-to-date flows may pass when at
\* least half of the complete years had a quarter that brought in nothing or less; and a
\* run on prices alone needs no fundamentals and no links (hygiene.py certify).
CertificateIsEvidence ==
    kind = "pipeline" =>
      \A done \in SUBSET {"absolute", "merged", "lagged", "differenced", "filtered"} :
        LET full == {i \in DOMAIN feed.filed : Cardinality(DOMAIN feed.filed[i]) >= 3}
            flat == {i \in full : \E q \in DOMAIN feed.filed[i] :
                       /\ feed.filed[i][q].flow <= 0
                       /\ \E p \in DOMAIN feed.filed[i] : p < q}
        IN  /\ RequireClean(Certificate(done)) =>
                 /\ "merged" \in done
                 /\ "absolute" \in done \/ feed.prices \subseteq Nat
                 /\ "filtered" \in done \/ feed.links = <<>>
                 /\ feed.filed # <<>> => /\ "lagged" \in done
                                         /\ Cardinality(full) >= MIN_FIRM_YEARS
                                         /\ "differenced" \in done
                                            \/ 2 * Cardinality(flat) >= Cardinality(full)
            /\ {"absolute", "merged"} \subseteq done /\ feed.prices # {}
               /\ feed.filed = <<>> /\ feed.links = <<>> => RequireClean(Certificate(done))
====
