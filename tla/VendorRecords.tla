---- MODULE VendorRecords ----
(***************************************************************************)
(* The vendors' records over time, and what the sources of src/data answer *)
(* about them.  A vendor's feed grows day by day; a source is asked on     *)
(* some day about a window that may be long past.  The question for every  *)
(* source is the same: does the answer about a window use only what was    *)
(* known when the window ended?                                            *)
(*                                                                         *)
(* The feeds are external: what the vendors do is bounded by what the      *)
(* sources rely on.                                                        *)
(***************************************************************************)
EXTENDS Feeds, EdgarFundamentals, CompustatFundamentals, CcmLinks, CrspSecurities,
        AnalystEstimates

CONSTANTS Periods,     \* fiscal periods of EDGAR filings
          Companies, Securities,
          Analysts, Tickers

\* The days that are followed are days CRSP covers.
ASSUME CoverageAssumption == /\ CoverageEnd \in Nat
                             /\ LastDay["crsp"] \in 1..(CoverageEnd - 1)
                             /\ NoPermno \notin Securities

\* The file lists the analysts by number.
ASSUME AnalystsAssumption == Analysts \subseteq Int

NoSecurity == [names |-> <<>>, daily |-> {}, delists |-> <<>>]
NoAnalyst  == [estimates |-> {}, actuals |-> {}]

EmptyFeed(vendor) == CASE vendor = "crsp" -> NoSecurity
                       [] vendor = "ibes" -> NoAnalyst
                       [] vendor = "ccm"  -> <<>>
                       [] OTHER -> {}

---------------------------------------------------------------------------
\* EDGAR: a filing discloses a fact today.  (Bound: 10-Qs are for quarters, 10-Ks for years.)
Disclose ==
    /\ kind = "edgar"
    /\ Cardinality(feed) < MaxRecords[kind]
    /\ \E field \in Fields, period \in Periods, form \in Forms, span \in Spans :
         \E i \in DOMAIN Tags[field] :
            /\ form \in OriginalForms => (form = "10-K") = (period[2] = "FY")
            /\ Tags[field][i] \in Instants => span # "ytd"
            /\ feed' = feed \cup {[tag |-> Tags[field][i], period |-> period,
                                   filed |-> today, form |-> form, span |-> span]}
    /\ UNCHANGED <<kind, today>>

\* Compustat: a quarter is loaded, on the day it was reported or undated.
\* (Bound: a row that the screens reject is otherwise one that would count.)
Load ==
    /\ kind = "compustat"
    /\ Cardinality(feed) < MaxRecords[kind]
    /\ \E fyear \in 1..2, fqtr \in 1..3, rdq \in {today, Undated},
          ytd \in {NoFigure, -1, 2}, screened, sound \in BOOLEAN :
         /\ ~screened => sound /\ ytd = 2
         /\ screened => ~\E r \in feed : r.screened /\ r.fyear = fyear /\ r.fqtr = fqtr
         /\ feed' = feed \cup {[fyear |-> fyear, fqtr |-> fqtr, rdq |-> rdq, ytd |-> ytd,
                                screened |-> screened, sound |-> sound]}
    /\ UNCHANGED <<kind, today>>

\* CCM: a link begins today.  Primary links of a company, or of a security, do not overlap.
Link ==
    /\ kind = "ccm"
    /\ Len(feed) < MaxRecords[kind]
    /\ \E gvkey \in Companies, permno \in Securities, type \in LinkTypes, prim \in LinkPrims :
         LET link == [gvkey |-> gvkey, permno |-> permno, linktype |-> type,
                      linkprim |-> prim, start |-> today, end |-> NoDate]
         IN  /\ prim = "P" =>
                  ~\E i \in DOMAIN feed : /\ feed[i].linkprim = "P" /\ Covers(feed[i], today)
                                          /\ feed[i].gvkey = gvkey \/ feed[i].permno = permno
             /\ feed' = Append(feed, link)
    /\ UNCHANGED <<kind, today>>

\* CCM: a link ended yesterday.
Unlink ==
    /\ kind = "ccm"
    /\ \E i \in DOMAIN feed : /\ feed[i].end = NoDate
                              /\ feed[i].start < today
                              /\ feed' = [feed EXCEPT ![i].end = today - 1]
    /\ UNCHANGED <<kind, today>>

\* A name that has not ended runs to the end of the file's coverage.
Listed(name) == name.to = CoverageEnd

\* What a day brings a security: nothing, no price, a gain (which leaves the price again by
\* a dividend or a split, on a day that is otherwise quiet), or the loss of everything.
Quiet    == [priced |-> TRUE, close |-> 0, ret |-> 0]
Outcomes == {Quiet, [Quiet EXCEPT !.priced = FALSE],
             [Quiet EXCEPT !.close = 1, !.ret = 1], [Quiet EXCEPT !.ret = Ruin]}

\* A listing, an exit and a row that is not quiet are records each.
SecurityRecords ==
    Len(feed.names) + Len(feed.delists)
    + Cardinality({r \in feed.daily : [priced |-> r.priced, close |-> r.close, ret |-> r.ret] # Quiet})

\* CRSP: a security is listed, or renamed from today on; a ticker has one holder at a time.
\* (Bound: a new name comes with a move from the NYSE to NASDAQ.)
ListAs ==
    /\ kind = "crsp"
    /\ SecurityRecords < MaxRecords[kind]
    /\ \E permno \in Securities, ticker \in {"OLD", "NEW"} :
         /\ \A i \in DOMAIN feed.names :
              /\ feed.names[i].ticker = ticker => feed.names[i].to < today
              /\ feed.names[i].permno = permno =>
                    feed.names[i].from < today /\ feed.names[i].to # today
         /\ feed' = [feed EXCEPT
              !.names = Append(
                 [i \in DOMAIN @ |-> IF @[i].permno = permno /\ Listed(@[i])
                                     THEN [@[i] EXCEPT !.to = today - 1] ELSE @[i]],
                 [permno |-> permno, ticker |-> ticker,
                  exchcd |-> IF ticker = "OLD" THEN 1 ELSE 3,
                  from |-> today, to |-> CoverageEnd])]
    /\ UNCHANGED <<kind, today>>

\* Still listed, merged, dropped without and with a reported return.
Exits == {[code |-> 100, dlret |-> NoReturn], [code |-> 231, dlret |-> NoReturn],
          [code |-> 574, dlret |-> NoReturn], [code |-> 574, dlret |-> -60]}

\* CRSP: a security is delisted today (code 100 only says that it is still listed).
Delist ==
    /\ kind = "crsp"
    /\ SecurityRecords < MaxRecords[kind]
    /\ \E i \in DOMAIN feed.names, exit \in Exits :
         /\ Listed(feed.names[i])
         /\ feed' = [feed EXCEPT
              !.names[i].to = IF exit.code = 100 THEN @ ELSE today,
              !.delists = Append(@, [permno |-> feed.names[i].permno, date |-> today,
                                     code |-> exit.code, dlret |-> exit.dlret])]
    /\ UNCHANGED <<kind, today>>

ListedToday == {feed.names[i].permno :
                  i \in {j \in DOMAIN feed.names :
                           today \in feed.names[j].from .. feed.names[j].to}}

\* A row of IBES that the screens reject counts for two.
Weighs(rejected) == IF rejected THEN 2 ELSE 1
EstimateRecords ==
    Cardinality(feed.estimates) + Cardinality({e \in feed.estimates : ~e.quarterly})
    + Cardinality(feed.actuals) + Cardinality({a \in feed.actuals : a.date = Unannounced})

\* (Bound: the last day takes new rows only up to two fewer.)
EstimateRoom == IF today = LastDay[kind] THEN MaxRecords[kind] - 2 ELSE MaxRecords[kind]

\* IBES: an analyst estimates, once a day, what a company will report.
Estimate ==
    /\ kind = "ibes"
    /\ \E analyst \in Analysts, ticker \in Tickers, value \in {0, 1}, quarterly \in BOOLEAN :
         /\ ~\E e \in feed.estimates : e.analyst = analyst /\ e.ticker = ticker /\ e.date = today
         /\ ~quarterly => value = 1
         /\ EstimateRecords + Weighs(~quarterly) <= EstimateRoom
         /\ feed' = [feed EXCEPT !.estimates = @ \cup
                       {[analyst |-> analyst, ticker |-> ticker, date |-> today,
                         value |-> value, quarterly |-> quarterly]}]
    /\ UNCHANGED <<kind, today>>

\* IBES: a company's figure comes out, once, dated or not.
Report ==
    /\ kind = "ibes"
    /\ \E ticker \in Tickers, date \in {today, Unannounced} :
         /\ ~\E a \in feed.actuals : a.ticker = ticker
         /\ EstimateRecords + Weighs(date = Unannounced) <= EstimateRoom
         /\ feed' = [feed EXCEPT !.actuals = @ \cup
                       {[ticker |-> ticker, date |-> date, value |-> 1, quarterly |-> TRUE]}]
    /\ UNCHANGED <<kind, today>>

\* What the day's end adds: CRSP has a row for every listed security.
DayRows == IF kind # "crsp" THEN {feed}
           ELSE {[feed EXCEPT !.daily = @ \cup
                    {[permno |-> p, date |-> today, priced |-> day[p].priced,
                      close |-> day[p].close, ret |-> day[p].ret] : p \in ListedToday}] :
                   day \in {d \in [ListedToday -> Outcomes] :
                             SecurityRecords + Cardinality({p \in ListedToday : d[p] # Quiet})
                             <= MaxRecords[kind]}}

VendorNext == Disclose \/ Load \/ Link \/ Unlink \/ ListAs \/ Delist \/ Estimate \/ Report
---------------------------------------------------------------------------
\* What each vendor had told by the end of a day.  (Tables grow at their end, so what stood
\* in one is the beginning of it.)
FactsBy(day) == {e \in feed : e.filed <= day}
QuartersBy(day) == {r \in feed : r.rdq # Undated /\ r.rdq <= day}
LinksBy(day) ==
    [i \in {j \in DOMAIN feed : feed[j].start <= day} |->
        IF feed[i].end # NoDate /\ feed[i].end >= day
        THEN [feed[i] EXCEPT !.end = NoDate] ELSE feed[i]]
NamesBy(day) ==
    [i \in {j \in DOMAIN feed.names : feed.names[j].from <= day} |->
        IF feed.names[i].to > day
        THEN [feed.names[i] EXCEPT !.to = CoverageEnd] ELSE feed.names[i]]
SecuritiesBy(day) ==
    [names   |-> NamesBy(day),
     daily   |-> {r \in feed.daily : r.date <= day},
     delists |-> [i \in {j \in DOMAIN feed.delists : feed.delists[j].date <= day} |->
                    feed.delists[i]]]

\* A filing after the day carries a period under a tag preferred to the one it had then.
Shadowed(period, day) ==
    \E field \in Fields :
        LET then == Carriers(FactsBy(day), field, period)
        IN  then # {} /\ Min(Carriers(feed, field, period)) < Min(then)

\* An earlier quarter of the year was reported after the day.
Overtaken(row, day) ==
    \E q \in Usable(feed) : /\ q.fyear = row.fiscal_year
                            /\ q.fqtr < row.fiscal_quarter
                            /\ q.rdq > day

\* EDGAR history is never rewritten: what a query up to a past day returns is what it
\* returned on that day, whatever was filed, amended or compared since, unless a later
\* filing carries the period under a preferred tag (edgar.py _rows_for, _beats).
EdgarPointInTime ==
    kind = "edgar" =>
      \A day \in Past : \A start \in Asked(day) :
        LET now  == EdgarRows(feed, start, day)
            then == EdgarRows(FactsBy(day), start, day)
            New(rows) == {r \in rows :
                \A p \in Periods : Shadowed(p, day) =>
                    r.fiscal_year # p[1] \/ r.fiscal_quarter # FiscalQuarter(p[2])}
        IN  New(now) = New(then)

\* The same without the exception, as the module's docstring promises it (edgar.py:10).
NeverRewritten ==
    kind = "edgar" =>
      \A day \in Past :
        EdgarRows(feed, 1, day) = EdgarRows(FactsBy(day), 1, day)

\* A filing that tags a flow several ways enters with the current quarter: no year-to-date
\* or year-ago figure is used when the winning tag gave the quarter's own as early
\* (edgar.py _beats, _duration_days).
CurrentFigures ==
    kind = "edgar" =>
      \A row \in EdgarRows(feed, 1, today) : \A field \in Fields :
        LET used == row.figures[field]
        IN  (\E e \in feed : /\ e.form \in OriginalForms
                             /\ e.span = "quarter"
                             /\ e.tag = used.tag /\ e.period = used.period
                             /\ e.filed <= used.filed)
            => used.span = "quarter"

\* Compustat: the fundamentals of a past window are those one would have had at its end,
\* and the window only selects them, unless an earlier quarter of the year was reported
\* late (source.py _to_fundamentals: the walk precedes the window filter).
CompustatPointInTime ==
    kind = "compustat" =>
      \A day \in Past : \A start \in Asked(day) :
        LET OnTime(rows) == {r \in rows : ~Overtaken(r, day)}
        IN  OnTime(CompustatRows(feed, start, day)) =
            OnTime({r \in CompustatRows(QuartersBy(day), 1, day) : r.report_date >= start})

\* The quarterly flows of a year add up to its last year-to-date figure, whichever
\* quarters are missing, unusable or outside the window (source.py prior_ytd).
FlowsAddUp ==
    kind = "compustat" =>
      \A fyear \in {r.fyear : r \in feed} :
        LET told == {r \in Usable(feed) : r.fyear = fyear /\ r.ytd # NoFigure}
        IN  told # {} =>
              SumFunction([r \in told |-> QuarterlyFlow(feed, r)]) = Latest(told).ytd

\* Links: whom a company, or a security, is linked to on a past day does not change when
\* links begin or end later (ccm_link.py covers).
LinksPointInTime ==
    kind = "ccm" =>
      \A day \in Past :
        /\ \A g \in Companies : PermnoForGvkey(feed, g, day) = PermnoForGvkey(LinksBy(day), g, day)
        /\ \A p \in Securities : GvkeyForPermno(feed, p, day) = GvkeyForPermno(LinksBy(day), p, day)

\* A name is joined once: the two directions agree on every day, so no second company
\* reaches a security through a joiner or an expired link (ccm_link.py parse_link_row).
JoinedOnce ==
    kind = "ccm" =>
      \A day \in 1..today : \A g \in Companies :
        LET p == PermnoForGvkey(feed, g, day)
        IN  p # NoMatch => GvkeyForPermno(feed, p, day) = g

Holders(ticker, start, end) ==
    {feed.names[i].permno : i \in {j \in DOMAIN feed.names :
        feed.names[j].ticker = ticker /\ Overlap(feed.names[j], start, end) >= 0}}

\* The same bars, with all adjusted closes multiplied by one factor.
Rescaled(bars, factor) == {[b EXCEPT !.adjusted = @ + factor] : b \in bars}

SameButForScale(now, then) ==
    \/ now = {} /\ then = {}
    \/ \E factor \in {b.adjusted - c.adjusted : b \in now, c \in then} :
          now = Rescaled(then, factor)

\* CRSP: the bars of a past window do not change when a ticker is recycled, a security
\* renamed or a delisting recorded after it, nor with the day since then on which the
\* source took its copy of the names; and what is traded, paid or lost later moves their
\* adjusted closes only all together, so no return between two of them changes.  (It does
\* move their level: the index is anchored at the last close of the whole table.)
\* (source.py _stocknames, permno_in_window, _to_bars, _with_delisting).
PricesPointInTime ==
    kind = "crsp" =>
      \A w \in Windows : \A then \in {SecuritiesBy(w[2])},
                            db \in {[feed EXCEPT !.names = NamesBy(copied)] : copied \in w[2]..today} :
        \A ticker \in {"OLD", "NEW"} :
           SameButForScale(GetPrices(db, ticker, w[1], w[2]), GetPrices(then, ticker, w[1], w[2]))

\* IBES: the signal as of a past day is the one computed that day: no later estimate, and
\* no figure, enters it or the analysts' records (truebeats.py, analyst_accuracy.py).
EstimatesPointInTime ==
    kind = "ibes" =>
      \A day \in Past : SignalAsOf(feed.estimates, feed.actuals, day, today)
                       = SignalAsOf(feed.estimates, feed.actuals, day, day)

\* The consensus leans to the right analyst: when two cover a name and one has beaten the
\* other on every figure so far, by what both said last before the figure came out, the
\* expert beat moves from the simple consensus towards that one's view, or stays.  What was
\* said of a figure with hindsight makes nobody right
\* (analyst_accuracy.py, truebeats.py expert_consensus).
ConsensusLeansRight ==
    kind = "ibes" =>
      \A ticker \in Tickers : \A right, wrong \in Announced(feed.estimates, 1, today) :
        LET est == Announced(feed.estimates, 1, today)
            act == Announced(feed.actuals, 1, today)
            Known(a)  == {e \in est : e.date < a.date}
            Beaten(a) == LET field == LastForecasts(Known(a), a)
                         IN  {right.analyst, wrong.analyst} = DOMAIN field
                             /\ Miss(field[right.analyst], a) < Miss(field[wrong.analyst], a)
            accuracy == AnalystAccuracy(est, act, today)
        IN  /\ {e \in est : e.ticker = ticker} = {right, wrong} /\ right # wrong
            /\ act # {} /\ MinObservations <= Cardinality(act)
            /\ \A a \in act : Beaten(a)
            => ExpertBeat(est, accuracy, ticker)[1] * (right.value - wrong.value) >= 0
               /\ (right.value # wrong.value => ExpertBeat(est, accuracy, ticker)[1] # 0)

\* The dead are not dropped: a security that alone held a ticker in a window, traded in
\* it and was delisted after its last trade is returned with its loss, reported or
\* imputed, as the last bar (source.py get_prices, delisting.py apply_delisting).
DeathsAreBooked ==
    kind = "crsp" =>
      \A w \in Windows : \A ticker \in {"OLD", "NEW"} : \A i \in DOMAIN feed.delists :
        LET event  == feed.delists[i]
            trades == {r.date : r \in {q \in feed.daily : /\ q.permno = event.permno
                                                          /\ q.priced
                                                          /\ q.date \in w[1]..w[2]}}
            loss   == EffectiveReturn(event, ExchangeFor(feed.names, event.permno, event.date))
        IN  /\ Holders(ticker, w[1], w[2]) = {event.permno}
            /\ event.code >= 200
            /\ \A j \in DOMAIN feed.delists :
                  feed.delists[j].permno = event.permno /\ feed.delists[j].code >= 200 => j = i
            /\ trades # {} /\ Max(trades) <= event.date /\ event.date <= w[2]
            /\ loss # 0
            => \E b \in GetPrices(feed, ticker, w[1], w[2]) :
                  b.date = event.date /\ b.terminal = loss

\* A series is one company's: its traded bars are all the days one holder of the ticker
\* has a price in the window, and at most one terminal bar follows them all, so a stale
\* event never cuts a series that kept trading (delisting.py apply_delisting).
OneCompany ==
    kind = "crsp" =>
      \A w \in Windows : \A ticker \in {"OLD", "NEW"} :
        LET bars == GetPrices(feed, ticker, w[1], w[2])
            ends == {b \in bars : b.terminal # 0}
        IN  bars # {} =>
              /\ \E p \in Holders(ticker, w[1], w[2]) :
                    bars \ ends = ToBars(feed.daily, p, w[1], w[2])
              /\ Cardinality(ends) <= 1
              /\ \A e \in ends, b \in bars : b.date <= e.date
====
