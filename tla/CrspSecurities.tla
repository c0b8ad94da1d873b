---- MODULE CrspSecurities ----
(***************************************************************************)
(* get_prices of src/data/wrds/source.py with src/data/wrds/delisting.py:  *)
(* from a ticker and a window to the bars of one security, closed by the   *)
(* return it earned on delisting.                                          *)
(*                                                                         *)
(* db is what CRSP holds: names (who held which ticker, where, from when   *)
(* until when), daily (the days a security has a row, whether the row has  *)
(* a price, its close and its return) and delists.                         *)
(*                                                                         *)
(* Prices are on a logarithmic scale, in powers of ten, so returns add up. *)
(* A bar keeps its day, its close and its adjusted close; the terminal bar *)
(* keeps those of the bar before it and, in percent, the delisting return  *)
(* by which its own two differ from them.                                  *)
(***************************************************************************)
EXTENDS Integers, Sequences, FiniteSets, FiniteSetsExt, Functions

CONSTANTS CoverageEnd,    \* CRSP_COVERAGE_END
          NoPermno,       \* permno_in_window found nobody
          NoExchange,     \* exchange_for found none
          NoReturn,       \* a blank dlret
          Ruin            \* a return of -100%

IMPUTED_NYSE_AMEX == -30
IMPUTED_NASDAQ    == -55
IndexFloor        == -9
NyseAmex          == {1, 2}

Least(a, b)   == IF a <= b THEN a ELSE b
Distance(a, b) == IF a <= b THEN b - a ELSE a - b

\* The index of the first row for which Score is largest.
FirstBest(indices, Score(_)) ==
    CHOOSE i \in indices : \A j \in indices :
        \/ Score(j) < Score(i)
        \/ Score(j) = Score(i) /\ i <= j

\* (min(end, name_end) - max(start, name_start)).days; negative when they do not meet.
Overlap(name, start, end) ==
    Least(end, name.to) - (IF start >= name.from THEN start ELSE name.from)

\* permno_for: the holder on one day.
PermnoFor(names, ticker, day) ==
    LET holding == {i \in DOMAIN names : names[i].ticker = ticker
                                         /\ day \in names[i].from .. names[i].to}
    IN  IF holding = {} THEN NoPermno ELSE names[Min(holding)].permno

\* A slip of PermnoInWindow, for the runs to refute.
PermnoAtEnd(names, ticker, start, end) == PermnoFor(names, ticker, end)

PermnoInWindow(names, ticker, start, end) ==
    LET meeting == {i \in DOMAIN names : names[i].ticker = ticker
                                         /\ Overlap(names[i], start, end) >= 0}
        OverlapOf(i) == Overlap(names[i], start, end)
    IN  IF meeting = {} THEN NoPermno ELSE names[FirstBest(meeting, OverlapOf)].permno

\* exchange_for: the name row around the day decides.
ExchangeFor(names, permno, day) ==
    LET rows == {i \in DOMAIN names : names[i].permno = permno}
        Nearness(i) == IF day \in names[i].from .. names[i].to THEN 0
                       ELSE - Least(Distance(day, names[i].from), Distance(day, names[i].to))
    IN  IF rows = {} THEN NoExchange ELSE names[FirstBest(rows, Nearness)].exchcd

\* DelistingEvent.effective_return.
EffectiveReturn(event, exchcd) ==
    IF event.dlret # NoReturn THEN event.dlret
    ELSE IF event.code < 400 THEN 0
    ELSE IF exchcd \in NyseAmex THEN IMPUTED_NYSE_AMEX ELSE IMPUTED_NASDAQ

\* The total-return index of a security on a day: the returns of its priced rows but the
\* first, compounded.  Once it is zero it stays there, and counts as the floor.  (An index
\* that is not zero is taken to lie above the floor.)
Index(rows, day) ==
    LET earned == {r \in rows : r.date <= day /\ \E q \in rows : q.date < r.date}
    IN  IF \E r \in earned : r.ret = Ruin THEN IndexFloor
        ELSE SumFunction([r \in earned |-> r.ret])

LastOf(dated) == CHOOSE d \in dated : \A other \in dated : other.date <= d.date

\* The scale at which the last adjusted close of the whole table is the last close.
Anchor(rows) == LastOf(rows).close - Index(rows, LastOf(rows).date)

\* _to_bars: a row without a price gives no bar.
ToBars(daily, permno, start, end) ==
    LET rows == {r \in daily : r.permno = permno /\ r.priced}
    IN  {[date |-> r.date, close |-> r.close, adjusted |-> Index(rows, r.date) + Anchor(rows),
          terminal |-> 0] : r \in {q \in rows : q.date \in start..end}}

Terminal(bars, event, dlret) == [LastOf(bars) EXCEPT !.date = event.date, !.terminal = dlret]

\* A slip of ApplyDelisting, for the runs to refute.
ApplyEvenStale(bars, event, exchcd) ==
    LET dlret == EffectiveReturn(event, exchcd)
    IN  IF bars = {} \/ dlret = 0 THEN bars
        ELSE bars \cup {Terminal(bars, event, dlret)}

ApplyDelisting(bars, event, exchcd) ==
    LET dlret == EffectiveReturn(event, exchcd)
    IN  IF bars = {} \/ event.date < LastOf(bars).date \/ dlret = 0 THEN bars
        ELSE bars \cup {Terminal(bars, event, dlret)}

\* The first row of the security that parses and is not after the window.
WithDelisting(db, permno, bars, end) ==
    LET within == {i \in DOMAIN db.delists : /\ db.delists[i].permno = permno
                                             /\ db.delists[i].code >= 200
                                             /\ db.delists[i].date <= end}
        event  == db.delists[Min(within)]
    IN  IF within = {} THEN bars
        ELSE ApplyDelisting(bars, event, ExchangeFor(db.names, permno, event.date))

GetPrices(db, ticker, start, end) ==
    LET permno == PermnoInWindow(db.names, ticker, start, Least(end, CoverageEnd))
        bars   == ToBars(db.daily, permno, start, end)
    IN  IF permno = NoPermno THEN {}
        ELSE IF bars = {} THEN bars ELSE WithDelisting(db, permno, bars, end)
====
