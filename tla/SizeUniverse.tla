---- MODULE SizeUniverse ----
(***************************************************************************)
(* src/universe: which securities of a month's cross-section make the      *)
(* small-cap universe, and in which NYSE size decile each one is.          *)
(*                                                                         *)
(* A row is [permno, price, shares, nyse, common]; price is negative where *)
(* CRSP reports a bid/ask average, and 0 where it has none.                *)
(***************************************************************************)
EXTENDS Integers, FiniteSets, FiniteSetsExt

CONSTANTS Deciles,        \* _DECILES
          MinCap, MaxCap, \* UniverseSpec's band, in dollars of BaseYear
          MinPrice,
          Cpi, BaseYear,  \* CPI_U_ANNUAL, in whole numbers
          NoCap           \* market_cap_from_row found none

ASSUME SizesAssumption == Deciles \in Nat \ {0} /\ NoCap \notin Int

Price(row) == IF row.price < 0 THEN -row.price ELSE row.price

MarketCap(row) == IF row.price = 0 \/ row.shares <= 0 THEN NoCap ELSE Price(row) * row.shares

\* round of a / b, a half going to the even neighbour.
Rounded(a, b) ==
    LET low == a \div b
    IN  IF 2 * (a % b) < b \/ (2 * (a % b) = b /\ low % 2 = 0) THEN low ELSE low + 1

NyseNames(rows) == {i \in DOMAIN rows : rows[i].nyse /\ MarketCap(rows[i]) # NoCap}

\* The k-th of the NYSE caps in ascending order: the least that k of them do not exceed.
RankedCap(rows, k) ==
    LET nyse == NyseNames(rows)
        Upto(i) == {j \in nyse : MarketCap(rows[j]) <= MarketCap(rows[i])}
    IN  Min({MarketCap(rows[i]) : i \in {j \in nyse : Cardinality(Upto(j)) >= k}})

\* A slip of NyseBreakpoints, for the runs to refute.
BreakpointsRoundedUp(rows) ==
    LET n == Cardinality(NyseNames(rows))
    IN  IF n < Deciles THEN <<>>
        ELSE [i \in 1..(Deciles - 1) |-> RankedCap(rows, Min({n, (n * i) \div Deciles + 2}))]

NyseBreakpoints(rows) ==
    LET n == Cardinality(NyseNames(rows))
    IN  IF n < Deciles THEN <<>>
        ELSE [i \in 1..(Deciles - 1) |-> RankedCap(rows, Rounded(n * i, Deciles) + 1)]

\* The cuts ascend, so those not above the cap are the first ones.
AssignDecile(cap, breakpoints) ==
    Min({Deciles, 1 + Cardinality({i \in DOMAIN breakpoints : breakpoints[i] <= cap})})

\* to_base_year_dollars and deflate_bounds, kept whole: a band in dollars of the base year
\* against a cap in dollars of the year.  A year outside the series is an error.
InBand(cap, year) ==
    /\ MinCap * Cpi[year] <= cap * Cpi[BaseYear]
    /\ cap * Cpi[BaseYear] <= MaxCap * Cpi[year]

Selected(row, year) ==
    /\ MarketCap(row) # NoCap
    /\ row.common
    /\ Price(row) >= MinPrice
    /\ InBand(MarketCap(row), year)

\* select_universe, but for the order the members are listed in.
SelectUniverse(rows, year) ==
    LET breakpoints == NyseBreakpoints(rows)
    IN  {[permno |-> rows[i].permno, market_cap |-> MarketCap(rows[i]),
          decile |-> AssignDecile(MarketCap(rows[i]), breakpoints)] :
            i \in {j \in DOMAIN rows : Selected(rows[j], year)}}
====
