---- MODULE MCRecords ----
(* Instances of Records for TLC. *)
EXTENDS Records, TLC

\* A balance with one tag and a flow with two, the preferred first.
MCTags == [assets  |-> <<"Assets">>,
           revenue |-> <<"Revenues", "SalesRevenueNet">>]

MCPeriods == {<<1, "Q3">>, <<1, "FY">>}

MCLastDay == [edgar |-> 3, compustat |-> 3, ccm |-> 4, crsp |-> 4, ibes |-> 3,
              book |-> 4, signals |-> 1, validation |-> 1, month |-> 1, pipeline |-> 1]
MCMaxRecords == [edgar |-> 3, compustat |-> 3, ccm |-> 3, crsp |-> 4, ibes |-> 7,
                 book |-> 4, signals |-> 3, validation |-> 5, month |-> 6, pipeline |-> 5]

\* Not all names trade every day.
MCSessions == {[a |-> 1], [a |-> 2, b |-> 2], [a |-> 1, b |-> 1]}

\* Signals of two dates over three names: like one another, unlike, flat, and too thin.
Scores(x, y, z) == [x |-> x, y |-> y, z |-> z]
MCSignals == [1..2 -> {Scores(1, 2, 3), Scores(1, 3, 2), Scores(3, 2, 1)}]
             \cup {<<Scores(1, 2, 3), Scores(1, 1, 1)>>, <<[x |-> 1], Scores(3, 2, 1)>>}
MCLabels == <<Scores(1, 2, 3), Scores(1, 2, 3)>>

\* Quoted, bid and asked, off the NYSE, cheap, and without a price.
Listing(price, nyse, common, signal, held, return) ==
    [price |-> price, nyse |-> nyse, common |-> common, signal |-> signal,
     held |-> held, return |-> return]
MCListings == {Listing(6, TRUE, TRUE, 1, TRUE, 2), Listing(-6, TRUE, TRUE, 2, FALSE, 0),
               Listing(6, FALSE, TRUE, 1, TRUE, -1), Listing(2, TRUE, TRUE, 0, TRUE, 1),
               Listing(0, TRUE, FALSE, 0, FALSE, 0)}
MCCpi == (1990 :> 1) @@ (2024 :> 2)

\* Flows that grow, that dip, that stand still over a gap, and a year cut short.
Quarter(flow, monthEnd) == [flow |-> flow, month_end |-> monthEnd]
MCFirmYears == {<<Quarter(1, FALSE), Quarter(2, FALSE), Quarter(3, TRUE)>>,
                <<Quarter(2, FALSE), Quarter(-1, FALSE), Quarter(3, FALSE)>>,
                (1 :> Quarter(2, TRUE)) @@ (2 :> Quarter(1, FALSE)) @@ (4 :> Quarter(1, FALSE)),
                <<Quarter(1, TRUE), Quarter(1, FALSE)>>}

Symmetry == Permutations(Companies) \cup Permutations(Securities) \cup Permutations(Tickers)
====
