------------------------------ MODULE MCPublicSource ------------------------------
(* Three tickers of two companies: two of them are share classes of one.           *)
EXTENDS PublicSource

MCTickers == {"A", "B", "B2"}

MCCik == [ticker \in MCTickers |-> IF ticker = "A" THEN 1 ELSE 2]
================================================================================
