------------------------------- MODULE PublicSource -------------------------------
(***************************************************************************)
(* The fetch loops of src/data/public: get_fundamentals and top_tickers of  *)
(* edgar.py, get_prices of yahoo.py, behind one PublicSource.  Each vendor  *)
(* has an HttpClient of its own; EDGAR's keeps a polite interval.  A call   *)
(* walks over its tickers and makes one request for each; EDGAR needs the   *)
(* listing first, which it fetches once and keeps.                          *)
(*                                                                         *)
(* The vendors are external.  Any listing may be served, any status, and a  *)
(* body that does not parse or that the contract rejects.  Whether a name   *)
(* was read is kept of an answer, not its rows: EdgarFundamentals has those. *)
(***************************************************************************)
EXTENDS Naturals, Sequences, SequencesExt

CONSTANTS Tickers,        \* the symbols
          Cik,            \* the company of each
          MaxNames,       \* bound: how many tickers one call asks for
          MaxRetries, BackoffBase, PoliteInterval,
          NoListing       \* Python's None

VARIABLES edgar, edgarRested, edgarSent,    \* EdgarClient._http
          yahoo, yahooRested, yahooSent,    \* YahooPriceClient._http
          listing,   \* EdgarClient._listing
          call,      \* the call under way
          refusals   \* history: the positions of `names` that a vendor said it has no data for

edgarVars == <<edgar, edgarRested, edgarSent>>
yahooVars == <<yahoo, yahooRested, yahooSent>>
vars      == <<edgarVars, yahooVars, listing, call, refusals>>

Edgar == INSTANCE HttpClient WITH http <- edgar, rested <- edgarRested, sent <- edgarSent,
                                  MinInterval <- PoliteInterval
Yahoo == INSTANCE HttpClient WITH http <- yahoo, rested <- yahooRested, sent <- yahooSent,
                                  MinInterval <- 0

Lists(n) == UNION {[1..k -> Tickers] : k \in 0..n}

\* What the SEC may serve: every ticker at most once, in some order.
Listings == {l \in Lists(Cardinality(Tickers)) : IsInjective(l)}

ASSUME PublicAssumption ==
    /\ Cik \in [Tickers -> Nat]
    /\ NoListing \notin Seq(Tickers)
    /\ {MaxNames, MaxRetries, BackoffBase, PoliteInterval} \subseteq Nat

\* `at` is the place in `names`, `read` the places that contributed records.  A call of
\* top_tickers has a size and ends with its answer in `names`.
Kinds    == {"prices", "fundamentals", "top"}
Waiting  == {"listing", "facts", "chart"}
Outcomes == {"returned", "raised"}

Call(kind, names, size) == [kind |-> kind, names |-> names, size |-> size,
                            step |-> "loop", at |-> 1, read |-> {}]

Init ==
    /\ Edgar!HttpInit /\ Yahoo!HttpInit
    /\ listing = NoListing
    /\ call = [Call("prices", <<>>, 0) EXCEPT !.step = "returned"]
    /\ refusals = {}

Ended == call.step \in Outcomes
Looping == call.step = "loop" /\ call.kind # "top" /\ call.at <= Len(call.names)
Ticker  == call.names[call.at]

Ends(outcome) == call' = [call EXCEPT !.step = outcome]
Goes(step)    == call' = [call EXCEPT !.step = step]
Read          == call' = [call EXCEPT !.step = "loop", !.at = @ + 1, !.read = @ \cup {call.at}]
Skip          == call' = [call EXCEPT !.step = "loop", !.at = @ + 1]

--------------------------------------------------------------------------------

\* A window that ends before it starts, or a size of zero: nothing is requested.
Reject(kind) ==
    /\ Ended
    /\ call' = [Call(kind, <<>>, 0) EXCEPT !.step = "raised"]
    /\ refusals' = {}
    /\ UNCHANGED <<edgarVars, yahooVars, listing>>

GetPrices(names) ==
    /\ Ended
    /\ call' = Call("prices", names, 0)
    /\ refusals' = {}
    /\ UNCHANGED <<edgarVars, yahooVars, listing>>

GetFundamentals(names) ==
    /\ Ended
    /\ call' = Call("fundamentals", names, 0)
    /\ refusals' = {}
    /\ UNCHANGED <<edgarVars, yahooVars, listing>>

GetTopTickers(size) ==
    /\ Ended
    /\ call' = Call("top", <<>>, size)
    /\ refusals' = {}
    /\ UNCHANGED <<edgarVars, yahooVars, listing>>

\* _get_listing without a listing.  Only its answer changes the cache.
AskListing ==
    /\ listing = NoListing
    /\ (Looping /\ call.kind = "fundamentals") \/ (call.step = "loop" /\ call.kind = "top")
    /\ Edgar!GetBytes
    /\ Goes("listing")
    /\ UNCHANGED <<yahooVars, listing, refusals>>

TakeListing ==
    /\ call.step = "listing" /\ edgar.step = "answered"
    /\ \/ /\ listing' \in Listings
          /\ Goes("loop")
       \/ UNCHANGED listing /\ Ends("raised")
    /\ edgar' = [edgar EXCEPT !.step = "idle"]
    /\ UNCHANGED <<edgarRested, edgarSent, yahooVars, refusals>>

LoseListing ==
    /\ call.step = "listing" /\ edgar.step \in {"failed", "raised"}
    /\ Ends("raised")
    /\ edgar' = [edgar EXCEPT !.step = "idle"]
    /\ UNCHANGED <<edgarRested, edgarSent, yahooVars, listing, refusals>>

\* The first tickers of the listing, one for each company.
TopTickersPerListing(entries, size) == SubSeq(entries, 1, IF size < Len(entries) THEN size
                                                          ELSE Len(entries))

TopTickers(entries, size) ==
    FoldLeft(LAMBDA top, ticker :
               IF Len(top) = size \/ \E i \in DOMAIN top : Cik[top[i]] = Cik[ticker]
               THEN top ELSE Append(top, ticker),
             <<>>, entries)

ReturnTop ==
    /\ call.step = "loop" /\ call.kind = "top" /\ listing # NoListing
    /\ call' = [call EXCEPT !.names = TopTickers(listing, call.size), !.step = "returned"]
    /\ UNCHANGED <<edgarVars, yahooVars, listing, refusals>>

\* cik_for outside the try block: a ticker that is not listed ends the whole call.
AskFacts ==
    /\ Looping /\ call.kind = "fundamentals" /\ listing # NoListing
    /\ \/ /\ Ticker \in Range(listing)
          /\ Edgar!GetBytes
          /\ Goes("facts")
       \/ /\ Ticker \notin Range(listing)
          /\ Ends("raised")
          /\ UNCHANGED edgarVars
    /\ UNCHANGED <<yahooVars, listing, refusals>>

\* The rows are joined, or the body does not parse or a row breaks the contract.
TakeFacts ==
    /\ call.step = "facts" /\ edgar.step = "answered"
    /\ Read \/ Ends("raised")
    /\ edgar' = [edgar EXCEPT !.step = "idle"]
    /\ UNCHANGED <<edgarRested, edgarSent, yahooVars, listing, refusals>>

\* Faulty variant: any DataAPIError skips the ticker.
MissFactsAlways ==
    /\ call.step = "facts" /\ edgar.step \in {"failed", "raised"}
    /\ IF edgar.step = "failed" THEN Skip ELSE Ends("raised")
    /\ edgar' = [edgar EXCEPT !.step = "idle"]
    /\ UNCHANGED <<edgarRested, edgarSent, yahooVars, listing, refusals>>

\* A trust or fund without companyfacts answers 404 and is skipped.
MissFacts ==
    /\ call.step = "facts" /\ edgar.step \in {"failed", "raised"}
    /\ IF edgar.step = "failed" /\ edgar.status = "missing" THEN Skip ELSE Ends("raised")
    /\ edgar' = [edgar EXCEPT !.step = "idle"]
    /\ UNCHANGED <<edgarRested, edgarSent, yahooVars, listing, refusals>>

AskChart ==
    /\ Looping /\ call.kind = "prices"
    /\ Yahoo!GetBytes
    /\ Goes("chart")
    /\ UNCHANGED <<edgarVars, listing, refusals>>

\* _parse_chart: bars, or none; an error payload, which counts as status 0; or an exception.
TakeChart ==
    /\ call.step = "chart" /\ yahoo.step = "answered"
    /\ \/ (Read \/ Ends("raised")) /\ UNCHANGED refusals
       \/ Skip /\ refusals' = refusals \cup {call.at}
    /\ yahoo' = [yahoo EXCEPT !.step = "idle"]
    /\ UNCHANGED <<edgarVars, yahooRested, yahooSent, listing>>

\* _SKIPPABLE_STATUS: 0, 400 and 404.
MissChart ==
    /\ call.step = "chart" /\ yahoo.step \in {"failed", "raised"}
    /\ IF yahoo.step = "failed" /\ yahoo.status \in {"none", "malformed", "missing"}
          THEN Skip ELSE Ends("raised")
    /\ yahoo' = [yahoo EXCEPT !.step = "idle"]
    /\ UNCHANGED <<edgarVars, yahooRested, yahooSent, listing, refusals>>

\* The loop has run over all names.
Return ==
    /\ call.step = "loop" /\ call.kind # "top" /\ call.at > Len(call.names)
    /\ Ends("returned")
    /\ UNCHANGED <<edgarVars, yahooVars, listing, refusals>>

\* A request goes out and its status comes back, or the transport raises.
EdgarTransport ==
    /\ \/ Edgar!Lose /\ UNCHANGED refusals
       \/ \E status \in Edgar!Statuses :
            /\ Edgar!Send(status)
            /\ refusals' = IF call.step = "facts" /\ status = "missing"
                           THEN refusals \cup {call.at} ELSE refusals
    /\ UNCHANGED <<yahooVars, listing, call>>

YahooTransport ==
    /\ \/ Yahoo!Lose /\ UNCHANGED refusals
       \/ \E status \in Yahoo!Statuses :
            /\ Yahoo!Send(status)
            /\ refusals' = IF status \in {"malformed", "missing"}
                           THEN refusals \cup {call.at} ELSE refusals
    /\ UNCHANGED <<edgarVars, listing, call>>

Next ==
    \/ \E kind \in Kinds : Reject(kind)
    \/ \E names \in Lists(MaxNames) : GetPrices(names) \/ GetFundamentals(names)
    \/ \E size \in 1..Cardinality(Tickers) : GetTopTickers(size)
    \/ AskListing \/ TakeListing \/ LoseListing \/ ReturnTop
    \/ AskFacts \/ TakeFacts \/ MissFacts
    \/ AskChart \/ TakeChart \/ MissChart
    \/ Return \/ EdgarTransport \/ YahooTransport

Spec == Init /\ [][Next]_vars

--------------------------------------------------------------------------------
(* Properties                                                                   *)

\* The two clients, the cache and the call are of the kinds the code gives them.
TypeOK ==
    /\ Edgar!HttpTypeOK /\ Yahoo!HttpTypeOK
    /\ listing \in Seq(Tickers) \cup {NoListing}
    /\ call \in [kind : Kinds, names : Seq(Tickers), size : Nat,
                 step : {"loop"} \cup Waiting \cup Outcomes, at : Nat, read : SUBSET Nat]
    /\ refusals \subseteq Nat

\* A universe is returned without exactly the names the vendor has no data for, and such a
\* name never ends a call: an outage, a rate limit or a failed request in the middle of the
\* loop never passes for "no data" (edgar.py get_fundamentals, yahoo.py get_prices).
NamesAreAccounted ==
    /\ call.step = "returned" /\ call.kind # "top" =>
          call.read = DOMAIN call.names \ refusals
    /\ call.step = "raised" => call.at \notin refusals

\* top_tickers names one ticker for each company, as many companies as were asked for or
\* are listed, and none that the listing ranks behind one it leaves out (edgar.py
\* top_tickers).
CompaniesOnce ==
    call.step = "returned" /\ call.kind = "top" =>
        LET ciks  == {Cik[ticker] : ticker \in Range(listing)}
            First(cik) == CHOOSE i \in DOMAIN listing :
                            /\ Cik[listing[i]] = cik
                            /\ \A j \in 1..(i - 1) : Cik[listing[j]] # cik
            named == {Cik[ticker] : ticker \in Range(call.names)}
        IN  /\ IsInjective([i \in DOMAIN call.names |-> Cik[call.names[i]]])
            /\ Len(call.names) = IF call.size < Cardinality(ciks) THEN call.size
                                 ELSE Cardinality(ciks)
            /\ Range(call.names) \subseteq {listing[First(cik)] : cik \in ciks}
            /\ \A cik \in ciks \ named, other \in named : First(other) < First(cik)

\* Listing, facts and retries share one client: no request to the SEC follows the one before
\* by less than the polite interval, whatever failed in between (edgar.py POLITE_INTERVAL_S,
\* http.py get_bytes).
EdgarIsPolite == Edgar!Polite
================================================================================
