---------------------------- MODULE PublicSourceProofs ----------------------------
(***************************************************************************)
(* For any number of names, any listing and any answers: with at least one  *)
(* attempt per request a call accounts for every name, with a backoff of at *)
(* least the polite interval requests to the SEC keep their distance, and a *)
(* universe names every company once, by rank.                              *)
(***************************************************************************)
EXTENDS PublicSource, FiniteSetTheorems, WellFoundedInduction, TLAPS

HttpRecord == [made : BOOLEAN, step : Edgar!Steps, attempt : Nat, delay : Nat,
               status : Edgar!Statuses \cup {"none"}]

\* What the steps of get_bytes do to EDGAR's client (http.py get_bytes).
LEMMA EdgarFacts ==
  ASSUME edgar \in HttpRecord
  PROVE  /\ \A s \in Edgar!Steps : [edgar EXCEPT !.step = s] \in HttpRecord
         /\ Edgar!GetBytes =>
               edgar' \in HttpRecord /\ (MaxRetries # 0 => edgar'.step = "send")
         /\ Edgar!Lose =>
               edgar' \in HttpRecord /\ edgar.step = "send" /\ edgar'.step = "raised"
         /\ \A s \in Edgar!Statuses : Edgar!Send(s) =>
               /\ edgar' \in HttpRecord /\ edgar.step = "send"
               /\ edgar'.step = "failed" => edgar'.status = s
               /\ s \in {"malformed", "missing"} => edgar'.step = "failed"
<1>1. \A s \in Edgar!Steps : [edgar EXCEPT !.step = s] \in HttpRecord
  BY DEF HttpRecord
<1>2. ASSUME Edgar!GetBytes
      PROVE  edgar' \in HttpRecord /\ (MaxRetries # 0 => edgar'.step = "send")
  BY <1>2, PublicAssumption DEF Edgar!GetBytes, HttpRecord, Edgar!Steps
<1>3. ASSUME Edgar!Lose
      PROVE  edgar' \in HttpRecord /\ edgar.step = "send" /\ edgar'.step = "raised"
  BY <1>3 DEF Edgar!Lose, HttpRecord, Edgar!Steps
<1>4. ASSUME NEW s \in Edgar!Statuses, Edgar!Send(s)
      PROVE  /\ edgar' \in HttpRecord /\ edgar.step = "send"
             /\ edgar'.step = "failed" => edgar'.status = s
             /\ s \in {"malformed", "missing"} => edgar'.step = "failed"
  <2>1. CASE s = "transient" /\ edgar.attempt + 1 < MaxRetries
    <3>1. edgar' = [edgar EXCEPT !.attempt = edgar.attempt + 1, !.delay = 2 * edgar.delay]
      BY <1>4, <2>1 DEF Edgar!Send
    <3>2. edgar.step = "send" /\ edgar.attempt + 1 \in Nat /\ 2 * edgar.delay \in Nat
      BY <1>4 DEF Edgar!Send, HttpRecord
    <3>3. \A a, d \in Nat : [edgar EXCEPT !.attempt = a, !.delay = d] \in HttpRecord
      BY DEF HttpRecord
    <3>4. edgar'.step = edgar.step
      BY <3>1 DEF HttpRecord
    <3> QED BY <2>1, <3>1, <3>2, <3>3, <3>4
  <2>2. CASE ~(s = "transient" /\ edgar.attempt + 1 < MaxRetries)
    <3>1. PICK t \in {"answered", "failed"} :
            /\ edgar' = [edgar EXCEPT !.step = t, !.status = s]
            /\ t = "answered" <=> s = "ok"
      BY <1>4, <2>2 DEF Edgar!Send
    <3>2. edgar.step = "send"
      BY <1>4 DEF Edgar!Send
    <3> QED BY <3>1, <3>2 DEF HttpRecord, Edgar!Steps
  <2> QED BY <2>1, <2>2
<1> QED BY <1>1, <1>2, <1>3, <1>4

\* The same of Yahoo's client.
LEMMA YahooFacts ==
  ASSUME yahoo \in HttpRecord
  PROVE  /\ \A s \in Yahoo!Steps : [yahoo EXCEPT !.step = s] \in HttpRecord
         /\ Yahoo!GetBytes =>
               yahoo' \in HttpRecord /\ (MaxRetries # 0 => yahoo'.step = "send")
         /\ Yahoo!Lose =>
               yahoo' \in HttpRecord /\ yahoo.step = "send" /\ yahoo'.step = "raised"
         /\ \A s \in Yahoo!Statuses : Yahoo!Send(s) =>
               /\ yahoo' \in HttpRecord /\ yahoo.step = "send"
               /\ yahoo'.step = "failed" => yahoo'.status = s
               /\ s \in {"malformed", "missing"} => yahoo'.step = "failed"
<1> USE DEF Yahoo!Steps, Edgar!Steps, Yahoo!Statuses, Edgar!Statuses
<1>1. \A s \in Yahoo!Steps : [yahoo EXCEPT !.step = s] \in HttpRecord
  BY DEF HttpRecord
<1>2. ASSUME Yahoo!GetBytes
      PROVE  yahoo' \in HttpRecord /\ (MaxRetries # 0 => yahoo'.step = "send")
  BY <1>2, PublicAssumption DEF Yahoo!GetBytes, HttpRecord
<1>3. ASSUME Yahoo!Lose
      PROVE  yahoo' \in HttpRecord /\ yahoo.step = "send" /\ yahoo'.step = "raised"
  BY <1>3 DEF Yahoo!Lose, HttpRecord
<1>4. ASSUME NEW s \in Yahoo!Statuses, Yahoo!Send(s)
      PROVE  /\ yahoo' \in HttpRecord /\ yahoo.step = "send"
             /\ yahoo'.step = "failed" => yahoo'.status = s
             /\ s \in {"malformed", "missing"} => yahoo'.step = "failed"
  <2>1. CASE s = "transient" /\ yahoo.attempt + 1 < MaxRetries
    <3>1. yahoo' = [yahoo EXCEPT !.attempt = yahoo.attempt + 1, !.delay = 2 * yahoo.delay]
      BY <1>4, <2>1 DEF Yahoo!Send
    <3>2. yahoo.step = "send" /\ yahoo.attempt + 1 \in Nat /\ 2 * yahoo.delay \in Nat
      BY <1>4 DEF Yahoo!Send, HttpRecord
    <3>3. \A a, d \in Nat : [yahoo EXCEPT !.attempt = a, !.delay = d] \in HttpRecord
      BY DEF HttpRecord
    <3>4. yahoo'.step = yahoo.step
      BY <3>1 DEF HttpRecord
    <3> QED BY <2>1, <3>1, <3>2, <3>3, <3>4
  <2>2. CASE ~(s = "transient" /\ yahoo.attempt + 1 < MaxRetries)
    <3>1. PICK t \in {"answered", "failed"} :
            /\ yahoo' = [yahoo EXCEPT !.step = t, !.status = s]
            /\ t = "answered" <=> s = "ok"
      BY <1>4, <2>2 DEF Yahoo!Send
    <3>2. yahoo.step = "send"
      BY <1>4 DEF Yahoo!Send
    <3> QED BY <3>1, <3>2 DEF HttpRecord
  <2> QED BY <2>1, <2>2
<1> QED BY <1>1, <1>2, <1>3, <1>4

--------------------------------------------------------------------------------
(* The call                                                                     *)

IsCall == \E kind, names, size, step, at, read :
            call = [kind |-> kind, names |-> names, size |-> size, step |-> step,
                    at |-> at, read |-> read]

\* A new call is at its first name and has read nothing.
LEMMA NewCall ==
  \A kind, names, size :
    /\ call' = Call(kind, names, size) =>
          /\ IsCall' /\ call'.kind = kind /\ call'.names = names /\ call'.size = size
          /\ call'.step = "loop" /\ call'.at = 1 /\ call'.read = {}
    /\ \A outcome : call' = [Call(kind, names, size) EXCEPT !.step = outcome] =>
          /\ IsCall' /\ call'.kind = kind /\ call'.names = names /\ call'.size = size
          /\ call'.step = outcome /\ call'.at = 1 /\ call'.read = {}
  BY DEF Call, IsCall

\* The updates of a call change the fields they name.
LEMMA CallFacts ==
  ASSUME IsCall
  PROVE  /\ \A s : Goes(s) \/ Ends(s) =>
               /\ IsCall' /\ call'.kind = call.kind /\ call'.names = call.names
               /\ call'.size = call.size
               /\ call'.step = s /\ call'.at = call.at /\ call'.read = call.read
         /\ Read =>
               /\ IsCall' /\ call'.kind = call.kind /\ call'.names = call.names
               /\ call'.size = call.size
               /\ call'.step = "loop" /\ call'.at = call.at + 1
               /\ call'.read = call.read \cup {call.at}
         /\ Skip =>
               /\ IsCall' /\ call'.kind = call.kind /\ call'.names = call.names
               /\ call'.size = call.size
               /\ call'.step = "loop" /\ call'.at = call.at + 1 /\ call'.read = call.read
         /\ ReturnTop =>
               /\ IsCall' /\ call'.kind = call.kind /\ call'.step = "returned"
               /\ call'.size = call.size /\ call'.names = TopTickers(listing, call.size)
  BY DEF IsCall, Goes, Ends, Read, Skip, ReturnTop

\* The lists of names a caller may pass are sequences.
LEMMA ListsAreSequences ==
  ASSUME NEW n \in Nat, NEW names \in Lists(n)
  PROVE  Len(names) \in Nat /\ DOMAIN names = 1..Len(names)
<1>1. PICK k \in 0..n : names \in [1..k -> Tickers]
  BY DEF Lists
<1>2. k \in Nat
  BY <1>1
<1>3. names \in Seq(Tickers)
  BY <1>1, <1>2
<1> QED BY <1>3

--------------------------------------------------------------------------------
(* Every name is accounted for                                                  *)

\* What is known of a call that walks over names.  While it waits for a name, the name is
\* refused exactly if the answer that has come in says so.
Accounted ==
    /\ edgar \in HttpRecord /\ yahoo \in HttpRecord /\ IsCall
    /\ yahoo.step = "send" => call.step = "chart"
    /\ call.kind # "top" => Len(call.names) \in Nat /\ DOMAIN call.names = 1..Len(call.names)
    /\ call.step \notin Outcomes /\ call.kind # "top" =>
          /\ call.at \in 1..(Len(call.names) + 1)
          /\ refusals \subseteq 1..call.at
          /\ call.read = (1..(call.at - 1)) \ refusals
    /\ call.step \in {"loop", "listing", "raised"} => call.at \notin refusals
    /\ call.step \in {"facts", "chart"} => call.kind # "top" /\ call.at <= Len(call.names)
    /\ call.step = "facts" =>
          (call.at \in refusals <=> edgar.step = "failed" /\ edgar.status = "missing")
    /\ call.step = "chart" =>
          (call.at \in refusals <=>
             yahoo.step = "failed" /\ yahoo.status \in {"none", "malformed", "missing"})
    /\ NamesAreAccounted

\* A call starts with nothing refused, or ends at once (the first lines of each method).
LEMMA StartsAccounted ==
  ASSUME Accounted, Ended,
         NEW kind \in Kinds, NEW names, NEW size,
         Len(names) \in Nat /\ DOMAIN names = 1..Len(names),
         \/ call' = Call(kind, names, size)
         \/ call' = [Call(kind, names, size) EXCEPT !.step = "raised"],
         refusals' = {}, UNCHANGED <<edgar, yahoo>>
  PROVE  Accounted'
<1>1. /\ IsCall' /\ call'.kind = kind /\ call'.names = names
      /\ call'.at = 1 /\ call'.read = {} /\ call'.step \in {"loop", "raised"}
  <2>1. CASE call' = Call(kind, names, size)
    BY <2>1, NewCall
  <2>2. CASE call' = [Call(kind, names, size) EXCEPT !.step = "raised"]
    BY <2>2, NewCall
  <2> QED BY <2>1, <2>2
<1> QED BY <1>1 DEF Accounted, NamesAreAccounted, Outcomes, Ended

\* Going on to the next name: it was read if it was not refused.
LEMMA NextAccounted ==
  ASSUME Accounted, call.step \in {"facts", "chart"},
         \/ Read /\ call.at \notin refusals'
         \/ Skip /\ call.at \in refusals',
         refusals' \in {refusals, refusals \cup {call.at}},
         edgar' \in HttpRecord, yahoo' \in HttpRecord, yahoo'.step # "send"
  PROVE  Accounted'
<1>1. /\ IsCall' /\ call'.kind = call.kind /\ call'.names = call.names
      /\ call'.step = "loop" /\ call'.at = call.at + 1
      /\ call'.read = IF call.at \in refusals' THEN call.read ELSE call.read \cup {call.at}
  BY CallFacts DEF Accounted
<1>2. /\ call.kind # "top" /\ call.at \in 1..Len(call.names)
      /\ Len(call.names) \in Nat /\ DOMAIN call.names = 1..Len(call.names)
      /\ refusals \subseteq 1..call.at
      /\ call.read = (1..(call.at - 1)) \ refusals
  BY DEF Accounted, Outcomes
<1>3. refusals' \subseteq 1..call.at /\ call.at + 1 \notin refusals'
  BY <1>2
<1>4. call'.read = (1..(call'.at - 1)) \ refusals'
  BY <1>1, <1>2
<1>5. /\ call'.at \in 1..(Len(call'.names) + 1)
      /\ refusals' \subseteq 1..call'.at
      /\ call'.at \notin refusals'
  BY <1>1, <1>2, <1>3
<1> QED BY <1>1, <1>2, <1>4, <1>5 DEF Accounted, NamesAreAccounted, Outcomes

\* A call that raises does so at a name that was not refused.
LEMMA RaisesAccounted ==
  ASSUME Accounted, call.at \notin refusals, Ends("raised"), refusals' = refusals,
         edgar' \in HttpRecord, yahoo' \in HttpRecord, yahoo'.step # "send"
  PROVE  Accounted'
<1>1. /\ IsCall' /\ call'.kind = call.kind /\ call'.names = call.names
      /\ call'.step = "raised" /\ call'.at = call.at
  BY CallFacts DEF Accounted
<1> QED BY <1>1 DEF Accounted, NamesAreAccounted, Outcomes

\* A call that waits, or whose wait is over without an answer for a name.
LEMMA WaitsAccounted ==
  ASSUME Accounted, call.step \in {"loop", "listing"}, refusals' = refusals,
         edgar' \in HttpRecord, yahoo' \in HttpRecord,
         \/ yahoo' = yahoo /\ (Goes("listing") \/ Goes("loop"))
         \/ yahoo' = yahoo /\ Looping /\ Goes("facts") /\ edgar'.step = "send"
         \/ Looping /\ Goes("chart") /\ yahoo'.step = "send"
  PROVE  Accounted'
<1>1. /\ IsCall' /\ call'.kind = call.kind /\ call'.names = call.names
      /\ call'.at = call.at /\ call'.read = call.read
      /\ \/ yahoo' = yahoo /\ call'.step \in {"listing", "loop"}
         \/ yahoo' = yahoo /\ Looping /\ call'.step = "facts" /\ edgar'.step = "send"
         \/ Looping /\ call'.step = "chart" /\ yahoo'.step = "send"
  BY CallFacts DEF Accounted
<1> QED BY <1>1 DEF Accounted, NamesAreAccounted, Outcomes, Looping

\* A position that is refused at its own request was not read before it.
LEMMA RefusedAtItself ==
  ASSUME NEW at \in Nat, at >= 1, NEW R, NEW R2 \in {R, R \cup {at}},
         R \subseteq 1..at
  PROVE  R2 \subseteq 1..at /\ (1..(at - 1)) \ R = (1..(at - 1)) \ R2
<1>1. at \notin 1..(at - 1) /\ at \in 1..at
  OBVIOUS
<1>2. CASE R2 = R \cup {at}
  BY <1>1, <1>2
<1>3. CASE R2 = R
  BY <1>3
<1> QED BY <1>2, <1>3

\* Every step keeps a call accounted for; the inductive step of UniversesAreWhole.
LEMMA StepAccounted ==
  ASSUME MaxRetries # 0
  PROVE  Accounted /\ [Next]_vars => Accounted'
<1> SUFFICES ASSUME Accounted, [Next]_vars PROVE Accounted'
  OBVIOUS
<1>0. /\ edgar \in HttpRecord /\ yahoo \in HttpRecord /\ IsCall
      /\ [edgar EXCEPT !.step = "idle"] \in HttpRecord
      /\ [yahoo EXCEPT !.step = "idle"] \in HttpRecord
      /\ [yahoo EXCEPT !.step = "idle"].step = "idle"
      /\ call.step # "chart" => yahoo.step # "send"
  <2>1. edgar \in HttpRecord /\ yahoo \in HttpRecord /\ IsCall
        /\ (call.step # "chart" => yahoo.step # "send")
    BY DEF Accounted
  <2>2. [yahoo EXCEPT !.step = "idle"].step = "idle"
    BY <2>1 DEF HttpRecord
  <2> QED BY <2>1, <2>2, EdgarFacts, YahooFacts DEF Edgar!Steps, Yahoo!Steps
<1>1. ASSUME NEW kind \in Kinds, Reject(kind) PROVE Accounted'
  <2>1. Len(<<>>) \in Nat /\ DOMAIN <<>> = 1..Len(<<>>)
    <3>1. <<>> \in Seq(Nat) /\ Len(<<>>) = 0
      OBVIOUS
    <3>2. 1..0 = {}
      OBVIOUS
    <3> QED BY <3>1, <3>2
  <2> QED BY <1>1, <2>1, StartsAccounted DEF Reject, edgarVars, yahooVars
<1>2. ASSUME NEW names \in Lists(MaxNames), GetPrices(names) \/ GetFundamentals(names)
      PROVE  Accounted'
  <2>1. Len(names) \in Nat /\ DOMAIN names = 1..Len(names)
    BY ListsAreSequences, PublicAssumption
  <2>2. PICK kind \in Kinds : call' = Call(kind, names, 0)
    BY <1>2 DEF GetPrices, GetFundamentals, Kinds
  <2> QED BY <1>2, <2>1, <2>2, StartsAccounted
        DEF GetPrices, GetFundamentals, edgarVars, yahooVars
<1>3. ASSUME NEW size \in 1..Cardinality(Tickers), GetTopTickers(size) PROVE Accounted'
  <2>1. Len(<<>>) \in Nat /\ DOMAIN <<>> = 1..Len(<<>>)
    <3>1. <<>> \in Seq(Nat) /\ Len(<<>>) = 0
      OBVIOUS
    <3>2. 1..0 = {}
      OBVIOUS
    <3> QED BY <3>1, <3>2
  <2> QED BY <1>3, <2>1, StartsAccounted DEF GetTopTickers, Kinds, edgarVars, yahooVars
<1>4. CASE AskListing
  <2>1. call.step = "loop"
    BY <1>4 DEF AskListing, Looping
  <2>2. edgar' \in HttpRecord
    BY <1>0, <1>4, EdgarFacts DEF AskListing
  <2> QED BY <1>0, <1>4, <2>1, <2>2, WaitsAccounted DEF AskListing, yahooVars
<1>5. CASE TakeListing
  <2>1. call.at \notin refusals /\ call.step = "listing"
    BY <1>5 DEF TakeListing, Accounted
  <2> QED BY <1>0, <1>5, <2>1, WaitsAccounted, RaisesAccounted DEF TakeListing, yahooVars
<1>6. CASE LoseListing
  <2>1. call.at \notin refusals /\ call.step = "listing"
    BY <1>6 DEF LoseListing, Accounted
  <2> QED BY <1>0, <1>6, <2>1, RaisesAccounted DEF LoseListing, yahooVars
<1>7. CASE ReturnTop
  <2>1. IsCall' /\ call'.kind = "top" /\ call'.step = "returned"
    BY <1>0, <1>7, CallFacts DEF ReturnTop
  <2> QED BY <1>0, <1>7, <2>1
        DEF ReturnTop, Accounted, NamesAreAccounted, Outcomes, edgarVars, yahooVars
<1>8. CASE AskFacts
  <2>1. call.at \notin refusals /\ call.step = "loop"
    BY <1>8 DEF AskFacts, Looping, Accounted
  <2>2. CASE Edgar!GetBytes /\ Goes("facts")
    <3>1. edgar' \in HttpRecord /\ edgar'.step = "send"
      BY <1>0, <2>2, EdgarFacts
    <3> QED BY <1>0, <1>8, <2>1, <2>2, <3>1, WaitsAccounted DEF AskFacts, yahooVars
  <2>3. CASE Ends("raised") /\ UNCHANGED edgarVars
    BY <1>0, <1>8, <2>1, <2>3, RaisesAccounted DEF AskFacts, edgarVars, yahooVars
  <2> QED BY <1>8, <2>2, <2>3 DEF AskFacts
<1>9. CASE TakeFacts
  <2>1. call.at \notin refusals /\ call.step = "facts"
    BY <1>9 DEF TakeFacts, Accounted
  <2> QED BY <1>0, <1>9, <2>1, NextAccounted, RaisesAccounted DEF TakeFacts, yahooVars
<1>10. CASE MissFacts
  <2>1. /\ call.step = "facts"
        /\ call.at \in refusals <=> edgar.step = "failed" /\ edgar.status = "missing"
    BY <1>10 DEF MissFacts, Accounted
  <2> QED BY <1>0, <1>10, <2>1, NextAccounted, RaisesAccounted DEF MissFacts, yahooVars
<1>11. CASE AskChart
  <2>1. call.step = "loop" /\ yahoo' \in HttpRecord /\ yahoo'.step = "send"
    BY <1>0, <1>11, YahooFacts DEF AskChart, Looping
  <2> QED BY <1>0, <1>11, <2>1, WaitsAccounted DEF AskChart, edgarVars
<1>12. CASE TakeChart
  <2>1. call.at \notin refusals /\ call.step = "chart"
    BY <1>12 DEF TakeChart, Accounted
  <2> QED BY <1>0, <1>12, <2>1, NextAccounted, RaisesAccounted DEF TakeChart, edgarVars
<1>13. CASE MissChart
  <2>1. /\ call.step = "chart"
        /\ call.at \in refusals <=>
             yahoo.step = "failed" /\ yahoo.status \in {"none", "malformed", "missing"}
    BY <1>13 DEF MissChart, Accounted
  <2> QED BY <1>0, <1>13, <2>1, NextAccounted, RaisesAccounted DEF MissChart, edgarVars
<1>14. CASE Return
  <2>1. /\ IsCall' /\ call'.kind = call.kind /\ call'.names = call.names
        /\ call'.step = "returned" /\ call'.at = call.at /\ call'.read = call.read
    BY <1>0, <1>14, CallFacts DEF Return
  <2>2. /\ call.kind # "top" /\ call.at = Len(call.names) + 1
        /\ Len(call.names) \in Nat /\ DOMAIN call.names = 1..Len(call.names)
        /\ call.read = (1..(call.at - 1)) \ refusals
    BY <1>14 DEF Return, Accounted, Outcomes
  <2> QED BY <1>0, <1>14, <2>1, <2>2
        DEF Return, Accounted, NamesAreAccounted, Outcomes, edgarVars, yahooVars
<1>15. CASE EdgarTransport
  <2>0. edgar.step = "send" /\ edgar' \in HttpRecord /\ yahoo' = yahoo /\ call' = call
    BY <1>0, <1>15, EdgarFacts DEF EdgarTransport, yahooVars
  <2>1. CASE Edgar!Lose /\ UNCHANGED refusals
    <3>1. edgar'.step = "raised"
      BY <1>0, <2>1, EdgarFacts
    <3> QED BY <2>0, <2>1, <3>1 DEF Accounted, NamesAreAccounted, IsCall
  <2>2. ASSUME NEW status \in Edgar!Statuses, Edgar!Send(status),
               refusals' = IF call.step = "facts" /\ status = "missing"
                           THEN refusals \cup {call.at} ELSE refusals
        PROVE  Accounted'
    <3>1. /\ edgar'.step = "failed" => edgar'.status = status
          /\ status = "missing" => edgar'.step = "failed"
      BY <1>0, <2>2, EdgarFacts
    <3>2. CASE call.step = "facts"
      <4>1. call.at \notin refusals /\ call.at \in 1..Len(call.names) /\ call.kind # "top"
        BY <2>0, <3>2 DEF Accounted, Outcomes
      <4>0. call.at \in Nat /\ call.at >= 1
        BY <4>1 DEF Accounted
      <4>2. /\ refusals \subseteq 1..call.at
            /\ call.read = (1..(call.at - 1)) \ refusals
        BY <3>2, <4>1 DEF Accounted, Outcomes
      <4>3. /\ refusals' \subseteq 1..call.at
            /\ call.read = (1..(call.at - 1)) \ refusals'
        <5>1. refusals' \in {refusals, refusals \cup {call.at}}
          BY <2>2
        <5> QED BY <4>0, <4>2, <5>1, RefusedAtItself
      <4>4. call.at \in refusals' <=> edgar'.step = "failed" /\ edgar'.status = "missing"
        BY <2>2, <3>1, <3>2, <4>1
      <4> QED BY <2>0, <3>2, <4>1, <4>3, <4>4
            DEF Accounted, NamesAreAccounted, Outcomes, IsCall
    <3>3. CASE call.step # "facts"
      BY <2>0, <2>2, <3>3 DEF Accounted, NamesAreAccounted, IsCall
    <3> QED BY <3>2, <3>3
  <2> QED BY <1>15, <2>1, <2>2 DEF EdgarTransport
<1>16. CASE YahooTransport
  <2>0. yahoo.step = "send" /\ yahoo' \in HttpRecord /\ edgar' = edgar /\ call' = call
    BY <1>0, <1>16, YahooFacts DEF YahooTransport, edgarVars
  <2>1. call.step = "chart" /\ call.at \notin refusals
        /\ call.at \in 1..Len(call.names) /\ call.kind # "top"
    BY <2>0 DEF Accounted, Outcomes
  <2>2. CASE Yahoo!Lose /\ UNCHANGED refusals
    <3>1. yahoo'.step = "raised"
      BY <1>0, <2>2, YahooFacts
    <3> QED BY <2>0, <2>1, <2>2, <3>1 DEF Accounted, NamesAreAccounted, IsCall
  <2>3. ASSUME NEW status \in Yahoo!Statuses, Yahoo!Send(status),
               refusals' = IF status \in {"malformed", "missing"}
                           THEN refusals \cup {call.at} ELSE refusals
        PROVE  Accounted'
    <3>1. /\ yahoo'.step = "failed" => yahoo'.status = status
          /\ status \in {"malformed", "missing"} => yahoo'.step = "failed"
          /\ status # "none"
      BY <1>0, <2>3, YahooFacts DEF Yahoo!Statuses
    <3>0. call.at \in Nat /\ call.at >= 1
      BY <2>1 DEF Accounted
    <3>2. /\ refusals \subseteq 1..call.at
          /\ call.read = (1..(call.at - 1)) \ refusals
      BY <2>1 DEF Accounted, Outcomes
    <3>3. /\ refusals' \subseteq 1..call.at
          /\ call.read = (1..(call.at - 1)) \ refusals'
      <4>1. refusals' \in {refusals, refusals \cup {call.at}}
        BY <2>3
      <4> QED BY <3>0, <3>2, <4>1, RefusedAtItself
    <3>4. call.at \in refusals' <=>
            yahoo'.step = "failed" /\ yahoo'.status \in {"none", "malformed", "missing"}
      BY <2>1, <2>3, <3>1
    <3> QED BY <2>0, <2>1, <3>3, <3>4 DEF Accounted, NamesAreAccounted, Outcomes, IsCall
  <2> QED BY <1>16, <2>2, <2>3 DEF YahooTransport
<1>17. CASE UNCHANGED vars
  BY <1>17 DEF vars, edgarVars, yahooVars, Accounted, NamesAreAccounted, IsCall
<1> QED BY <1>1, <1>2, <1>3, <1>4, <1>5, <1>6, <1>7, <1>8, <1>9, <1>10, <1>11, <1>12,
           <1>13, <1>14, <1>15, <1>16, <1>17 DEF Next

\* A universe is returned without exactly the names a vendor has no data for, and such a
\* name never ends a call (edgar.py get_fundamentals, yahoo.py get_prices).  Without any
\* attempt Yahoo's client would fail with status 0 and the name be skipped unasked.
THEOREM UniversesAreWhole ==
  ASSUME MaxRetries # 0
  PROVE  Spec => []NamesAreAccounted
<1>1. Init => Accounted
  <2> SUFFICES ASSUME Init PROVE Accounted
    OBVIOUS
  <2>1. edgar \in HttpRecord /\ yahoo \in HttpRecord /\ yahoo.step = "idle"
    BY PublicAssumption DEF Init, Edgar!HttpInit, Yahoo!HttpInit, HttpRecord, Edgar!Steps
  <2>2. call = [kind |-> "prices", names |-> <<>>, size |-> 0, step |-> "returned",
                at |-> 1, read |-> {}]
    BY DEF Init, Call
  <2>3. Len(<<>>) = 0 /\ DOMAIN <<>> = 1..0 /\ 1..0 = {}
    <3>1. <<>> \in Seq(Nat) /\ Len(<<>>) = 0
      OBVIOUS
    <3>2. 1..0 = {}
      OBVIOUS
    <3> QED BY <3>1, <3>2
  <2>4. IsCall
    BY <2>2 DEF IsCall
  <2>5. /\ call.kind = "prices" /\ call.names = <<>> /\ call.step = "returned"
        /\ call.read = {} /\ refusals = {}
    BY <2>2 DEF Init
  <2>6. NamesAreAccounted
    BY <2>3, <2>5 DEF NamesAreAccounted
  <2> QED BY <2>1, <2>3, <2>4, <2>5, <2>6 DEF Accounted, Outcomes
<1>2. Accounted => NamesAreAccounted
  BY DEF Accounted
<1> QED BY <1>1, <1>2, StepAccounted, PTL DEF Spec

--------------------------------------------------------------------------------
(* Requests to the SEC keep their distance                                      *)

\* The wait before the next retry is long enough, and so is the pause before a call if one
\* was made before.
Resting ==
    /\ edgar \in HttpRecord /\ edgarRested \in Nat
    /\ edgar.delay >= BackoffBase
    /\ edgarSent => edgar.made
    /\ edgar.step = "send" => edgar.made
    /\ EdgarIsPolite

\* A client that only becomes idle, or stays as it is, keeps resting.
LEMMA QuietRests ==
  ASSUME Resting, UNCHANGED <<edgarRested, edgarSent>>,
         edgar' = edgar \/ edgar' = [edgar EXCEPT !.step = "idle"]
  PROVE  Resting'
<1>1. CASE edgar' = edgar
  BY <1>1 DEF Resting, EdgarIsPolite, Edgar!Polite
<1>2. CASE edgar' = [edgar EXCEPT !.step = "idle"]
  <2>1. /\ edgar' \in HttpRecord /\ edgar'.made = edgar.made
        /\ edgar'.delay = edgar.delay /\ edgar'.step = "idle"
    BY <1>2 DEF Resting, HttpRecord, Edgar!Steps
  <2> QED BY <2>1 DEF Resting, EdgarIsPolite, Edgar!Polite
<1> QED BY <1>1, <1>2

\* A new call rests for the polite interval (http.py get_bytes).
LEMMA GetBytesRests ==
  ASSUME Resting, Edgar!GetBytes
  PROVE  Resting'
<1>1. edgar' \in HttpRecord
  BY EdgarFacts DEF Resting
<1>2. edgar'.made /\ edgar'.delay = BackoffBase /\ edgarSent' = edgarSent
  BY DEF Edgar!GetBytes
<1>3. edgarRested' \in Nat /\ (edgar.made => edgarRested' >= PoliteInterval)
  BY PublicAssumption DEF Resting, Edgar!GetBytes
<1> QED BY <1>1, <1>2, <1>3, PublicAssumption DEF Resting, EdgarIsPolite, Edgar!Polite

\* A retry rests for the backoff, and any other answer ends the call.
LEMMA TransportRests ==
  ASSUME PoliteInterval <= BackoffBase, Resting,
         Edgar!Lose \/ \E status \in Edgar!Statuses : Edgar!Send(status)
  PROVE  Resting'
<1>0. edgar \in HttpRecord /\ edgar.step = "send" /\ edgar.made
      /\ edgar.delay \in Nat /\ edgar.delay >= BackoffBase
  BY DEF Resting, HttpRecord, Edgar!Lose, Edgar!Send
<1>1. CASE Edgar!Lose
  <2>1. edgar' \in HttpRecord /\ edgar'.step = "raised"
    BY <1>0, <1>1, EdgarFacts
  <2>2. edgar'.made = edgar.made /\ edgar'.delay = edgar.delay /\ edgarRested' = 0
    BY <1>0, <1>1 DEF Edgar!Lose, HttpRecord
  <2> QED BY <1>0, <2>1, <2>2 DEF Resting, EdgarIsPolite, Edgar!Polite
<1>2. ASSUME NEW status \in Edgar!Statuses, Edgar!Send(status) PROVE Resting'
  <2>0. edgar' \in HttpRecord
    BY <1>0, <1>2, EdgarFacts
  <2>1. CASE status = "transient" /\ edgar.attempt + 1 < MaxRetries
    <3>1. /\ edgar' = [edgar EXCEPT !.attempt = edgar.attempt + 1, !.delay = 2 * edgar.delay]
          /\ edgarRested' = edgar.delay
      BY <1>2, <2>1 DEF Edgar!Send
    <3>2. edgar'.made = edgar.made /\ edgar'.delay = 2 * edgar.delay
      BY <1>0, <3>1 DEF HttpRecord
    <3> QED BY <1>0, <2>0, <3>1, <3>2, PublicAssumption
          DEF Resting, EdgarIsPolite, Edgar!Polite
  <2>2. CASE ~(status = "transient" /\ edgar.attempt + 1 < MaxRetries)
    <3>1. PICK t \in {"answered", "failed"} :
            edgar' = [edgar EXCEPT !.step = t, !.status = status] /\ edgarRested' = 0
      BY <1>2, <2>2 DEF Edgar!Send
    <3>2. edgar'.made = edgar.made /\ edgar'.delay = edgar.delay /\ edgar'.step # "send"
      BY <1>0, <3>1 DEF HttpRecord
    <3> QED BY <1>0, <2>0, <3>1, <3>2 DEF Resting, EdgarIsPolite, Edgar!Polite
  <2> QED BY <2>1, <2>2
<1> QED BY <1>1, <1>2

\* Listing, facts and retries share one client, and whatever failed in between, a request
\* follows the one before at the polite interval (edgar.py POLITE_INTERVAL_S).
THEOREM SecIsAskedPolitely ==
  ASSUME PoliteInterval <= BackoffBase
  PROVE  Spec => []EdgarIsPolite
<1>1. Init => Resting
  BY PublicAssumption
    DEF Init, Edgar!HttpInit, Resting, HttpRecord, Edgar!Steps, EdgarIsPolite, Edgar!Polite
<1>2. Resting /\ [Next]_vars => Resting'
  <2> SUFFICES ASSUME Resting, [Next]_vars PROVE Resting'
    OBVIOUS
  <2> USE DEF edgarVars
  <2>1. CASE AskListing
    BY <2>1, GetBytesRests DEF AskListing
  <2>2. CASE AskFacts
    BY <2>2, GetBytesRests, QuietRests DEF AskFacts
  <2>3. CASE EdgarTransport
    BY <2>3, TransportRests DEF EdgarTransport
  <2>4. CASE TakeListing \/ LoseListing \/ TakeFacts \/ MissFacts
    BY <2>4, QuietRests DEF TakeListing, LoseListing, TakeFacts, MissFacts
  <2>5. CASE \/ ReturnTop \/ AskChart \/ TakeChart \/ MissChart \/ Return \/ YahooTransport
    BY <2>5, QuietRests
      DEF ReturnTop, AskChart, TakeChart, MissChart, Return, YahooTransport
  <2>6. CASE \/ \E kind \in Kinds : Reject(kind)
             \/ \E names \in Lists(MaxNames) : GetPrices(names) \/ GetFundamentals(names)
             \/ \E size \in 1..Cardinality(Tickers) : GetTopTickers(size)
    BY <2>6, QuietRests DEF Reject, GetPrices, GetFundamentals, GetTopTickers
  <2>7. CASE UNCHANGED vars
    BY <2>7, QuietRests DEF vars
  <2> QED BY <2>1, <2>2, <2>3, <2>4, <2>5, <2>6, <2>7 DEF Next
<1>3. Resting => EdgarIsPolite
  BY DEF Resting
<1> QED BY <1>1, <1>2, <1>3, PTL DEF Spec

--------------------------------------------------------------------------------
(* The universe by rank                                                         *)

\* A nonempty set of numbers has a least one, and one below a bound has a greatest.
LEMMA LeastFacts ==
  ASSUME NEW T \in SUBSET Nat, T # {}
  PROVE  \E m \in T : \A n \in T : m <= n
<1>1. \E m \in T : \A n \in T : ~(<<n, m>> \in OpToRel(<, Nat))
  BY NatLessThanWellFounded, WFMin, Zenon
<1>2. \A m, n \in T : n < m => <<n, m>> \in OpToRel(<, Nat)
  BY Zenon DEF OpToRel
<1>3. \E m \in T : \A n \in T : ~(n < m)
  BY <1>1, <1>2, Zenon
<1> QED BY <1>3

LEMMA MaxFacts ==
  ASSUME NEW bound \in Nat, NEW T \in SUBSET (1..bound), T # {}
  PROVE  /\ Max(T) \in T
         /\ \A n \in T : n <= Max(T)
<1> DEFINE Distances == {bound - n : n \in T}
<1>0. \A n \in T : n \in Nat /\ bound - n \in Nat
  OBVIOUS
<1>1. PICK d \in Distances : \A e \in Distances : d <= e
  <2>1. Distances \in SUBSET Nat /\ Distances # {}
    BY <1>0
  <2> HIDE DEF Distances
  <2> QED BY <2>1, LeastFacts
<1>2. PICK m \in T : d = bound - m
  OBVIOUS
<1>3. \A n \in T : bound - m <= bound - n
  BY <1>1, <1>2
<1>4. \A n \in T : m >= n
  BY <1>0, <1>3
<1>5. Max(T) \in T /\ \A n \in T : Max(T) >= n
  <2> HIDE DEF Distances
  <2> QED BY <1>4, Zenon DEF Max
<1> QED BY <1>0, <1>5

\* One more entry of the listing is named, if its company is not and there is room.
Grow(top, ticker, size) ==
  IF Len(top) = size \/ \E i \in DOMAIN top : Cik[top[i]] = Cik[ticker]
  THEN top ELSE Append(top, ticker)

Grown(entries, size) == CHOOSE iter : iter = [s \in SUBSET DOMAIN entries |->
  IF s = {} THEN <<>> ELSE Grow(iter[s \ {Max(s)}], entries[Max(s)], size)]

LEMMA TopIsGrown ==
  ASSUME NEW entries, NEW size
  PROVE  TopTickers(entries, size) = Grown(entries, size)[DOMAIN entries]
BY Zenon DEF TopTickers, FoldLeft, MapThenFoldSet, Grown, Grow

\* The recursion behind TopTickers has a solution: it names the entries one by one.
LEMMA GrownFacts ==
  ASSUME NEW entries \in Seq(Tickers), NEW size \in Nat
  PROVE  /\ Grown(entries, size)[{}] = <<>>
         /\ \A k \in 1..Len(entries) :
              Grown(entries, size)[1..k] = Grow(Grown(entries, size)[1..(k - 1)], entries[k], size)
<1> DEFINE N == Len(entries)
           Grows(I, D) == \A s \in D : I[s] = IF s = {} THEN <<>>
                                              ELSE Grow(I[s \ {Max(s)}], entries[Max(s)], size)
           P(n) == \E I \in [SUBSET (1..n) -> Seq(Tickers)] : Grows(I, SUBSET (1..n))
           Bad == {n \in 0..N : ~P(n)}
<1>1. N \in Nat /\ DOMAIN entries = 1..N /\ \A k \in 1..N : entries[k] \in Tickers
  OBVIOUS
<1>2. \A top \in Seq(Tickers), ticker \in Tickers : Grow(top, ticker, size) \in Seq(Tickers)
  BY DEF Grow
<1>3. \A n \in Nat : \A s \in SUBSET (1..n) : s # {} =>
        /\ Max(s) \in s /\ Max(s) \in 1..n
        /\ s \ {Max(s)} \in SUBSET (1..(n - 1))
  <2> SUFFICES ASSUME NEW n \in Nat, NEW s \in SUBSET (1..n), s # {}
               PROVE  /\ Max(s) \in s /\ Max(s) \in 1..n
                      /\ s \ {Max(s)} \in SUBSET (1..(n - 1))
    OBVIOUS
  <2> DEFINE m == Max(s)
  <2>1. m \in s /\ \A x \in s : x <= m
    BY MaxFacts
  <2> HIDE DEF m
  <2>2. m \in 1..n /\ \A x \in s \ {m} : x \in 1..(n - 1)
    BY <2>1
  <2>3. m \in s /\ m \in 1..n /\ s \ {m} \in SUBSET (1..(n - 1))
    BY <2>1, <2>2
  <2> QED BY <2>3 DEF m
<1>4. Bad = {}
  <2> SUFFICES ASSUME Bad # {} PROVE FALSE
    OBVIOUS
  <2>1. PICK m \in Bad : \A n \in Bad : m <= n
    <3>1. Bad \in SUBSET Nat
      BY <1>1
    <3> HIDE DEF Bad
    <3> QED BY <3>1, LeastFacts
  <2>2. m \in 0..N /\ ~P(m) /\ m \in Nat
    <3> HIDE DEF P
    <3>1. m \in 0..N /\ ~P(m)
      BY <2>1
    <3> HIDE DEF Bad, N
    <3> QED BY <1>1, <3>1
  <2>3. CASE m = 0
    <3> DEFINE I == [s \in SUBSET (1..0) |-> <<>>]
    <3>1. \A s \in SUBSET (1..0) : s = {}
      OBVIOUS
    <3>2. I \in [SUBSET (1..0) -> Seq(Tickers)] /\ Grows(I, SUBSET (1..0))
      BY <3>1
    <3> QED BY <2>2, <2>3, <3>2
  <2>4. CASE m # 0
    <3>1. m - 1 \in 0..N /\ m - 1 \notin Bad /\ m - 1 \in Nat
      <4> HIDE DEF P
      <4>1. m \in Nat /\ m # 0 /\ m <= N /\ N \in Nat
        BY <1>1, <2>2, <2>4
      <4>2. m - 1 \in 0..N /\ ~(m <= m - 1) /\ m - 1 \in Nat
        BY <4>1
      <4> HIDE DEF Bad
      <4> QED BY <2>1, <4>2
    <3>2. PICK I \in [SUBSET (1..(m - 1)) -> Seq(Tickers)] : Grows(I, SUBSET (1..(m - 1)))
      BY <3>1
    <3> DEFINE J == [s \in SUBSET (1..m) |-> IF s = {} THEN <<>>
                        ELSE Grow(I[s \ {Max(s)}], entries[Max(s)], size)]
    <3>3. \A s \in SUBSET (1..m) : s # {} =>
             s \ {Max(s)} \in SUBSET (1..(m - 1)) /\ entries[Max(s)] \in Tickers
      <4> HIDE DEF Bad
      <4>1. \A s \in SUBSET (1..m) : s # {} =>
              s \ {Max(s)} \in SUBSET (1..(m - 1)) /\ Max(s) \in 1..m
        BY <1>3, <2>2
      <4>2. \A k \in 1..m : k \in 1..N
        BY <1>1, <2>2
      <4> HIDE DEF N
      <4> QED BY <1>1, <4>1, <4>2
    <3>4. SUBSET (1..(m - 1)) \subseteq SUBSET (1..m)
      <4> HIDE DEF Bad
      <4> QED BY <2>2
    <3>5. J \in [SUBSET (1..m) -> Seq(Tickers)]
      <4>1. \A s \in SUBSET (1..m) : (IF s = {} THEN <<>>
                ELSE Grow(I[s \ {Max(s)}], entries[Max(s)], size)) \in Seq(Tickers)
        <5> SUFFICES ASSUME NEW s \in SUBSET (1..m)
                     PROVE  (IF s = {} THEN <<>>
                             ELSE Grow(I[s \ {Max(s)}], entries[Max(s)], size)) \in Seq(Tickers)
          OBVIOUS
        <5>1. CASE s = {}
          BY <5>1
        <5>2. CASE s # {}
          <6>1. I[s \ {Max(s)}] \in Seq(Tickers) /\ entries[Max(s)] \in Tickers
            <7> HIDE DEF Bad
            <7> QED BY <3>2, <3>3, <5>2
          <6> QED BY <1>2, <5>2, <6>1
        <5> QED BY <5>1, <5>2
      <4> QED BY <4>1
    <3>6. \A s \in SUBSET (1..m) : J[s] = IF s = {} THEN <<>>
                                          ELSE Grow(I[s \ {Max(s)}], entries[Max(s)], size)
      OBVIOUS
    <3> HIDE DEF J
    <3>7. \A t \in SUBSET (1..(m - 1)) : J[t] = I[t]
      BY <3>2, <3>4, <3>6
    <3>8. Grows(J, SUBSET (1..m))
      BY <3>3, <3>6, <3>7
    <3> QED BY <2>2, <3>5, <3>8
  <2> QED BY <2>3, <2>4
<1>5. \E I : I = [s \in SUBSET DOMAIN entries |->
           IF s = {} THEN <<>> ELSE Grow(I[s \ {Max(s)}], entries[Max(s)], size)]
  <2>1. P(N)
    <3>1. N \in 0..N
      BY <1>1
    <3> QED BY <1>4, <3>1
  <2>2. PICK I \in [SUBSET (1..N) -> Seq(Tickers)] : Grows(I, SUBSET (1..N))
    BY <2>1
  <2>3. I = [s \in SUBSET DOMAIN entries |->
           IF s = {} THEN <<>> ELSE Grow(I[s \ {Max(s)}], entries[Max(s)], size)]
    <3> HIDE DEF N
    <3> QED BY <1>1, <2>2
  <2> QED BY <2>3
<1>6. Grown(entries, size) = [s \in SUBSET DOMAIN entries |->
         IF s = {} THEN <<>>
         ELSE Grow(Grown(entries, size)[s \ {Max(s)}], entries[Max(s)], size)]
  BY <1>5, Zenon DEF Grown
<1> DEFINE F == Grown(entries, size)
<1> HIDE DEF N
<1>7. Grows(F, SUBSET (1..N))
  <2> HIDE DEF F
  <2> QED BY <1>1, <1>6 DEF F
<1> HIDE DEF F
<1>8. \A k \in 1..N : F[1..k] = Grow(F[1..(k - 1)], entries[k], size)
  <2> SUFFICES ASSUME NEW k \in 1..N PROVE F[1..k] = Grow(F[1..(k - 1)], entries[k], size)
    OBVIOUS
  <2>1. k \in Nat /\ 1..k \in SUBSET (1..N) /\ k \in 1..k /\ 1..k # {}
    BY <1>1
  <2>2. Max(1..k) = k
    <3> DEFINE m == Max(1..k)
    <3>1. m \in 1..k /\ k <= m
      BY <2>1, MaxFacts
    <3> HIDE DEF m
    <3> QED BY <2>1, <3>1 DEF m
  <2>3. (1..k) \ {k} = 1..(k - 1)
    BY <2>1
  <2> QED BY <1>7, <2>1, <2>2, <2>3
<1> QED BY <1>7, <1>8 DEF F, N

\* What `top` is after k entries: one ticker of each company, the first, in the order of the
\* listing.  It stops growing when it is full, so it leaves out none that is ranked before
\* `cut`.
Opens(entries, p, cut) ==
    /\ p \in 1..cut
    /\ \A j \in 1..(p - 1) : Cik[entries[j]] # Cik[entries[p]]

NamedFrom(top, entries, size, k, cut) ==
    /\ top \in Seq(Tickers) /\ Len(top) <= size
    /\ cut \in 0..k /\ (cut = k \/ Len(top) = size)
    /\ \A i, j \in 1..Len(top) : Cik[top[i]] = Cik[top[j]] => i = j
    /\ \A i \in 1..Len(top) : \E p \in 1..cut : top[i] = entries[p] /\ Opens(entries, p, cut)
    /\ \A p \in 1..cut : \E i \in 1..Len(top) : Cik[top[i]] = Cik[entries[p]]

LEMMA GrowNames ==
  ASSUME NEW entries \in Seq(Tickers), NEW size \in Nat, NEW k \in 1..Len(entries),
         NEW top, NEW cut, NamedFrom(top, entries, size, k - 1, cut)
  PROVE  \E next : NamedFrom(Grow(top, entries[k], size), entries, size, k, next)
<1> DEFINE n == Len(top)
           ticker == entries[k]
<1>1. /\ k \in Nat /\ ticker \in Tickers /\ top \in Seq(Tickers)
      /\ n \in Nat /\ DOMAIN top = 1..n /\ n <= size
      /\ cut \in Nat /\ cut <= k - 1 /\ k \in 0..k
      /\ \A i, j \in 1..n : Cik[top[i]] = Cik[top[j]] => i = j
  BY DEF NamedFrom
<1>2. CASE n = size
  <2>1. Grow(top, ticker, size) = top
    BY <1>2 DEF Grow
  <2>2. NamedFrom(top, entries, size, k, cut)
    BY <1>1, <1>2 DEF NamedFrom
  <2> QED BY <2>1, <2>2
<1>3. CASE n # size
  <2>1. cut = k - 1
    BY <1>3 DEF NamedFrom
  <2>2. CASE \E i \in 1..n : Cik[top[i]] = Cik[ticker]
    <3>1. Grow(top, ticker, size) = top
      BY <1>1, <2>2 DEF Grow
    <3>2. \A p \in 1..k : p \in 1..(k - 1) \/ p = k
      BY <1>1
    <3>3. \A i \in 1..n : \E p \in 1..k : top[i] = entries[p] /\ Opens(entries, p, k)
      BY <1>1, <2>1 DEF NamedFrom, Opens
    <3>4. \A p \in 1..k : \E i \in 1..n : Cik[top[i]] = Cik[entries[p]]
      BY <2>1, <2>2, <3>2 DEF NamedFrom
    <3>5. NamedFrom(top, entries, size, k, k)
      <4> HIDE DEF ticker
      <4> QED BY <1>1, <3>3, <3>4 DEF NamedFrom
    <3> QED BY <3>1, <3>5
  <2>3. CASE ~\E i \in 1..n : Cik[top[i]] = Cik[ticker]
    <3> DEFINE more == Append(top, ticker)
    <3>1. Grow(top, ticker, size) = more
      BY <1>1, <1>3, <2>3 DEF Grow
    <3>2. /\ more \in Seq(Tickers) /\ Len(more) = n + 1
          /\ \A i \in 1..n : more[i] = top[i]
          /\ more[n + 1] = ticker
      BY <1>1
    <3> HIDE DEF more
    <3>3. \A i \in 1..(n + 1) : i \in 1..n \/ i = n + 1
      BY <1>1
    <3>4. \A p \in 1..k : p \in 1..(k - 1) \/ p = k
      BY <1>1
    <3>5. \A i, j \in 1..(n + 1) : Cik[more[i]] = Cik[more[j]] => i = j
      <4> HIDE DEF n
      <4> QED BY <1>1, <2>3, <3>2, <3>3
    <3>6. Opens(entries, k, k)
      <4>1. k \in 1..k
        BY <1>1
      <4>2. \A j \in 1..(k - 1) : Cik[entries[j]] # Cik[ticker]
        BY <2>1, <2>3 DEF NamedFrom
      <4> QED BY <4>1, <4>2 DEF Opens
    <3>7. \A i \in 1..(n + 1) : \E p \in 1..k : more[i] = entries[p] /\ Opens(entries, p, k)
      <4>1. \A i \in 1..n : \E p \in 1..k : top[i] = entries[p] /\ Opens(entries, p, k)
        BY <1>1, <2>1 DEF NamedFrom, Opens
      <4>2. k \in 1..k
        BY <1>1
      <4> QED BY <3>2, <3>3, <3>6, <4>1, <4>2
    <3>8. \A p \in 1..k : \E i \in 1..(n + 1) : Cik[more[i]] = Cik[entries[p]]
      <4>1. \A p \in 1..(k - 1) : \E i \in 1..n : Cik[top[i]] = Cik[entries[p]]
        BY <2>1 DEF NamedFrom
      <4>2. n + 1 \in 1..(n + 1) /\ \A i \in 1..n : i \in 1..(n + 1)
        BY <1>1
      <4> QED BY <3>2, <3>4, <4>1, <4>2
    <3>9. Len(more) <= size /\ k \in 0..k
      <4> HIDE DEF n
      <4> QED BY <1>1, <1>3, <3>2
    <3>10. NamedFrom(more, entries, size, k, k)
      BY <3>2, <3>5, <3>7, <3>8, <3>9 DEF NamedFrom
    <3> QED BY <3>1, <3>10
  <2> QED BY <2>2, <2>3
<1> QED BY <1>2, <1>3

\* By the least number of entries for which it would not hold.
LEMMA TopIsNamed ==
  ASSUME NEW entries \in Seq(Tickers), NEW size \in Nat
  PROVE  \E cut : NamedFrom(TopTickers(entries, size), entries, size, Len(entries), cut)
<1> DEFINE N == Len(entries)
           F == Grown(entries, size)
           P(k) == \E cut : NamedFrom(F[1..k], entries, size, k, cut)
           Bad == {k \in 0..N : ~P(k)}
<1>1. N \in Nat /\ DOMAIN entries = 1..N
  OBVIOUS
<1>2. F[{}] = <<>> /\ \A k \in 1..N : F[1..k] = Grow(F[1..(k - 1)], entries[k], size)
  BY GrownFacts
<1> HIDE DEF F
<1>3. Bad = {}
  <2> SUFFICES ASSUME Bad # {} PROVE FALSE
    OBVIOUS
  <2>1. PICK m \in Bad : \A k \in Bad : m <= k
    <3>1. Bad \in SUBSET Nat
      BY <1>1
    <3> HIDE DEF Bad
    <3> QED BY <3>1, LeastFacts
  <2>2. m \in 0..N /\ ~P(m)
    <3> HIDE DEF P
    <3> QED BY <2>1
  <2>3. CASE m = 0
    <3>1. 1..0 = {} /\ <<>> \in Seq(Tickers) /\ Len(<<>>) = 0
      OBVIOUS
    <3>2. NamedFrom(<<>>, entries, size, 0, 0)
      BY <3>1 DEF NamedFrom
    <3> QED BY <1>2, <2>2, <2>3, <3>1, <3>2
  <2>4. CASE m # 0
    <3> HIDE DEF P, N
    <3>1. m \in 1..N /\ m - 1 \in 0..N /\ ~(m <= m - 1)
      BY <1>1, <2>2, <2>4
    <3>2. P(m - 1)
      BY <2>1, <3>1
    <3>3. PICK cut : NamedFrom(F[1..(m - 1)], entries, size, m - 1, cut)
      BY <3>2 DEF P
    <3>4. \E next : NamedFrom(Grow(F[1..(m - 1)], entries[m], size), entries, size, m, next)
      BY <3>1, <3>3, GrowNames DEF N
    <3> QED BY <1>2, <2>2, <3>1, <3>4 DEF P
  <2> QED BY <2>3, <2>4
<1>4. P(N)
  BY <1>1, <1>3
<1>5. TopTickers(entries, size) = F[1..N]
  BY <1>1, TopIsGrown DEF F
<1> QED BY <1>4, <1>5

\* The place of a company in a listing: its first ticker's.
RankOf(entries, cik) ==
    CHOOSE i \in DOMAIN entries :
        /\ Cik[entries[i]] = cik
        /\ \A j \in 1..(i - 1) : Cik[entries[j]] # cik

LEMMA RankFacts ==
  ASSUME NEW entries \in Seq(Tickers), NEW q \in 1..Len(entries)
  PROVE  LET p == RankOf(entries, Cik[entries[q]])
         IN  /\ p \in 1..Len(entries)
             /\ Cik[entries[p]] = Cik[entries[q]]
             /\ \A j \in 1..(p - 1) : Cik[entries[j]] # Cik[entries[q]]
<1> DEFINE cik == Cik[entries[q]]
           same == {i \in 1..Len(entries) : Cik[entries[i]] = cik}
<1>1. Len(entries) \in Nat /\ DOMAIN entries = 1..Len(entries)
  OBVIOUS
<1>2. PICK p \in same : \A i \in same : p <= i
  <2>1. same \in SUBSET Nat /\ same # {}
    BY <1>1
  <2> HIDE DEF same
  <2> QED BY <2>1, LeastFacts
<1>3. \A j \in 1..(p - 1) : Cik[entries[j]] # cik
  <2> SUFFICES ASSUME NEW j \in 1..(p - 1), Cik[entries[j]] = cik PROVE FALSE
    OBVIOUS
  <2>1. p \in 1..Len(entries)
    BY <1>2
  <2>2. j \in 1..Len(entries) /\ ~(p <= j)
    BY <1>1, <2>1
  <2>3. j \in same
    BY <2>2
  <2> QED BY <1>2, <2>2, <2>3
<1>4. p \in DOMAIN entries /\ Cik[entries[p]] = cik
  BY <1>1, <1>2
<1>5. \E i \in DOMAIN entries : /\ Cik[entries[i]] = cik
                                /\ \A j \in 1..(i - 1) : Cik[entries[j]] # cik
  BY <1>3, <1>4
<1>6. /\ RankOf(entries, cik) \in DOMAIN entries
      /\ Cik[entries[RankOf(entries, cik)]] = cik
      /\ \A j \in 1..(RankOf(entries, cik) - 1) : Cik[entries[j]] # cik
  <2> HIDE DEF cik, same
  <2> QED BY <1>5, Zenon DEF RankOf
<1> QED BY <1>1, <1>6

\* The first ticker of a company tells its rank.
LEMMA OpensAtRank ==
  ASSUME NEW entries \in Seq(Tickers), NEW cut \in 0..Len(entries),
         NEW p, Opens(entries, p, cut)
  PROVE  RankOf(entries, Cik[entries[p]]) = p
<1> DEFINE r == RankOf(entries, Cik[entries[p]])
<1>1. p \in 1..Len(entries) /\ \A j \in 1..(p - 1) : Cik[entries[j]] # Cik[entries[p]]
  BY DEF Opens
<1>2. /\ r \in 1..Len(entries) /\ Cik[entries[r]] = Cik[entries[p]]
      /\ \A j \in 1..(r - 1) : Cik[entries[j]] # Cik[entries[p]]
  BY <1>1, RankFacts
<1> HIDE DEF r
<1>3. r = p
  <2>1. r \in Nat /\ p \in Nat /\ r >= 1 /\ p >= 1
    BY <1>1, <1>2
  <2>2. r \notin 1..(p - 1) /\ p \notin 1..(r - 1)
    BY <1>1, <1>2
  <2> QED BY <2>1, <2>2
<1> QED BY <1>3 DEF r

\* As many companies are named as tickers.
LEMMA NamedCount ==
  ASSUME NEW top \in Seq(Tickers), \A i, j \in 1..Len(top) : Cik[top[i]] = Cik[top[j]] => i = j
  PROVE  /\ IsFiniteSet({Cik[ticker] : ticker \in Range(top)})
         /\ Cardinality({Cik[ticker] : ticker \in Range(top)}) = Len(top)
<1> DEFINE n == Len(top)
           named == {Cik[ticker] : ticker \in Range(top)}
           cikAt == [i \in 1..n |-> Cik[top[i]]]
<1>1. n \in Nat /\ DOMAIN top = 1..n
  OBVIOUS
<1>2. IsFiniteSet(1..n) /\ Cardinality(1..n) = n
  <2> HIDE DEF n
  <2> QED BY <1>1, FS_Interval
<1>3. cikAt \in Bijection(1..n, named)
  <2>1. cikAt \in [1..n -> named]
    BY <1>1 DEF Range
  <2>2. \A i, j \in 1..n : cikAt[i] = cikAt[j] => i = j
    OBVIOUS
  <2>3. \A cik \in named : \E i \in 1..n : cikAt[i] = cik
    BY <1>1 DEF Range
  <2> HIDE DEF cikAt, named, n
  <2> QED BY <2>1, <2>2, <2>3 DEF Bijection, Injection, Surjection, IsInjective
<1>4. ExistsBijection(1..n, named)
  <2> HIDE DEF cikAt, named, n
  <2> QED BY <1>3 DEF ExistsBijection
<1> HIDE DEF n, named
<1>5. IsFiniteSet(named) /\ Cardinality(named) = n
  BY <1>2, <1>4, FS_Bijection
<1> QED BY <1>5 DEF n, named

\* What NamedFrom says once the whole listing was walked over is what a universe promises.
LEMMA CompaniesByRank ==
  ASSUME NEW entries \in Seq(Tickers), NEW size \in Nat, NEW top, NEW cut,
         NamedFrom(top, entries, size, Len(entries), cut)
  PROVE  LET ciks  == {Cik[ticker] : ticker \in Range(entries)}
             named == {Cik[ticker] : ticker \in Range(top)}
         IN  /\ IsInjective([i \in DOMAIN top |-> Cik[top[i]]])
             /\ Len(top) = IF size < Cardinality(ciks) THEN size ELSE Cardinality(ciks)
             /\ Range(top) \subseteq {entries[RankOf(entries, cik)] : cik \in ciks}
             /\ \A cik \in ciks \ named, other \in named :
                   RankOf(entries, other) < RankOf(entries, cik)
<1> DEFINE n == Len(top)
           N == Len(entries)
           ciks == {Cik[ticker] : ticker \in Range(entries)}
           named == {Cik[ticker] : ticker \in Range(top)}
<1>0. n \in Nat /\ DOMAIN top = 1..n /\ N \in Nat
  BY DEF NamedFrom
<1>1. /\ n \in Nat /\ DOMAIN top = 1..n /\ N \in Nat /\ DOMAIN entries = 1..N
      /\ top \in Seq(Tickers) /\ n <= size /\ cut \in 0..N /\ cut \in Nat
      /\ cut = N \/ n = size
      /\ \A i, j \in 1..n : Cik[top[i]] = Cik[top[j]] => i = j
      /\ \A i \in 1..n : \E p \in 1..cut : top[i] = entries[p] /\ Opens(entries, p, cut)
      /\ \A p \in 1..cut : \E i \in 1..n : Cik[top[i]] = Cik[entries[p]]
  BY DEF NamedFrom
<1>2. \A p \in 1..cut : p \in 1..N
  <2> HIDE DEF n, N
  <2> QED BY <1>1
<1>3. /\ \A cik \in ciks : \E q \in 1..N : cik = Cik[entries[q]]
      /\ \A q \in 1..N : Cik[entries[q]] \in ciks
      /\ \A cik \in named : \E i \in 1..n : cik = Cik[top[i]]
      /\ \A i \in 1..n : Cik[top[i]] \in named
  <2>1. /\ \A x \in Range(entries) : \E i \in 1..N : x = entries[i]
        /\ \A i \in 1..N : entries[i] \in Range(entries)
    BY DEF Range
  <2>2. /\ \A x \in Range(top) : \E i \in 1..n : x = top[i]
        /\ \A i \in 1..n : top[i] \in Range(top)
    BY <1>0 DEF Range
  <2> HIDE DEF n, N
  <2> QED BY <2>1, <2>2
<1>4. IsFiniteSet(named) /\ Cardinality(named) = n
  BY <1>1, NamedCount
<1>5. named \subseteq ciks
  <2> SUFFICES ASSUME NEW cik \in named PROVE cik \in ciks
    OBVIOUS
  <2>1. PICK i \in 1..n : cik = Cik[top[i]]
    BY <1>3
  <2>2. PICK p \in 1..cut : top[i] = entries[p]
    BY <1>1, <2>1
  <2> HIDE DEF ciks, named, n, N
  <2> QED BY <1>2, <1>3, <2>1, <2>2
<1>6. IsFiniteSet(ciks) /\ Cardinality(ciks) \in Nat
  <2> DEFINE cikAt == [q \in 1..N |-> Cik[entries[q]]]
  <2>1. cikAt \in Surjection(1..N, ciks)
    <3>1. cikAt \in [1..N -> ciks]
      BY <1>3
    <3>2. \A cik \in ciks : \E q \in 1..N : cikAt[q] = cik
      BY <1>3
    <3> HIDE DEF cikAt, ciks, N
    <3> QED BY <3>1, <3>2 DEF Surjection
  <2> HIDE DEF cikAt, ciks, N
  <2>2. IsFiniteSet(1..N)
    <3>1. 1 \in Int /\ N \in Int
      BY <1>0
    <3> QED BY <3>1, FS_Interval
  <2> QED BY <2>1, <2>2, FS_Surjection, FS_CardinalityType
<1>7. \A i \in 1..n : \E p \in 1..cut :
        /\ top[i] = entries[p] /\ RankOf(entries, Cik[top[i]]) = p
  <2> SUFFICES ASSUME NEW i \in 1..n
               PROVE  \E p \in 1..cut : top[i] = entries[p] /\ RankOf(entries, Cik[top[i]]) = p
    OBVIOUS
  <2>1. PICK p \in 1..cut : top[i] = entries[p] /\ Opens(entries, p, cut)
    BY <1>1
  <2>2. RankOf(entries, Cik[entries[p]]) = p
    BY <1>1, <2>1, OpensAtRank
  <2> QED BY <2>1, <2>2
<1> HIDE DEF n, N, ciks, named
<1>8. IsInjective([i \in DOMAIN top |-> Cik[top[i]]])
  BY <1>1 DEF IsInjective
<1>9. n = IF size < Cardinality(ciks) THEN size ELSE Cardinality(ciks)
  <2>1. Cardinality(named) <= Cardinality(ciks)
    BY <1>5, <1>6, FS_Subset
  <2>2. CASE n = size
    BY <1>1, <1>4, <1>6, <2>1, <2>2
  <2>3. CASE cut = N
    <3>1. ciks \subseteq named
      <4> SUFFICES ASSUME NEW cik \in ciks PROVE cik \in named
        OBVIOUS
      <4>1. PICK q \in 1..cut : cik = Cik[entries[q]]
        BY <1>3, <2>3
      <4>2. PICK i \in 1..n : Cik[top[i]] = Cik[entries[q]]
        BY <1>1
      <4> QED BY <1>3, <4>1, <4>2
    <3>2. Cardinality(ciks) = n
      BY <1>4, <1>5, <3>1
    <3> QED BY <1>1, <3>2
  <2> QED BY <1>1, <2>2, <2>3
<1>10. Range(top) \subseteq {entries[RankOf(entries, cik)] : cik \in ciks}
  <2> SUFFICES ASSUME NEW i \in 1..n
               PROVE  \E cik \in ciks : top[i] = entries[RankOf(entries, cik)]
    BY <1>0 DEF Range
  <2>1. PICK p \in 1..cut : top[i] = entries[p] /\ RankOf(entries, Cik[top[i]]) = p
    BY <1>7
  <2>2. Cik[top[i]] \in ciks
    BY <1>3, <1>5
  <2> QED BY <2>1, <2>2
<1>11. ASSUME NEW cik \in ciks \ named, NEW other \in named
       PROVE  RankOf(entries, other) < RankOf(entries, cik)
  <2>1. PICK i \in 1..n : other = Cik[top[i]]
    BY <1>3
  <2>2. RankOf(entries, other) \in 1..cut
    BY <1>7, <2>1
  <2>3. PICK q \in 1..N : cik = Cik[entries[q]]
    BY <1>3
  <2> DEFINE r == RankOf(entries, cik)
  <2>4. r \in 1..N /\ Cik[entries[r]] = cik
    BY <2>3, RankFacts DEF N
  <2> HIDE DEF r
  <2>5. r \notin 1..cut
    BY <1>1, <1>3, <1>11, <2>4
  <2>6. RankOf(entries, other) < r
    BY <1>1, <2>2, <2>4, <2>5
  <2> QED BY <2>6 DEF r
<1> QED BY <1>8, <1>9, <1>10, <1>11 DEF n, ciks, named

\* While a universe stands returned, the listing it was read from is still there, because a
\* listing is fetched only in a call and kept from then on.
Ranked ==
    /\ IsCall /\ call.size \in Nat
    /\ listing \in Seq(Tickers) \cup {NoListing}
    /\ call.step = "returned" /\ call.kind = "top" =>
          /\ listing \in Seq(Tickers)
          /\ call.names = TopTickers(listing, call.size)

LEMMA RankedIsOnce == Ranked => CompaniesOnce
<1> SUFFICES ASSUME Ranked, call.step = "returned", call.kind = "top"
             PROVE  CompaniesOnce
  BY DEF CompaniesOnce
<1>1. listing \in Seq(Tickers) /\ call.size \in Nat /\ call.names = TopTickers(listing, call.size)
  BY DEF Ranked
<1>2. PICK cut : NamedFrom(call.names, listing, call.size, Len(listing), cut)
  BY <1>1, TopIsNamed
<1>3. LET ciks  == {Cik[ticker] : ticker \in Range(listing)}
          named == {Cik[ticker] : ticker \in Range(call.names)}
      IN  /\ IsInjective([i \in DOMAIN call.names |-> Cik[call.names[i]]])
          /\ Len(call.names) = IF call.size < Cardinality(ciks) THEN call.size
                               ELSE Cardinality(ciks)
          /\ Range(call.names) \subseteq {listing[RankOf(listing, cik)] : cik \in ciks}
          /\ \A cik \in ciks \ named, other \in named :
                RankOf(listing, other) < RankOf(listing, cik)
  BY <1>1, <1>2, CompaniesByRank
<1> QED BY <1>3, Zenon DEF CompaniesOnce, RankOf

\* Whatever the SEC lists and however often it is asked, top_tickers names the first ticker
\* of each company, by rank and none left out before the last (edgar.py top_tickers).
THEOREM UniversesAreRanked == Spec => []CompaniesOnce
<1>1. Init => Ranked
  <2> SUFFICES ASSUME Init PROVE Ranked
    OBVIOUS
  <2>1. call = [kind |-> "prices", names |-> <<>>, size |-> 0, step |-> "returned",
                at |-> 1, read |-> {}] /\ listing = NoListing
    BY DEF Init, Call
  <2> QED BY <2>1 DEF Ranked, IsCall
<1>2. Ranked /\ [Next]_vars => Ranked'
  <2> SUFFICES ASSUME Ranked, [Next]_vars PROVE Ranked'
    OBVIOUS
  <2>0. IsCall /\ call.size \in Nat /\ listing \in Seq(Tickers) \cup {NoListing}
    BY DEF Ranked
  <2>1. ASSUME NEW kind \in Kinds, Reject(kind) PROVE Ranked'
    BY <2>0, <2>1, NewCall DEF Reject, Ranked
  <2>2. ASSUME NEW names, GetPrices(names) \/ GetFundamentals(names) PROVE Ranked'
    BY <2>0, <2>2, NewCall DEF GetPrices, GetFundamentals, Ranked
  <2>3. ASSUME NEW size \in 1..Cardinality(Tickers), GetTopTickers(size) PROVE Ranked'
    BY <2>0, <2>3, NewCall DEF GetTopTickers, Ranked
  <2>4. CASE TakeListing
    <3>1. listing' \in Seq(Tickers) \cup {NoListing}
      <4>1. ASSUME NEW l \in Listings PROVE l \in Seq(Tickers)
        <5>1. PICK m \in 0..Cardinality(Tickers) : l \in [1..m -> Tickers]
          BY <4>1 DEF Listings, Lists
        <5>2. m \in Nat
          BY <5>1
        <5> QED BY <5>1, <5>2
      <4> QED BY <2>0, <2>4, <4>1 DEF TakeListing
    <3>2. Goes("loop") \/ Ends("raised")
      BY <2>4 DEF TakeListing
    <3> QED BY <2>0, <3>1, <3>2, CallFacts DEF Ranked
  <2>5. CASE ReturnTop
    BY <2>0, <2>5, CallFacts DEF ReturnTop, Ranked
  <2>6. CASE Return
    BY <2>0, <2>6, CallFacts DEF Return, Ranked
  <2>7. CASE \/ AskListing \/ LoseListing \/ AskFacts \/ TakeFacts \/ MissFacts
             \/ AskChart \/ TakeChart \/ MissChart
    <3>1. listing' = listing /\ \/ Goes("listing") \/ Goes("facts") \/ Goes("chart")
                                \/ Ends("raised") \/ Read \/ Skip
      BY <2>7 DEF AskListing, LoseListing, AskFacts, TakeFacts, MissFacts,
                  AskChart, TakeChart, MissChart
    <3> QED BY <2>0, <3>1, CallFacts DEF Ranked
  <2>8. CASE EdgarTransport \/ YahooTransport \/ UNCHANGED vars
    <3>1. UNCHANGED <<call, listing>>
      BY <2>8 DEF EdgarTransport, YahooTransport, vars
    <3> QED BY <2>0, <3>1 DEF Ranked, IsCall
  <2> QED BY <2>1, <2>2, <2>3, <2>4, <2>5, <2>6, <2>7, <2>8 DEF Next
<1> QED BY <1>1, <1>2, RankedIsOnce, PTL DEF Spec
================================================================================
