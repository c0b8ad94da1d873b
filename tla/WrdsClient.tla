-------------------------------- MODULE WrdsClient --------------------------------
(***************************************************************************)
(* get_rows of src/data/wrds/client.py on top of HttpClient: a fetch asks   *)
(* for page after page, follows the `next` links, checks every page against *)
(* the filters and stops at a cap.                                          *)
(*                                                                          *)
(* The API is external.  What it serves for one fetch is a sequence of rows *)
(* of which only the filtered cell is kept: "asked" if _values_match says   *)
(* yes, "other" if it says no, "absent" if the row lacks the column.  (An   *)
(* unknown filter is ignored, so anything may be served.)  A page may hold  *)
(* fewer rows than the limit, or more; a link may be http, and there may be *)
(* one after the last row.                                                  *)
(***************************************************************************)
EXTENDS HttpClient, Integers, Sequences

CONSTANTS PageSize,     \* page_size
          Ceiling,      \* MAX_ROWS_CEILING
          MaxServed,    \* bound: how many rows the API has for a fetch
          NoUrl, NoMax  \* Python's None: for a link and for max_rows

VARIABLES fetch,    \* the current call of get_rows
          served    \* what the API has for it

vars == <<http, rested, sent, fetch, served>>

Cells == {"asked", "other", "absent"}
Feeds == UNION {[1..n -> Cells] : n \in 0..MaxServed}
Url   == [scheme : {"http", "https"}, offset : Nat]

ASSUME WrdsAssumption ==
    /\ {PageSize, Ceiling} \subseteq Nat \ {0}
    /\ MaxServed \in Nat
    /\ NoUrl \notin Url
    /\ NoMax \notin Int

Lesser(a, b) == IF a <= b THEN a ELSE b

IdleFetch == [step |-> "idle", filtered |-> FALSE, cap |-> Ceiling, limit |-> PageSize,
              url |-> NoUrl, rows |-> <<>>, truncated |-> FALSE]

\* "rejected" is ValueError, "failed" whatever get_bytes raised.
Outcomes == {"returned", "rejected", "failed"}

Fetch == [step : {"idle", "paging", "waiting"} \cup Outcomes, filtered : BOOLEAN,
          cap : Int, limit : Int, url : Url \cup {NoUrl}, rows : Seq(Cells),
          truncated : BOOLEAN]

--------------------------------------------------------------------------------

Init ==
    /\ HttpInit
    /\ fetch = IdleFetch
    /\ served = <<>>

Ended == fetch.step \in {"idle"} \cup Outcomes

\* A malformed table name or a range operator: no request is made.
Reject ==
    /\ Ended
    /\ fetch' = [IdleFetch EXCEPT !.step = "rejected"]
    /\ UNCHANGED <<http, rested, sent, served>>

\* get_rows up to its loop.  With a max_rows of 0 or less it will not be entered.
Start(filtered, maxRows, rows) ==
    LET cap == IF maxRows = NoMax THEN Ceiling ELSE Lesser(maxRows, Ceiling) IN
    /\ Ended
    /\ fetch' = [step |-> "paging", filtered |-> filtered, cap |-> cap,
                 limit |-> Lesser(PageSize, cap), url |-> [scheme |-> "https", offset |-> 0],
                 rows |-> <<>>, truncated |-> FALSE]
    /\ served' = rows
    /\ UNCHANGED <<http, rested, sent>>

\* The head of the loop: the next request, or the end.
Ask ==
    /\ fetch.step = "paging"
    /\ IF fetch.url # NoUrl /\ Len(fetch.rows) < fetch.cap
          THEN /\ GetBytes
               /\ fetch' = [fetch EXCEPT !.step = "waiting"]
          ELSE /\ fetch' = [fetch EXCEPT !.step = "returned"]
               /\ UNCHANGED <<http, rested, sent>>
    /\ UNCHANGED served

\* Faulty variant: only the first row of a page is looked at.
HonoredFirst(page) == fetch.filtered => page[1] = "asked"

\* _verify_filters: the column is there and every row agrees.
Honored(page) == fetch.filtered => \A i \in DOMAIN page : page[i] = "asked"

\* _upgrade_scheme, or no link.
Upgraded(url) == IF url = NoUrl THEN NoUrl ELSE [url EXCEPT !.scheme = "https"]

\* Faulty variant: reaching the cap is taken for the end of the data.
CappedQuietly(rows, next) ==
    [fetch EXCEPT !.step = "returned", !.rows = SubSeq(rows, 1, fetch.cap),
                  !.truncated = Len(rows) > fetch.cap]

\* The cap is reached.
Capped(rows, next) ==
    [fetch EXCEPT !.step = "returned", !.rows = SubSeq(rows, 1, fetch.cap),
                  !.truncated = next # NoUrl \/ Len(rows) > fetch.cap]

\* Faulty variant: an empty page does not end the loop.
TakePagePersistent(page, next) ==
    LET rows == fetch.rows \o page IN
    \/ /\ ~Honored(page)
       /\ fetch' = [fetch EXCEPT !.step = "rejected"]
    \/ /\ Honored(page) /\ Len(rows) >= fetch.cap
       /\ fetch' = Capped(rows, next)
    \/ /\ Honored(page) /\ Len(rows) < fetch.cap
       /\ fetch' = [fetch EXCEPT !.step = "paging", !.rows = rows, !.url = Upgraded(next)]

\* The body of the loop, given a page and its link.
TakePage(page, next) ==
    LET rows == fetch.rows \o page IN
    \/ /\ page = <<>>
       /\ fetch' = [fetch EXCEPT !.step = "returned"]
    \/ /\ page # <<>> /\ ~Honored(page)
       /\ fetch' = [fetch EXCEPT !.step = "rejected"]
    \/ /\ page # <<>> /\ Honored(page) /\ Len(rows) >= fetch.cap
       /\ fetch' = Capped(rows, next)
    \/ /\ page # <<>> /\ Honored(page) /\ Len(rows) < fetch.cap
       /\ fetch' = [fetch EXCEPT !.step = "paging", !.rows = rows, !.url = Upgraded(next)]

\* The API's page of n rows from an offset, and its links.
PageAt(offset, n) == SubSeq(served, offset + 1, Lesser(offset + n, Len(served)))

Links(offset) == {[scheme |-> s, offset |-> offset] : s \in {"http", "https"}}
                    \cup (IF offset >= Len(served) THEN {NoUrl} ELSE {})

Receive(n) ==
    LET page == PageAt(fetch.url.offset, n) IN
    /\ fetch.step = "waiting"
    /\ http.step = "answered"
    /\ \E next \in Links(fetch.url.offset + Len(page)) : TakePage(page, next)
    /\ http' = [http EXCEPT !.step = "idle"]
    /\ UNCHANGED <<rested, sent, served>>

\* get_bytes raises, and so does get_rows.
Fail ==
    /\ fetch.step = "waiting"
    /\ http.step \in {"failed", "raised"}
    /\ fetch' = [fetch EXCEPT !.step = "failed"]
    /\ http' = [http EXCEPT !.step = "idle"]
    /\ UNCHANGED <<rested, sent, served>>

Transport == HttpNext /\ UNCHANGED <<fetch, served>>

Next ==
    \/ Reject
    \/ \E filtered \in BOOLEAN, maxRows \in -1..Ceiling \cup {NoMax},
          rows \in Feeds : Start(filtered, maxRows, rows)
    \/ Ask \/ Transport \/ Fail
    \/ \E n \in 1..(fetch.limit + 1) : Receive(n)

Working ==
    \/ Ask \/ Transport \/ Fail
    \/ \E n \in 1..(fetch.limit + 1) : Receive(n)

Spec     == Init /\ [][Next]_vars
FairSpec == Spec /\ WF_vars(Working)

--------------------------------------------------------------------------------
(* Properties                                                                   *)

\* The client and its fetch are well formed; a fetch holds rows, a flag and a link of the
\* kinds the code gives them (get_rows).
TypeOK ==
    /\ HttpTypeOK
    /\ fetch \in Fetch
    /\ served \in Seq(Cells)

\* No row that does not satisfy the filters is ever returned, however the API ignores them.
OnlyAskedRows ==
    fetch.step = "returned" /\ fetch.filtered =>
        \A i \in DOMAIN fetch.rows : fetch.rows[i] = "asked"

\* What is returned is the data up to its end or the cap, from the first row, each row
\* once; a result that is not complete is reported as truncated, unless a max_rows of 0
\* or less asked for none of it: then it is empty and nothing is said.
NothingSilentlyMissing ==
    fetch.step = "returned" =>
        /\ fetch.rows = SubSeq(served, 1, Lesser(fetch.cap, Len(served)))
        /\ Len(fetch.rows) < Len(served) /\ fetch.cap > 0 => fetch.truncated

\* The token never goes out on a plain-text link.
NeverPlaintext == fetch.step = "waiting" => fetch.url.scheme = "https"

\* Every fetch ends, whatever is served and however many links there are, as long as
\* every request is answered or times out.
EveryFetchEnds == (fetch.step = "paging") ~> (fetch.step \in Outcomes)
================================================================================
