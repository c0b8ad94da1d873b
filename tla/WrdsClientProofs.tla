----------------------------- MODULE WrdsClientProofs -----------------------------
(***************************************************************************)
(* Theorems about WrdsClient and the HttpClient below it, for any page      *)
(* size, cap and retry count and whatever the API serves.                   *)
(***************************************************************************)
EXTENDS WrdsClient, SequenceTheorems, TLAPS

\* What a sequence over a set holds.
LEMMA SeqFacts ==
  ASSUME NEW S, NEW s \in Seq(S)
  PROVE  Len(s) \in Nat /\ DOMAIN s = 1..Len(s) /\ \A i \in 1..Len(s) : s[i] \in S
  BY LenProperties, ElementOfSeq

\* A slice of a sequence, and what it is made of.
LEMMA SliceFacts ==
  ASSUME NEW S, NEW s \in Seq(S), NEW a \in Nat, NEW b \in Nat, b <= Len(s), a <= b
  PROVE  /\ SubSeq(s, a + 1, b) \in Seq(S)
         /\ Len(SubSeq(s, a + 1, b)) = b - a
         /\ \A i \in 1..(b - a) : SubSeq(s, a + 1, b)[i] = s[a + i]
<1>1. \A i \in (a + 1)..b : s[i] \in S
  BY SeqFacts
<1> QED BY <1>1, SubSeqProperties

\* A prefix and the slice that follows it are a longer prefix.
LEMMA PrefixGrows ==
  ASSUME NEW S, NEW s \in Seq(S), NEW a \in Nat, NEW b \in Nat, a <= b, b <= Len(s)
  PROVE  SubSeq(s, 1, a) \o SubSeq(s, a + 1, b) = SubSeq(s, 1, b)
<1> DEFINE p == SubSeq(s, 1, a)
           q == SubSeq(s, a + 1, b)
           r == SubSeq(s, 1, b)
<1>1. Len(s) \in Nat /\ a <= Len(s) /\ 0 + 1 = 1
  BY SeqFacts
<1>2. p \in Seq(S) /\ Len(p) = a /\ \A i \in 1..a : p[i] = s[i]
  BY <1>1, SliceFacts, 0 \in Nat, a - 0 = a
<1>3. q \in Seq(S) /\ Len(q) = b - a /\ \A i \in 1..(b - a) : q[i] = s[a + i]
  BY SliceFacts
<1>4. r \in Seq(S) /\ Len(r) = b /\ \A i \in 1..b : r[i] = s[i]
  BY <1>1, SliceFacts, 0 \in Nat, b - 0 = b
<1> HIDE DEF p, q, r
<1>a. p \in Seq(S) /\ q \in Seq(S)
  BY <1>2, <1>3
<1>b. /\ p \o q \in Seq(S)
      /\ Len(p \o q) = Len(p) + Len(q)
      /\ \A i \in 1..(Len(p) + Len(q)) :
            (p \o q)[i] = IF i <= Len(p) THEN p[i] ELSE q[i - Len(p)]
  BY <1>a, ConcatProperties
<1>c. a + (b - a) = b
  OBVIOUS
<1>5. p \o q \in Seq(S) /\ Len(p \o q) = b
  BY <1>2, <1>3, <1>b, <1>c
<1>6. ASSUME NEW i \in 1..b PROVE (p \o q)[i] = r[i]
  <2>1. (p \o q)[i] = IF i <= a THEN p[i] ELSE q[i - a]
    BY <1>2, <1>3, <1>b, <1>c
  <2>2. CASE i <= a
    BY <1>2, <1>4, <2>1, <2>2
  <2>3. CASE i > a
    <3>1. i - a \in 1..(b - a) /\ a + (i - a) = i
      BY <2>3
    <3>2. q[i - a] = s[a + (i - a)]
      BY <1>3, <3>1
    <3>3. (p \o q)[i] = q[i - a]
      BY <2>1, <2>3
    <3> QED BY <1>4, <3>1, <3>2, <3>3
  <2>4. i <= a \/ i > a
    OBVIOUS
  <2> QED BY <2>2, <2>3, <2>4
<1>7. p \o q = r
  BY <1>4, <1>5, <1>6, SeqEqual
<1> QED BY <1>7 DEF p, q, r

\* A prefix of a prefix.
LEMMA PrefixOfPrefix ==
  ASSUME NEW S, NEW s \in Seq(S), NEW a \in Nat, NEW b \in Nat, a <= b, b <= Len(s)
  PROVE  SubSeq(SubSeq(s, 1, b), 1, a) = SubSeq(s, 1, a)
<1> DEFINE p == SubSeq(s, 1, a)
           r == SubSeq(s, 1, b)
           q == SubSeq(r, 1, a)
<1>1. Len(s) \in Nat /\ a <= Len(s) /\ 0 + 1 = 1
  BY SeqFacts
<1>2. p \in Seq(S) /\ Len(p) = a /\ \A i \in 1..a : p[i] = s[i]
  BY <1>1, SliceFacts, 0 \in Nat, a - 0 = a
<1>3. r \in Seq(S) /\ Len(r) = b /\ \A i \in 1..b : r[i] = s[i]
  BY <1>1, SliceFacts, 0 \in Nat, b - 0 = b
<1> HIDE DEF p, r
<1>4. q \in Seq(S) /\ Len(q) = a /\ \A i \in 1..a : q[i] = r[i]
  BY <1>1, <1>3, SliceFacts, 0 \in Nat, a - 0 = a
<1> HIDE DEF q
<1>5. \A i \in 1..a : q[i] = p[i]
  BY <1>2, <1>3, <1>4
<1>6. q = p
  BY <1>2, <1>4, <1>5, SeqEqual
<1> QED BY <1>6 DEF p, q, r

\* The prefix of full length is the sequence, the one of length zero is empty.
LEMMA WholePrefix ==
  ASSUME NEW S, NEW s \in Seq(S)
  PROVE  SubSeq(s, 1, Len(s)) = s /\ SubSeq(s, 1, 0) = <<>>
<1> DEFINE r == SubSeq(s, 1, Len(s))
<1>1. Len(s) \in Nat /\ 0 + 1 = 1
  BY SeqFacts
<1>2. r \in Seq(S) /\ Len(r) = Len(s) /\ \A i \in 1..Len(s) : r[i] = s[i]
  BY <1>1, SliceFacts, 0 \in Nat, Len(s) - 0 = Len(s)
<1>3. r = s
  BY <1>2, SeqEqual
<1>4. SubSeq(s, 1, 0) = <<>>
  BY SubSeqEmpty
<1> QED BY <1>3, <1>4

--------------------------------------------------------------------------------
(* Types                                                                        *)

\* The settings of the HTTP client are natural numbers.
LEMMA HttpConstants == MaxRetries \in Nat /\ BackoffBase \in Nat /\ MinInterval \in Nat
  BY HttpAssumption

HttpClients == [made : BOOLEAN, step : Steps, attempt : Nat, delay : Nat,
                status : Statuses \cup {"none"}]

\* What the steps of get_bytes do to the client.
LEMMA HttpFacts ==
  ASSUME http \in HttpClients, rested \in Nat
  PROVE  /\ GetBytes => http' \in HttpClients /\ rested' \in Nat /\ sent' = sent
         /\ HttpNext => http' \in HttpClients /\ rested' \in Nat /\ sent' = TRUE
         /\ \A s \in Steps : [http EXCEPT !.step = s] \in HttpClients
<1>1. \A s \in Steps :
        /\ [http EXCEPT !.step = s] \in HttpClients
        /\ \A t \in Statuses : [http EXCEPT !.step = s, !.status = t] \in HttpClients
  BY DEF HttpClients
<1>2. ASSUME GetBytes PROVE http' \in HttpClients /\ rested' \in Nat /\ sent' = sent
  <2>1. http' \in HttpClients
    BY <1>2, HttpConstants DEF GetBytes, HttpClients, Steps
  <2>2. rested' \in Nat
    BY <1>2, HttpConstants DEF GetBytes
  <2> QED BY <1>2, <2>1, <2>2 DEF GetBytes
<1>3. ASSUME HttpNext PROVE http' \in HttpClients /\ rested' \in Nat /\ sent' = TRUE
  <2>1. CASE Lose
    BY <1>1, <2>1 DEF Lose, Steps
  <2>2. ASSUME NEW status \in Statuses, Send(status)
        PROVE  http' \in HttpClients /\ rested' \in Nat /\ sent' = TRUE
    <3>1. CASE status = "transient" /\ http.attempt + 1 < MaxRetries
      <4>1. http' = [http EXCEPT !.attempt = @ + 1, !.delay = 2 * @] /\ rested' = http.delay
        BY <2>2, <3>1 DEF Send
      <4>2. http.attempt + 1 \in Nat /\ 2 * http.delay \in Nat /\ http.delay \in Nat
        BY DEF HttpClients
      <4>3. http' = [http EXCEPT !.attempt = http.attempt + 1, !.delay = 2 * http.delay]
        BY <4>1
      <4>4. \A a, d \in Nat : [http EXCEPT !.attempt = a, !.delay = d] \in HttpClients
        BY DEF HttpClients
      <4>5. http' \in HttpClients
        BY <4>2, <4>3, <4>4
      <4> QED BY <2>2, <4>1, <4>2, <4>5 DEF Send
    <3>2. CASE ~(status = "transient" /\ http.attempt + 1 < MaxRetries)
      <4>1. PICK s \in {"answered", "failed"} :
              http' = [http EXCEPT !.step = s, !.status = status]
        BY <2>2, <3>2 DEF Send
      <4>2. http' \in HttpClients
        BY <1>1, <4>1 DEF Steps
      <4> QED BY <2>2, <3>2, <4>2 DEF Send
    <3> QED BY <3>1, <3>2
  <2> QED BY <1>3, <2>1, <2>2 DEF HttpNext
<1> QED BY <1>1, <1>2, <1>3

\* The lesser of two numbers is one of them and bounded by both.
LEMMA LesserFacts ==
  ASSUME NEW a \in Int, NEW b \in Int
  PROVE  Lesser(a, b) \in Int /\ Lesser(a, b) <= a /\ Lesser(a, b) <= b
         /\ (Lesser(a, b) = a \/ Lesser(a, b) = b)
  BY DEF Lesser

\* The same of a number of rows and the number there are, where neither is negative.
LEMMA LesserNat ==
  ASSUME NEW a \in Nat, NEW b \in Nat
  PROVE  Lesser(a, b) \in Nat /\ Lesser(a, b) <= a /\ Lesser(a, b) <= b
         /\ (Lesser(a, b) = a \/ Lesser(a, b) = b)
  BY DEF Lesser

\* The fields of a fetch, and the updates the code makes.
LEMMA FetchFacts ==
  \A f \in Fetch :
     /\ f.cap \in Int /\ f.limit \in Int /\ f.url \in Url \cup {NoUrl}
     /\ f.rows \in Seq(Cells) /\ f.filtered \in BOOLEAN /\ f.truncated \in BOOLEAN
     /\ \A s \in {"idle", "paging", "waiting"} \cup Outcomes :
           [f EXCEPT !.step = s] \in Fetch
     /\ \A r \in Seq(Cells), t \in BOOLEAN :
           [f EXCEPT !.step = "returned", !.rows = r, !.truncated = t] \in Fetch
     /\ \A r \in Seq(Cells), u \in Url \cup {NoUrl} :
           [f EXCEPT !.step = "paging", !.rows = r, !.url = u] \in Fetch
  BY DEF Fetch, Outcomes

\* The client before its first call, a fetch that holds nothing.
LEMMA IdleIsAFetch == IdleFetch \in Fetch
<1>1. Ceiling \in Int /\ PageSize \in Int
  BY WrdsAssumption
<1> QED BY <1>1, EmptySeq DEF IdleFetch, Fetch

\* What the next links of the API are, and what upgrading one (client.py _upgrade_scheme) keeps.
LEMMA LinkFacts ==
  ASSUME NEW o \in Nat, NEW next \in Links(o)
  PROVE  /\ next \in Url \cup {NoUrl}
         /\ Upgraded(next) \in Url \cup {NoUrl}
         /\ next = NoUrl => o >= Len(served) /\ Upgraded(next) = NoUrl
         /\ next # NoUrl => /\ Upgraded(next) # NoUrl
                            /\ Upgraded(next).offset = o
                            /\ Upgraded(next).scheme = "https"
<1>1. CASE next \in {[scheme |-> s, offset |-> o] : s \in {"http", "https"}}
  <2>1. next \in Url /\ next.offset = o
    BY <1>1 DEF Url
  <2>2. next # NoUrl
    BY <2>1, WrdsAssumption
  <2>3. Upgraded(next) = [next EXCEPT !.scheme = "https"]
    BY <2>2 DEF Upgraded
  <2>4. Upgraded(next) \in Url /\ Upgraded(next).offset = o /\ Upgraded(next).scheme = "https"
    BY <2>1, <2>3 DEF Url
  <2> QED BY <2>1, <2>2, <2>4, WrdsAssumption
<1>2. CASE next = NoUrl
  <2>1. NoUrl \notin {[scheme |-> s, offset |-> o] : s \in {"http", "https"}}
    BY WrdsAssumption DEF Url
  <2> QED BY <1>2, <2>1 DEF Links, Upgraded
<1> QED BY <1>1, <1>2 DEF Links

\* A page the API serves is a sequence of rows.
LEMMA PageType ==
  ASSUME NEW n \in Nat, TypeOK, fetch.url \in Url
  PROVE  PageAt(fetch.url.offset, n) \in Seq(Cells)
<1> DEFINE o == fetch.url.offset
           m == Lesser(o + n, Len(served))
<1>1. o \in Nat /\ Len(served) \in Nat /\ served \in Seq(Cells)
  BY SeqFacts DEF TypeOK, Url
<1>0. o + n \in Nat
  BY <1>1
<1>2. m \in Nat /\ m <= Len(served)
  BY <1>0, <1>1, LesserNat
<1>3. \A i \in (o + 1)..m : served[i] \in Cells
  BY <1>1, <1>2, SeqFacts
<1> QED BY <1>1, <1>2, <1>3, SubSeqProperties DEF PageAt

\* Cutting a result at the cap leaves a sequence of rows (client.py get_rows).
LEMMA PrefixType ==
  ASSUME NEW r \in Seq(Cells), NEW c \in Nat, c <= Len(r)
  PROVE  SubSeq(r, 1, c) \in Seq(Cells)
<1>1. \A i \in 1..c : r[i] \in Cells
  BY SeqFacts
<1> QED BY <1>1, SubSeqProperties

\* A request is only made on a link, and for some rows.
Linked == fetch.step = "waiting" => fetch.url \in Url /\ fetch.cap \in Nat

\* The client's state is well typed, and a request is only made on a link: the inductive
\* invariant the other theorems rest on.
LEMMA FetchTypeInvariant == Spec => [](TypeOK /\ Linked)
<1>1. Init => TypeOK /\ Linked
  <2> SUFFICES ASSUME Init PROVE TypeOK /\ Linked
    OBVIOUS
  <2>1. IdleFetch \in Fetch
    BY IdleIsAFetch
  <2>2. HttpTypeOK
    BY HttpAssumption DEF Init, HttpInit, HttpTypeOK, Steps
  <2> QED BY <2>1, <2>2, EmptySeq DEF Init, TypeOK, Linked, IdleFetch
<1>2. TypeOK /\ Linked /\ [Next]_vars => (TypeOK /\ Linked)'
  <2> SUFFICES ASSUME TypeOK, Linked, [Next]_vars PROVE TypeOK' /\ Linked'
    OBVIOUS
  <2>0. /\ http \in HttpClients
        /\ rested \in Nat /\ sent \in BOOLEAN
        /\ fetch \in Fetch /\ served \in Seq(Cells)
    BY DEF TypeOK, HttpTypeOK, HttpClients
  <2>1. CASE Reject
    <3>1. [IdleFetch EXCEPT !.step = "rejected"] \in Fetch
      BY IdleIsAFetch, FetchFacts DEF Outcomes
    <3>2. [IdleFetch EXCEPT !.step = "rejected"].step = "rejected"
      BY DEF IdleFetch
    <3> QED BY <2>0, <2>1, <3>1, <3>2 DEF Reject, TypeOK, HttpTypeOK, HttpClients, Linked
  <2>2. ASSUME NEW filtered \in BOOLEAN, NEW maxRows \in -1..Ceiling \cup {NoMax},
               NEW rows \in Feeds, Start(filtered, maxRows, rows)
        PROVE  TypeOK' /\ Linked'
    <3> DEFINE cap == IF maxRows = NoMax THEN Ceiling ELSE Lesser(maxRows, Ceiling)
    <3>1. cap \in Int
      BY LesserFacts, WrdsAssumption
    <3>2. Lesser(PageSize, cap) \in Int
      BY <3>1, LesserFacts, WrdsAssumption
    <3>3. [scheme |-> "https", offset |-> 0] \in Url /\ <<>> \in Seq(Cells)
      BY EmptySeq DEF Url
    <3>4. fetch' \in Fetch /\ fetch'.step = "paging"
      <4> HIDE DEF cap
      <4>1. fetch' = [step |-> "paging", filtered |-> filtered, cap |-> cap,
                      limit |-> Lesser(PageSize, cap),
                      url |-> [scheme |-> "https", offset |-> 0],
                      rows |-> <<>>, truncated |-> FALSE]
        BY <2>2 DEF Start, cap
      <4> QED BY <3>1, <3>2, <3>3, <4>1 DEF Fetch
    <3>5. rows \in Seq(Cells)
      BY SeqDef DEF Feeds
    <3> QED BY <2>0, <2>2, <3>4, <3>5 DEF Start, TypeOK, HttpTypeOK, HttpClients, Linked
  <2>3. CASE Ask
    <3>1. CASE fetch.url # NoUrl /\ Len(fetch.rows) < fetch.cap
      <4>1. http' \in HttpClients /\ rested' \in Nat /\ sent' = sent
        BY <2>0, <2>3, <3>1, HttpFacts DEF Ask
      <4>2. fetch' = [fetch EXCEPT !.step = "waiting"] /\ served' = served
        BY <2>3, <3>1 DEF Ask
      <4>3. fetch' \in Fetch /\ fetch'.url = fetch.url
        BY <2>0, <4>2, FetchFacts DEF Fetch
      <4>4. fetch'.url \in Url /\ fetch'.cap = fetch.cap
        BY <2>0, <3>1, <4>2, <4>3, FetchFacts DEF Fetch
      <4>5. fetch.cap \in Nat
        <5>1. Len(fetch.rows) \in Nat /\ fetch.cap \in Int /\ Len(fetch.rows) < fetch.cap
          BY <2>0, <3>1, FetchFacts, SeqFacts
        <5> QED BY <5>1
      <4> QED BY <2>0, <4>5, <4>1, <4>2, <4>3, <4>4 DEF TypeOK, HttpTypeOK, HttpClients, Linked
    <3>2. CASE ~(fetch.url # NoUrl /\ Len(fetch.rows) < fetch.cap)
      <4>1. fetch' = [fetch EXCEPT !.step = "returned"]
        BY <2>3, <3>2 DEF Ask
      <4>2. fetch' \in Fetch /\ fetch'.step = "returned"
        BY <2>0, <4>1, FetchFacts DEF Fetch, Outcomes
      <4> QED BY <2>0, <2>3, <3>2, <4>2 DEF Ask, TypeOK, HttpTypeOK, HttpClients, Linked
    <3> QED BY <3>1, <3>2
  <2>4. CASE Transport
    <3>1. http' \in HttpClients /\ rested' \in Nat /\ sent' = TRUE
      BY <2>0, <2>4, HttpFacts DEF Transport
    <3> QED BY <2>0, <2>4, <3>1 DEF Transport, TypeOK, HttpTypeOK, HttpClients, Linked
  <2>5. CASE Fail
    <3>1. fetch' \in Fetch /\ fetch'.step = "failed"
      BY <2>0, <2>5, FetchFacts DEF Fail, Fetch, Outcomes
    <3>2. http' \in HttpClients
      BY <2>0, <2>5, HttpFacts DEF Fail, Steps
    <3> QED BY <2>0, <2>5, <3>1, <3>2 DEF Fail, TypeOK, HttpTypeOK, HttpClients, Linked
  <2>6. ASSUME NEW n \in 1..(fetch.limit + 1), Receive(n) PROVE TypeOK' /\ Linked'
    <3> DEFINE page == PageAt(fetch.url.offset, n)
    <3>0. fetch.limit \in Int /\ fetch.step = "waiting" /\ fetch.cap \in Nat
      BY <2>0, <2>6, FetchFacts DEF Receive, Linked
    <3>1. n \in Nat /\ fetch.url \in Url /\ fetch.url.offset \in Nat
      <4>1. n \in Nat
        BY <3>0
      <4>2. fetch.url \in Url
        BY <3>0 DEF Linked
      <4> QED BY <4>1, <4>2 DEF Url
    <3>2. page \in Seq(Cells) /\ Len(page) \in Nat
      BY <3>1, PageType, SeqFacts
    <3>3. PICK next \in Links(fetch.url.offset + Len(page)) : TakePage(page, next)
      BY <2>6 DEF Receive
    <3>4. Upgraded(next) \in Url \cup {NoUrl}
      BY <3>1, <3>2, <3>3, LinkFacts
    <3>5. fetch.rows \o page \in Seq(Cells) /\ Len(fetch.rows \o page) \in Nat
      BY <2>0, <3>2, FetchFacts, ConcatProperties, SeqFacts
    <3>6. fetch' \in Fetch /\ fetch'.step # "waiting"
      <4> HIDE DEF page
      <4> DEFINE r == fetch.rows \o page
      <4>1. CASE fetch' = [fetch EXCEPT !.step = "returned"]
                 \/ fetch' = [fetch EXCEPT !.step = "rejected"]
        <5>1. ASSUME NEW s \in {"returned", "rejected"}
              PROVE  /\ [fetch EXCEPT !.step = s] \in Fetch
                     /\ [fetch EXCEPT !.step = s].step # "waiting"
          <6>1. [fetch EXCEPT !.step = s] \in Fetch
            BY <2>0, FetchFacts DEF Outcomes
          <6> QED BY <2>0, <6>1 DEF Fetch
        <5> QED BY <4>1, <5>1
      <4>2. CASE Len(r) >= fetch.cap /\ fetch' = Capped(r, next)
        <5>1. SubSeq(r, 1, fetch.cap) \in Seq(Cells)
          BY <2>0, <3>0, <3>5, <4>2, FetchFacts, PrefixType
        <5>2. (next # NoUrl \/ Len(r) > fetch.cap) \in BOOLEAN
          OBVIOUS
        <5>3. fetch' \in Fetch
          BY <2>0, <4>2, <5>1, <5>2, FetchFacts DEF Capped
        <5> QED BY <2>0, <4>2, <5>3 DEF Capped, Fetch
      <4>3. CASE fetch' = [fetch EXCEPT !.step = "paging", !.rows = r, !.url = Upgraded(next)]
        <5>1. fetch' \in Fetch
          BY <2>0, <3>4, <3>5, <4>3, FetchFacts
        <5> QED BY <2>0, <4>3, <5>1 DEF Fetch
      <4>4. \/ fetch' = [fetch EXCEPT !.step = "returned"]
            \/ fetch' = [fetch EXCEPT !.step = "rejected"]
            \/ Len(r) >= fetch.cap /\ fetch' = Capped(r, next)
            \/ fetch' = [fetch EXCEPT !.step = "paging", !.rows = r, !.url = Upgraded(next)]
        BY <3>3 DEF TakePage
      <4> QED BY <4>1, <4>2, <4>3, <4>4
    <3>7. http' \in HttpClients
      BY <2>0, <2>6, HttpFacts DEF Receive, Steps
    <3> QED BY <2>0, <2>6, <3>6, <3>7 DEF Receive, TypeOK, HttpTypeOK, HttpClients, Linked
  <2>7. CASE UNCHANGED vars
    BY <2>7 DEF vars, TypeOK, HttpTypeOK, Linked
  <2> QED BY <2>1, <2>2, <2>3, <2>4, <2>5, <2>6, <2>7 DEF Next
<1> QED BY <1>1, <1>2, PTL DEF Spec

\* The state of the client stays well typed, whatever is served.
THEOREM FetchTypeCorrect == Spec => []TypeOK
<1>1. TypeOK /\ Linked => TypeOK
  OBVIOUS
<1> QED BY <1>1, FetchTypeInvariant, PTL

--------------------------------------------------------------------------------
(* Distance.  While a request is pending the next wait is already fixed: it is   *)
(* at least the backoff base, and the rest so far is at least the interval.      *)

Resting ==
    /\ Polite
    /\ http.delay >= BackoffBase
    /\ sent => http.made
    /\ http.step = "send" => http.made /\ fetch.step = "waiting"

\* A retry waits at least as long as a new call does, so every request keeps its
\* distance to the one before, whatever fails in between.
THEOREM RequestsArePolite ==
  ASSUME MinInterval <= BackoffBase
  PROVE  Spec => []Polite
<1>1. Init => Resting
  BY HttpConstants DEF Init, HttpInit, Resting, Polite
<1>2. TypeOK /\ Resting /\ [Next]_vars => Resting'
  <2> SUFFICES ASSUME TypeOK, Resting, [Next]_vars PROVE Resting'
    OBVIOUS
  <2>0. http \in HttpClients /\ rested \in Nat /\ fetch \in Fetch
    BY DEF TypeOK, HttpTypeOK, HttpClients
  <2>1. ASSUME UNCHANGED <<http, rested, sent>>, http.step # "send" PROVE Resting'
    BY <2>1 DEF Resting, Polite
  <2>2. CASE Ask
    <3>1. CASE fetch.url # NoUrl /\ Len(fetch.rows) < fetch.cap
      <4>1. GetBytes /\ fetch' = [fetch EXCEPT !.step = "waiting"]
        BY <2>2, <3>1 DEF Ask
      <4>2. http'.made /\ http'.delay = BackoffBase /\ fetch'.step = "waiting"
        BY <2>0, <4>1 DEF GetBytes, Fetch
      <4>3. sent' = sent /\ (http.made => rested' >= MinInterval)
        BY <2>0, <4>1, HttpConstants DEF GetBytes
      <4> QED BY <4>2, <4>3, HttpConstants DEF Resting, Polite
    <3>2. CASE ~(fetch.url # NoUrl /\ Len(fetch.rows) < fetch.cap)
      BY <2>1, <2>2, <3>2 DEF Ask, Resting
    <3> QED BY <3>1, <3>2
  <2>3. CASE Transport
    <3>1. http.made /\ http.delay \in Nat /\ http.delay >= BackoffBase
          /\ fetch' = fetch /\ fetch.step = "waiting"
      <4>1. http.step = "send"
        BY <2>3 DEF Transport, HttpNext, Send, Lose
      <4> QED BY <2>0, <2>3, <4>1 DEF Transport, Resting, HttpClients
    <3>2. ASSUME NEW status \in Statuses, Send(status),
                 status = "transient" /\ http.attempt + 1 < MaxRetries
          PROVE  Resting'
      <4>1. http'.made = http.made /\ http'.delay = 2 * http.delay /\ rested' = http.delay
        BY <2>0, <3>2 DEF Send, HttpClients
      <4> QED BY <3>1, <4>1, HttpConstants DEF Resting, Polite
    <3>3. ASSUME NEW s \in Steps \ {"send"}, NEW t \in Statuses \cup {"none"},
                 http' = [http EXCEPT !.step = s, !.status = t]
          PROVE  Resting'
      <4>1. http'.made = http.made /\ http'.delay = http.delay /\ http'.step # "send"
        BY <2>0, <3>3 DEF HttpClients
      <4> QED BY <3>1, <4>1 DEF Resting, Polite
    <3>4. CASE Lose
      <4>1. http' = [http EXCEPT !.step = "raised", !.status = http.status]
        BY <2>0, <3>4 DEF Lose, HttpClients
      <4> QED BY <2>0, <3>3, <4>1 DEF HttpClients, Steps
    <3>5. ASSUME NEW status \in Statuses, Send(status),
                 ~(status = "transient" /\ http.attempt + 1 < MaxRetries)
          PROVE  Resting'
      BY <3>3, <3>5 DEF Send, Steps
    <3> QED BY <2>3, <3>2, <3>4, <3>5 DEF Transport, HttpNext
  <2>4. ASSUME http' = [http EXCEPT !.step = "idle"], UNCHANGED <<rested, sent>>
        PROVE  Resting'
    <3>1. http'.made = http.made /\ http'.delay = http.delay /\ http'.step = "idle"
      BY <2>0, <2>4 DEF HttpClients
    <3> QED BY <2>4, <3>1 DEF Resting, Polite
  <2>5. ASSUME NEW n \in 1..(fetch.limit + 1), Receive(n) PROVE Resting'
    BY <2>4, <2>5 DEF Receive
  <2>6. CASE Fail
    BY <2>4, <2>6 DEF Fail
  <2>7. CASE UNCHANGED vars
    BY <2>7 DEF vars, Resting, Polite
  <2>8. CASE Reject
    BY <2>1, <2>8 DEF Reject, Ended, Outcomes, Resting
  <2>9. ASSUME NEW filtered \in BOOLEAN, NEW maxRows \in -1..Ceiling \cup {NoMax},
               NEW rows \in Feeds, Start(filtered, maxRows, rows)
        PROVE  Resting'
    BY <2>1, <2>9 DEF Start, Ended, Outcomes, Resting
  <2> QED BY <2>2, <2>3, <2>5, <2>6, <2>7, <2>8, <2>9 DEF Next
<1>3. Resting => Polite
  BY DEF Resting
<1> QED BY <1>1, <1>2, <1>3, FetchTypeCorrect, PTL DEF Spec

--------------------------------------------------------------------------------
(* Completeness.  While a fetch goes on, its rows are the first ones served and  *)
(* the link is exactly at their end.                                            *)

Exact ==
    /\ fetch.step \in {"paging", "waiting"} =>
          /\ Len(fetch.rows) <= Len(served)
          /\ fetch.rows = SubSeq(served, 1, Len(fetch.rows))
          /\ \/ Len(fetch.rows) < fetch.cap
             \/ fetch.cap <= 0 /\ fetch.rows = <<>> /\ fetch.step = "paging"
          /\ fetch.url = NoUrl => Len(fetch.rows) = Len(served)
          /\ fetch.url # NoUrl => /\ fetch.url.offset = Len(fetch.rows)
                                  /\ fetch.url.scheme = "https"
          /\ fetch.filtered => \A i \in DOMAIN fetch.rows : fetch.rows[i] = "asked"
    /\ NothingSilentlyMissing
    /\ OnlyAskedRows

\* A page served from the end of the rows so far.
LEMMA PageFacts ==
  ASSUME TypeOK, Exact, fetch.step = "waiting", fetch.url \in Url, NEW n \in Nat \ {0}
  PROVE  LET o    == Len(fetch.rows)
             m    == Lesser(o + n, Len(served))
             page == PageAt(o, n)
         IN  /\ o \in Nat /\ m \in Nat /\ o <= m /\ m <= Len(served)
             /\ page \in Seq(Cells) /\ Len(page) = m - o
             /\ fetch.rows \o page = SubSeq(served, 1, m)
             /\ fetch.rows \o page \in Seq(Cells)
             /\ Len(fetch.rows \o page) = m
             /\ page = <<>> => o = Len(served)
<1> DEFINE o == Len(fetch.rows)
           m == Lesser(o + n, Len(served))
           page == PageAt(o, n)
<1>1. fetch.rows \in Seq(Cells) /\ served \in Seq(Cells) /\ o \in Nat /\ Len(served) \in Nat
  BY FetchFacts, SeqFacts DEF TypeOK
<1>2. o <= Len(served) /\ fetch.rows = SubSeq(served, 1, o)
  BY DEF Exact
<1>3. o + n \in Nat /\ o + n > o
  BY <1>1
<1>4. m \in Nat /\ o <= m /\ m <= Len(served) /\ (m = o => o = Len(served))
  <2>1. m \in Nat /\ m <= o + n /\ m <= Len(served) /\ (m = o + n \/ m = Len(served))
    BY <1>1, <1>3, LesserNat
  <2> QED BY <1>1, <1>2, <1>3, <2>1
<1> HIDE DEF o, m
<1>5. page = SubSeq(served, o + 1, m)
  BY DEF PageAt, m
<1>6. page \in Seq(Cells) /\ Len(page) = m - o
  BY <1>1, <1>4, <1>5, SliceFacts
<1> HIDE DEF page
<1>7. fetch.rows \o page = SubSeq(served, 1, m)
  BY <1>1, <1>2, <1>4, <1>5, PrefixGrows
<1>8. fetch.rows \o page \in Seq(Cells) /\ Len(fetch.rows \o page) = Len(fetch.rows) + Len(page)
  BY <1>1, <1>6, ConcatProperties
<1>9. Len(fetch.rows \o page) = m
  BY <1>1, <1>4, <1>6, <1>8 DEF o
<1>10. page = <<>> => Len(page) = 0
  BY EmptySeq
<1>11. page = <<>> => o = Len(served)
  BY <1>1, <1>4, <1>6, <1>10
<1> QED BY <1>1, <1>4, <1>6, <1>7, <1>8, <1>9, <1>11 DEF o, m, page

\* Appending a page that agrees with the filters keeps all rows agreeing.
LEMMA HonoredGrows ==
  ASSUME NEW r \in Seq(Cells), NEW p \in Seq(Cells),
         \A i \in DOMAIN r : r[i] = "asked", \A i \in DOMAIN p : p[i] = "asked"
  PROVE  \A i \in DOMAIN (r \o p) : (r \o p)[i] = "asked"
<1>1. /\ r \o p \in Seq(Cells) /\ Len(r \o p) = Len(r) + Len(p)
      /\ \A i \in 1..(Len(r) + Len(p)) :
            (r \o p)[i] = IF i <= Len(r) THEN r[i] ELSE p[i - Len(r)]
  BY ConcatProperties
<1>2. /\ DOMAIN (r \o p) = 1..(Len(r) + Len(p))
      /\ DOMAIN r = 1..Len(r) /\ DOMAIN p = 1..Len(p)
      /\ Len(r) \in Nat /\ Len(p) \in Nat
  BY <1>1, SeqFacts
<1> SUFFICES ASSUME NEW i \in 1..(Len(r) + Len(p)) PROVE (r \o p)[i] = "asked"
  BY <1>2
<1>3. CASE i <= Len(r)
  BY <1>1, <1>2, <1>3
<1>4. CASE i > Len(r)
  <2>1. i - Len(r) \in 1..Len(p)
    BY <1>2, <1>4
  <2>2. p[i - Len(r)] = "asked"
    BY <1>2, <2>1
  <2> QED BY <1>1, <1>2, <1>4, <2>2
<1>5. i <= Len(r) \/ i > Len(r)
  BY <1>2
<1> QED BY <1>3, <1>4, <1>5

\* A prefix of rows that all agree.
LEMMA HonoredPrefix ==
  ASSUME NEW r \in Seq(Cells), NEW c \in Nat, c <= Len(r),
         \A i \in DOMAIN r : r[i] = "asked"
  PROVE  \A i \in DOMAIN SubSeq(r, 1, c) : SubSeq(r, 1, c)[i] = "asked"
<1>1. Len(r) \in Nat /\ DOMAIN r = 1..Len(r) /\ 0 + 1 = 1 /\ c - 0 = c
  BY SeqFacts
<1>2. /\ SubSeq(r, 1, c) \in Seq(Cells) /\ Len(SubSeq(r, 1, c)) = c
      /\ \A i \in 1..c : SubSeq(r, 1, c)[i] = r[i]
  BY <1>1, SliceFacts, 0 \in Nat
<1>3. DOMAIN SubSeq(r, 1, c) = 1..c
  BY <1>2, SeqFacts
<1> QED BY <1>1, <1>2, <1>3

\* Every step of get_rows keeps the collected rows the first rows of the data, each
\* matching the filters it asked for, and an incomplete result reported.
LEMMA ExactInvariant == TypeOK /\ Linked /\ Exact /\ [Next]_vars => Exact'
<1> SUFFICES ASSUME TypeOK, Linked, Exact, [Next]_vars PROVE Exact'
  OBVIOUS
<1>0. /\ fetch \in Fetch /\ served \in Seq(Cells) /\ Len(served) \in Nat
      /\ fetch.rows \in Seq(Cells) /\ Len(fetch.rows) \in Nat /\ fetch.cap \in Int
      /\ fetch.filtered \in BOOLEAN
  BY FetchFacts, SeqFacts DEF TypeOK
<1>1. ASSUME fetch'.step \in {"rejected", "failed"} PROVE Exact'
  BY <1>1 DEF Exact, NothingSilentlyMissing, OnlyAskedRows
<1>2. CASE Reject
  <2>1. fetch'.step = "rejected"
    BY <1>2 DEF Reject, IdleFetch
  <2> QED BY <1>1, <2>1
<1>3. ASSUME NEW filtered \in BOOLEAN, NEW maxRows \in -1..Ceiling \cup {NoMax},
             NEW rows \in Feeds, Start(filtered, maxRows, rows)
      PROVE  Exact'
  <2> DEFINE cap == IF maxRows = NoMax THEN Ceiling ELSE Lesser(maxRows, Ceiling)
  <2>1. cap \in Int
    BY LesserFacts, WrdsAssumption
  <2> HIDE DEF cap
  <2>2. fetch' = [step |-> "paging", filtered |-> filtered, cap |-> cap,
                  limit |-> Lesser(PageSize, cap),
                  url |-> [scheme |-> "https", offset |-> 0],
                  rows |-> <<>>, truncated |-> FALSE]
    BY <1>3 DEF Start, cap
  <2>3. rows \in Seq(Cells) /\ served' = rows
    BY <1>3, SeqDef DEF Feeds, Start
  <2>4. /\ Len(<<>>) = 0 /\ 0 <= Len(rows) /\ <<>> = SubSeq(rows, 1, 0)
        /\ DOMAIN <<>> = {}
    BY <2>3, EmptySeq, WholePrefix, SeqFacts
  <2>5. [scheme |-> "https", offset |-> 0] # NoUrl
    BY WrdsAssumption DEF Url
  <2>6. /\ fetch'.step = "paging" /\ fetch'.rows = <<>> /\ fetch'.cap = cap
        /\ fetch'.url = [scheme |-> "https", offset |-> 0]
    BY <2>2
  <2> QED BY <2>1, <2>3, <2>4, <2>5, <2>6 DEF Exact, NothingSilentlyMissing, OnlyAskedRows
<1>4. CASE Ask
  <2>1. CASE fetch.url # NoUrl /\ Len(fetch.rows) < fetch.cap
    <3>1. /\ fetch'.step = "waiting" /\ fetch'.rows = fetch.rows /\ fetch'.cap = fetch.cap
          /\ fetch'.url = fetch.url /\ fetch'.filtered = fetch.filtered /\ served' = served
          /\ fetch.step = "paging"
      BY <1>0, <1>4, <2>1 DEF Ask, Fetch
    <3> QED BY <2>1, <3>1 DEF Exact, NothingSilentlyMissing, OnlyAskedRows
  <2>2. CASE ~(fetch.url # NoUrl /\ Len(fetch.rows) < fetch.cap)
    <3>1. /\ fetch'.step = "returned" /\ fetch'.rows = fetch.rows /\ fetch'.cap = fetch.cap
          /\ fetch'.filtered = fetch.filtered /\ served' = served
          /\ fetch.step = "paging"
      BY <1>0, <1>4, <2>2 DEF Ask, Fetch
    <3>2. fetch.filtered => \A i \in DOMAIN fetch.rows : fetch.rows[i] = "asked"
      BY <3>1 DEF Exact
    <3>3. CASE Len(fetch.rows) < fetch.cap
      <4>1. Len(fetch.rows) = Len(served) /\ fetch.rows = SubSeq(served, 1, Len(fetch.rows))
        BY <2>2, <3>1, <3>3 DEF Exact
      <4>2. Lesser(fetch.cap, Len(served)) = Len(served)
        BY <1>0, <3>3, <4>1 DEF Lesser
      <4> QED BY <1>0, <3>1, <3>2, <4>1, <4>2 DEF Exact, NothingSilentlyMissing, OnlyAskedRows
    <3>4. CASE fetch.cap <= 0 /\ fetch.rows = <<>>
      <4>1. Lesser(fetch.cap, Len(served)) = fetch.cap
        BY <1>0, <3>4 DEF Lesser
      <4>2. SubSeq(served, 1, fetch.cap) = <<>>
        BY <1>0, <3>4, SubSeqEmpty
      <4>3. ~(fetch.cap > 0)
        BY <1>0, <3>4
      <4> QED BY <3>1, <3>2, <3>4, <4>1, <4>2, <4>3
              DEF Exact, NothingSilentlyMissing, OnlyAskedRows
    <3> QED BY <3>1, <3>3, <3>4 DEF Exact
  <2> QED BY <2>1, <2>2
<1>5. CASE Transport
  BY <1>5 DEF Transport, Exact, NothingSilentlyMissing, OnlyAskedRows
<1>6. CASE Fail
  <2>1. fetch'.step = "failed"
    BY <1>0, <1>6 DEF Fail, Fetch
  <2> QED BY <1>1, <2>1
<1>7. ASSUME NEW n \in 1..(fetch.limit + 1), Receive(n) PROVE Exact'
  <2> DEFINE o == Len(fetch.rows)
             m == Lesser(o + n, Len(served))
             page == PageAt(o, n)
             r == fetch.rows \o page
  <2>1. fetch.step = "waiting" /\ served' = served /\ fetch.url \in Url /\ fetch.cap \in Nat
    BY <1>7 DEF Receive, Linked
  <2>2. /\ fetch.url # NoUrl /\ fetch.url.offset = o /\ o < fetch.cap
        /\ fetch.rows = SubSeq(served, 1, o)
        /\ (fetch.filtered => \A i \in DOMAIN fetch.rows : fetch.rows[i] = "asked")
    BY <2>1, WrdsAssumption DEF Exact
  <2>3. n \in Nat \ {0}
    BY <1>0 DEF Fetch
  <2>4. /\ o \in Nat /\ m \in Nat /\ o <= m /\ m <= Len(served)
        /\ page \in Seq(Cells) /\ Len(page) = m - o
        /\ r = SubSeq(served, 1, m) /\ r \in Seq(Cells) /\ Len(r) = m
        /\ page = <<>> => o = Len(served)
    BY <2>1, <2>3, PageFacts
  <2>5. PICK next \in Links(o + Len(page)) : TakePage(page, next)
    BY <1>7, <2>2 DEF Receive
  <2>6. /\ next = NoUrl => m >= Len(served) /\ Upgraded(next) = NoUrl
        /\ next # NoUrl => /\ Upgraded(next) # NoUrl
                           /\ Upgraded(next).offset = m
                           /\ Upgraded(next).scheme = "https"
    <3>1. o + Len(page) = m /\ m \in Nat
      BY <2>4
    <3>2. next \in Links(m)
      BY <2>5, <3>1
    <3> HIDE DEF m, page
    <3> QED BY <3>1, <3>2, LinkFacts
  <2>7. fetch.filtered /\ Honored(page) => \A i \in DOMAIN r : r[i] = "asked"
    BY <1>0, <2>2, <2>4, HonoredGrows DEF Honored
  <2> HIDE DEF o, m, page, r
  <2>8. CASE page = <<>> /\ fetch' = [fetch EXCEPT !.step = "returned"]
    <3>1. /\ fetch'.step = "returned" /\ fetch'.rows = fetch.rows /\ fetch'.cap = fetch.cap
          /\ fetch'.filtered = fetch.filtered
      BY <1>0, <2>8 DEF Fetch
    <3>2. Lesser(fetch.cap, Len(served)) = Len(served) /\ Len(fetch.rows) = Len(served)
      BY <1>0, <2>2, <2>4, <2>8 DEF Lesser, o
    <3> QED BY <1>0, <2>1, <2>2, <3>1, <3>2 DEF Exact, NothingSilentlyMissing, OnlyAskedRows, o
  <2>9. CASE fetch' = [fetch EXCEPT !.step = "rejected"]
    <3>1. fetch'.step = "rejected"
      BY <1>0, <2>9 DEF Fetch
    <3> QED BY <1>1, <3>1
  <2>10. CASE Honored(page) /\ Len(r) >= fetch.cap /\ fetch' = Capped(r, next)
    <3>1. /\ fetch'.step = "returned" /\ fetch'.rows = SubSeq(r, 1, fetch.cap)
          /\ fetch'.cap = fetch.cap /\ fetch'.filtered = fetch.filtered
          /\ fetch'.truncated = (next # NoUrl \/ Len(r) > fetch.cap)
      BY <1>0, <2>10 DEF Fetch, Capped
    <3>2. SubSeq(r, 1, fetch.cap) = SubSeq(served, 1, fetch.cap)
      BY <1>0, <2>1, <2>4, <2>10, PrefixOfPrefix
    <3>3. Lesser(fetch.cap, Len(served)) = fetch.cap
      BY <1>0, <2>1, <2>4, <2>10 DEF Lesser
    <3>4. Len(SubSeq(served, 1, fetch.cap)) = fetch.cap
      BY <1>0, <2>1, <2>4, <2>10, SliceFacts, 0 \in Nat, 0 + 1 = 1, fetch.cap - 0 = fetch.cap
    <3>5. fetch.cap < Len(served) => next # NoUrl \/ Len(r) > fetch.cap
      BY <1>0, <2>1, <2>4, <2>6, <2>10
    <3>6. fetch.filtered => \A i \in DOMAIN fetch'.rows : fetch'.rows[i] = "asked"
      <4> SUFFICES ASSUME fetch.filtered
                   PROVE  \A i \in DOMAIN SubSeq(r, 1, fetch.cap) :
                             SubSeq(r, 1, fetch.cap)[i] = "asked"
        BY <3>1
      <4>1. \A i \in DOMAIN r : r[i] = "asked"
        BY <2>7, <2>10
      <4>2. fetch.cap \in Nat /\ fetch.cap <= Len(r) /\ r \in Seq(Cells)
        BY <1>0, <2>1, <2>4, <2>10
      <4> QED BY <4>1, <4>2, HonoredPrefix
    <3> QED BY <2>1, <3>1, <3>2, <3>3, <3>4, <3>5, <3>6
            DEF Exact, NothingSilentlyMissing, OnlyAskedRows
  <2>11. CASE /\ Honored(page) /\ Len(r) < fetch.cap
              /\ fetch' = [fetch EXCEPT !.step = "paging", !.rows = r, !.url = Upgraded(next)]
    <3>1. /\ fetch'.step = "paging" /\ fetch'.rows = r /\ fetch'.url = Upgraded(next)
          /\ fetch'.cap = fetch.cap /\ fetch'.filtered = fetch.filtered
      BY <1>0, <2>11 DEF Fetch
    <3>2. Upgraded(next) = NoUrl => Len(r) = Len(served)
      BY <1>0, <2>4, <2>6
    <3>3. Upgraded(next) # NoUrl =>
             Upgraded(next).offset = Len(r) /\ Upgraded(next).scheme = "https"
      BY <2>4, <2>6
    <3> QED BY <1>0, <2>1, <2>4, <2>7, <2>11, <3>1, <3>2, <3>3
            DEF Exact, NothingSilentlyMissing, OnlyAskedRows
  <2> QED BY <2>5, <2>8, <2>9, <2>10, <2>11 DEF TakePage, r
<1>8. CASE UNCHANGED vars
  BY <1>8 DEF vars, Exact, NothingSilentlyMissing, OnlyAskedRows
<1> QED BY <1>2, <1>3, <1>4, <1>5, <1>6, <1>7, <1>8 DEF Next

\* Before the first page nothing has been collected, so nothing is missing.
LEMMA ExactAtFirst == Init => Exact
  BY DEF Init, IdleFetch, Exact, NothingSilentlyMissing, OnlyAskedRows

\* Whatever the API serves and however it pages, a returned result is the data from its
\* first row up to its end or the cap, and it is reported if that is not all.
THEOREM FetchesAreExact == Spec => []NothingSilentlyMissing
<1>1. Exact => NothingSilentlyMissing
  BY DEF Exact
<1> QED BY <1>1, ExactAtFirst, ExactInvariant, FetchTypeInvariant, PTL DEF Spec

\* No row that disagrees with a filter is ever returned.
THEOREM FiltersAreHonored == Spec => []OnlyAskedRows
<1>1. Exact => OnlyAskedRows
  BY DEF Exact
<1> QED BY <1>1, ExactAtFirst, ExactInvariant, FetchTypeInvariant, PTL DEF Spec

\* No request carries the token over a plain-text link.
THEOREM LinksAreSecure == Spec => []NeverPlaintext
<1>1. Exact /\ Linked => NeverPlaintext
  BY WrdsAssumption DEF Exact, Linked, NeverPlaintext
<1> QED BY <1>1, ExactAtFirst, ExactInvariant, FetchTypeInvariant, PTL DEF Spec
================================================================================
