------------------------------ MODULE RecordsProofs ------------------------------
(***************************************************************************)
(* Theorems about Records: any companies, securities, analysts and names,   *)
(* any number of days and of records on each.                               *)
(***************************************************************************)
EXTENDS Records, FiniteSetTheorems, SequenceTheorems, WellFoundedInduction, TLAPS

--------------------------------------------------------------------------------
(* What the records of a kind are, at every point                               *)

FactOk(e) ==
    /\ e \in [tag : STRING, period : Periods, filed : Nat, form : Forms, span : Spans]
    /\ e.form \in OriginalForms => (e.form = "10-K") = (e.period[2] = "FY")
    /\ e.tag \in Instants => e.span # "ytd"

FactsOk == \A e \in feed : FactOk(e)

\* One row of a company counts for a quarter.
QuartersOk ==
    /\ IsFiniteSet(feed)
    /\ \A r \in feed : /\ r.rdq # Undated => r.rdq \in Nat
                       /\ r.fqtr \in Nat /\ r.ytd \in Int \cup {NoFigure}
    /\ \A r, q \in feed : /\ r.screened /\ q.screened
                          /\ r.fyear = q.fyear /\ r.fqtr = q.fqtr
                          => r = q

\* Primary links that share a company or a security follow each other.
Follows(earlier, later) == earlier.end # NoDate /\ earlier.end < later.start

LinksOk ==
    /\ feed \in Seq([gvkey : Companies, permno : Securities, linktype : LinkTypes,
                     linkprim : LinkPrims, start : Nat, end : Int \cup {NoDate}])
    /\ \A i \in 1..Len(feed) : feed[i].start <= today
    /\ \A i, j \in 1..Len(feed) :
          /\ i < j
          /\ feed[i].linkprim = "P" /\ feed[j].linkprim = "P"
          /\ feed[i].gvkey = feed[j].gvkey \/ feed[i].permno = feed[j].permno
          => Follows(feed[i], feed[j])

\* A security is listed on end; what CRSP says of its exit falls on a day it had a name.
NameRows  == [permno : Securities, ticker : {"OLD", "NEW"}, exchcd : Nat, from : Nat, to : Int]
EventRows == [permno : Securities, date : Nat, code : Nat, dlret : Int \cup {NoReturn}]

NamesOk(names, day) ==
    /\ names \in Seq(NameRows)
    /\ \A i \in 1..Len(names) :
          /\ names[i].from <= day /\ names[i].from <= names[i].to
          /\ names[i].to <= day \/ names[i].to = CoverageEnd

Named(names, event) ==
    \E j \in 1..Len(names) :
        /\ names[j].permno = event.permno
        /\ names[j].from <= event.date /\ event.date <= names[j].to

EventsOk(names, delists, day) ==
    /\ delists \in Seq(EventRows)
    /\ \A i \in 1..Len(delists) : delists[i].date <= day /\ Named(names, delists[i])

\* A security has one row a day.
DailyOk(daily, day) ==
    /\ IsFiniteSet(daily)
    /\ \A r \in daily : /\ r.date \in Int /\ r.date < day
                        /\ r.close \in Int /\ r.ret \in Int \cup {Ruin}
    /\ \A r, q \in daily : r.permno = q.permno /\ r.date = q.date => r = q

SecuritiesOk ==
    /\ feed = [names |-> feed.names, daily |-> feed.daily, delists |-> feed.delists]
    /\ NamesOk(feed.names, today)
    /\ EventsOk(feed.names, feed.delists, today)
    /\ DailyOk(feed.daily, today)

EstimatesOk ==
    /\ feed = [estimates |-> feed.estimates, actuals |-> feed.actuals]
    /\ IsFiniteSet(feed.estimates) /\ \A e \in feed.estimates : e.analyst \in Int /\ e.value \in Int
    /\ IsFiniteSet(feed.actuals) /\ \A a \in feed.actuals : a.value \in Int

RecordsInv ==
    /\ today \in Nat /\ today > 0
    /\ kind = "crsp" => today < CoverageEnd /\ SecuritiesOk
    /\ kind = "edgar" => FactsOk
    /\ kind = "compustat" => QuartersOk
    /\ kind = "ccm" => LinksOk
    /\ kind = "ibes" => EstimatesOk
    /\ kind = "validation" => feed \in Seq([move : Int, ic : Int \cup {NoIc}])

LEMMA FiniteImage ==
  ASSUME NEW f, NEW S, S \subseteq DOMAIN f, IsFiniteSet(S)
  PROVE  IsFiniteSet({f[x] : x \in S})
<1> DEFINE g == [x \in S |-> f[x]]
           T == {f[x] : x \in S}
<1>1. g \in Surjection(S, T)
  BY DEF Surjection
<1> HIDE DEF g, T
<1>2. IsFiniteSet(T)
  BY <1>1, FS_Surjection
<1> QED BY <1>2 DEF T

LEMMA RecordsInit == Init => RecordsInv
<1> SUFFICES ASSUME Init PROVE RecordsInv
  OBVIOUS
<1>1. kind = "edgar" => FactsOk
  BY DEF Init, FactsOk, DeskKinds, EmptyFeed
<1>2. kind = "compustat" => QuartersOk
  <2> HAVE kind = "compustat"
  <2>1. feed = {}
    BY DEF Init, DeskKinds, EmptyFeed
  <2> QED BY <2>1, FS_EmptySet DEF QuartersOk
<1>3. kind = "ccm" => LinksOk
  <2> HAVE kind = "ccm"
  <2>1. feed = <<>>
    BY DEF Init, DeskKinds, EmptyFeed
  <2> QED BY <2>1, EmptySeq DEF LinksOk
<1>4. kind = "validation" => feed \in Seq([move : Int, ic : Int \cup {NoIc}])
  <2> HAVE kind = "validation"
  <2>1. feed = <<>>
    BY DEF Init, DeskKinds, EmptyDesk
  <2> QED BY <2>1, EmptySeq
<1>5. today = 1
  BY DEF Init
<1>6. kind = "crsp" => today < CoverageEnd /\ SecuritiesOk
  <2> HAVE kind = "crsp"
  <2>1. feed = NoSecurity
    BY DEF Init, DeskKinds, EmptyFeed
  <2>2. <<>> \in Seq(NameRows) /\ <<>> \in Seq(EventRows) /\ Len(<<>>) = 0
    BY EmptySeq
  <2>3. SecuritiesOk
    BY <2>1, <2>2, FS_EmptySet DEF SecuritiesOk, NamesOk, EventsOk, DailyOk, NoSecurity
  <2> QED BY <1>5, <2>3, CoverageAssumption DEF CoverageAssumption
<1>7. kind = "ibes" => EstimatesOk
  <2> HAVE kind = "ibes"
  <2>1. feed = NoAnalyst
    BY DEF Init, DeskKinds, EmptyFeed
  <2> QED BY <2>1, FS_EmptySet DEF NoAnalyst, EstimatesOk
<1> QED BY <1>1, <1>2, <1>3, <1>4, <1>5, <1>6, <1>7 DEF RecordsInv

\* A filing keeps the facts as they are, and adds one.
LEMMA FactsStayOk ==
  ASSUME RecordsInv, [Next]_vars, kind = "edgar", kind' = "edgar"
  PROVE  FactsOk'
<1>1. feed' = feed \/ Disclose
  BY DEF Next, VendorNext, DeskNext, Disclose, Load, Link, Unlink, ListAs, Delist, Estimate, Report,
         Score, Close, Validate, Trade, List, TakeIn, Tomorrow, DayRows, vars
<1>2. CASE feed' = feed
  BY <1>2 DEF RecordsInv, FactsOk
<1>3. CASE Disclose
  <2>1. PICK field \in Fields, period \in Periods, form \in Forms, span \in Spans :
           \E i \in DOMAIN Tags[field] :
            /\ form \in OriginalForms => (form = "10-K") = (period[2] = "FY")
            /\ Tags[field][i] \in Instants => span # "ytd"
            /\ feed' = feed \cup {[tag |-> Tags[field][i], period |-> period,
                                   filed |-> today, form |-> form, span |-> span]}
    BY <1>3 DEF Disclose
  <2>2. PICK i \in DOMAIN Tags[field] :
            /\ form \in OriginalForms => (form = "10-K") = (period[2] = "FY")
            /\ Tags[field][i] \in Instants => span # "ytd"
            /\ feed' = feed \cup {[tag |-> Tags[field][i], period |-> period,
                                   filed |-> today, form |-> form, span |-> span]}
    BY <2>1
  <2>3. Tags[field][i] \in STRING
    BY TagsAssumption, LenProperties, ElementOfSeq DEF TagsAssumption
  <2>4. FactOk([tag |-> Tags[field][i], period |-> period,
                filed |-> today, form |-> form, span |-> span])
    BY <2>2, <2>3 DEF FactOk, RecordsInv
  <2> QED BY <2>2, <2>4 DEF RecordsInv, FactsOk
<1> QED BY <1>1, <1>2, <1>3

LEMMA QuartersStayOk ==
  ASSUME RecordsInv, [Next]_vars, kind = "compustat", kind' = "compustat"
  PROVE  QuartersOk'
<1>1. feed' = feed \/ Load
  BY DEF Next, VendorNext, DeskNext, Disclose, Load, Link, Unlink, ListAs, Delist, Estimate, Report,
         Score, Close, Validate, Trade, List, TakeIn, Tomorrow, DayRows, vars
<1>2. CASE feed' = feed
  BY <1>2 DEF RecordsInv, QuartersOk
<1>3. CASE Load
  <2>1. PICK fyear \in 1..2, fqtr \in 1..3, rdq \in {today, Undated},
             ytd \in {NoFigure, -1, 2}, screened, sound \in BOOLEAN :
         /\ ~screened => sound /\ ytd = 2
         /\ screened => ~\E r \in feed : r.screened /\ r.fyear = fyear /\ r.fqtr = fqtr
         /\ feed' = feed \cup {[fyear |-> fyear, fqtr |-> fqtr, rdq |-> rdq, ytd |-> ytd,
                                screened |-> screened, sound |-> sound]}
    BY <1>3, Zenon DEF Load
  <2> DEFINE new == [fyear |-> fyear, fqtr |-> fqtr, rdq |-> rdq, ytd |-> ytd,
                     screened |-> screened, sound |-> sound]
  <2>2. IsFiniteSet(feed')
    BY <2>1, FS_AddElement DEF RecordsInv, QuartersOk
  <2>3. /\ new.rdq # Undated => new.rdq \in Nat
        /\ new.fqtr \in Nat /\ new.ytd \in Int \cup {NoFigure}
        /\ new.fyear = fyear /\ new.fqtr = fqtr /\ new.screened = screened
    BY DEF RecordsInv
  <2>4. feed' = feed \cup {new}
    BY <2>1
  <2> HIDE DEF new
  <2>5. \A r \in feed : ~(r.screened /\ new.screened /\ r.fyear = new.fyear /\ r.fqtr = new.fqtr)
    BY <2>1, <2>3
  <2> QED BY <2>2, <2>3, <2>4, <2>5 DEF RecordsInv, QuartersOk
<1> QED BY <1>1, <1>2, <1>3

\* A primary link that begins follows every one of the same company or security.
LEMMA LinksStayOk ==
  ASSUME RecordsInv, [Next]_vars, kind = "ccm", kind' = "ccm"
  PROVE  LinksOk'
<1> DEFINE LinkRow == [gvkey : Companies, permno : Securities, linktype : LinkTypes,
                       linkprim : LinkPrims, start : Nat, end : Int \cup {NoDate}]
<1>1. (feed' = feed /\ today' \in {today, today + 1}) \/ (Link /\ today' = today) \/ (Unlink /\ today' = today)
  BY DEF Next, VendorNext, DeskNext, Disclose, Load, Link, Unlink, ListAs, Delist, Estimate, Report,
         Score, Close, Validate, Trade, List, TakeIn, Tomorrow, DayRows, vars
<1>2. /\ today \in Nat
      /\ feed \in Seq(LinkRow) /\ Len(feed) \in Nat /\ DOMAIN feed = 1..Len(feed)
      /\ \A i \in 1..Len(feed) : feed[i] \in LinkRow /\ feed[i].start <= today
      /\ \A i, j \in 1..Len(feed) :
          /\ i < j
          /\ feed[i].linkprim = "P" /\ feed[j].linkprim = "P"
          /\ feed[i].gvkey = feed[j].gvkey \/ feed[i].permno = feed[j].permno
          => Follows(feed[i], feed[j])
  BY LenProperties, ElementOfSeq DEF RecordsInv, LinksOk
<1>3. CASE feed' = feed /\ today' \in {today, today + 1}
  <2>1. \A i \in 1..Len(feed) : feed[i].start \in Nat
    BY <1>2
  <2> HIDE DEF LinkRow
  <2>2. \A i \in 1..Len(feed) : feed[i].start <= today'
    BY <1>2, <1>3, <2>1
  <2> QED BY <1>2, <1>3, <2>2 DEF LinksOk, LinkRow
<1>4. CASE Link /\ today' = today
  <2>1. PICK link \in LinkRow :
          /\ link.start = today /\ link.end = NoDate
          /\ link.linkprim = "P" =>
               ~\E i \in DOMAIN feed : /\ feed[i].linkprim = "P" /\ Covers(feed[i], today)
                                       /\ feed[i].gvkey = link.gvkey \/ feed[i].permno = link.permno
          /\ feed' = Append(feed, link)
    <3>1. PICK gvkey \in Companies, permno \in Securities, type \in LinkTypes, prim \in LinkPrims :
            LET link == [gvkey |-> gvkey, permno |-> permno, linktype |-> type,
                         linkprim |-> prim, start |-> today, end |-> NoDate]
            IN  /\ prim = "P" =>
                  ~\E i \in DOMAIN feed : /\ feed[i].linkprim = "P" /\ Covers(feed[i], today)
                                          /\ feed[i].gvkey = gvkey \/ feed[i].permno = permno
                /\ feed' = Append(feed, link)
      BY <1>4 DEF Link
    <3> DEFINE link == [gvkey |-> gvkey, permno |-> permno, linktype |-> type,
                        linkprim |-> prim, start |-> today, end |-> NoDate]
    <3>2. link \in LinkRow
      BY <1>2
    <3> QED BY <3>1, <3>2
  <2> DEFINE n == Len(feed)
  <2>2. /\ feed' \in Seq(LinkRow) /\ Len(feed') = n + 1
        /\ \A i \in 1..n : feed'[i] = feed[i]
        /\ feed'[n + 1] = link
    BY <1>2, <2>1, AppendProperties
  <2>3. n \in Nat /\ \A i \in 1..(n + 1) : i \in 1..n \/ i = n + 1
    BY <1>2
  <2> HIDE DEF LinkRow, n
  <2>4. \A i \in 1..(n + 1) : feed'[i].start <= today'
    BY <1>2, <1>4, <2>1, <2>2, <2>3 DEF n
  <2>5. ASSUME NEW i \in 1..(n + 1), NEW j \in 1..(n + 1), i < j,
               feed'[i].linkprim = "P", feed'[j].linkprim = "P",
               feed'[i].gvkey = feed'[j].gvkey \/ feed'[i].permno = feed'[j].permno
        PROVE  Follows(feed'[i], feed'[j])
    <3>1. i \in 1..n
      BY <2>3, <2>5
    <3>2. CASE j \in 1..n
      BY <1>2, <2>2, <2>5, <3>1, <3>2 DEF n
    <3>3. CASE j = n + 1
      <4>1. ~Covers(feed[i], today)
        BY <1>2, <2>1, <2>2, <2>5, <3>1, <3>3 DEF n
      <4>2. feed[i].end # NoDate /\ ~(today <= feed[i].end)
        BY <1>2, <3>1, <4>1 DEF Covers, n
      <4>3. feed[i].end \in Int
        BY <1>2, <3>1, <4>2 DEF n, LinkRow
      <4> QED BY <1>2, <2>1, <2>2, <3>1, <3>3, <4>2, <4>3 DEF Follows
    <3> QED BY <2>3, <3>2, <3>3
  <2> QED BY <1>2, <2>2, <2>4, <2>5 DEF LinksOk, LinkRow
<1>5. CASE Unlink /\ today' = today
  <2>1. PICK k \in DOMAIN feed : /\ feed[k].end = NoDate
                                 /\ feed' = [feed EXCEPT ![k].end = today - 1]
    BY <1>5 DEF Unlink
  <2> DEFINE n == Len(feed)
  <2>2. /\ feed' \in [1..n -> LinkRow]
        /\ \A i \in 1..n : /\ feed'[i] = IF i = k THEN [feed[i] EXCEPT !.end = today - 1] ELSE feed[i]
    BY <1>2, <2>1
  <2>3. feed' \in Seq(LinkRow) /\ Len(feed') = n
    BY <1>2, <2>2, SeqDef, LenProperties
  <2> HIDE DEF n
  <2>4. \A i \in 1..n : /\ feed'[i].linkprim = feed[i].linkprim /\ feed'[i].gvkey = feed[i].gvkey
                        /\ feed'[i].permno = feed[i].permno /\ feed'[i].start = feed[i].start
                        /\ i # k => feed'[i].end = feed[i].end
    BY <1>2, <2>2 DEF n
  <2> HIDE DEF LinkRow
  <2>5. ASSUME NEW i \in 1..n, NEW j \in 1..n, i < j,
               feed'[i].linkprim = "P", feed'[j].linkprim = "P",
               feed'[i].gvkey = feed'[j].gvkey \/ feed'[i].permno = feed'[j].permno
        PROVE  Follows(feed'[i], feed'[j])
    <3>1. Follows(feed[i], feed[j])
      BY <1>2, <2>4, <2>5 DEF n
    <3>2. i # k
      BY <2>1, <3>1 DEF Follows
    <3> QED BY <2>4, <3>1, <3>2 DEF Follows
  <2> QED BY <1>2, <1>5, <2>3, <2>4, <2>5 DEF LinksOk, LinkRow, n
<1> QED BY <1>1, <1>3, <1>4, <1>5

\* A name a security gives up ends the day before the next, and one it dies with that day.
LEMMA SecuritiesStayOk ==
  ASSUME RecordsInv, [Next]_vars, kind = "crsp", kind' = "crsp"
  PROVE  today' < CoverageEnd /\ SecuritiesOk'
<1>1. \/ feed' = feed /\ today' = today
      \/ ListAs /\ today' = today
      \/ Delist /\ today' = today
      \/ Tomorrow
  BY DEF Next, VendorNext, DeskNext, Disclose, Load, Link, Unlink, ListAs, Delist, Estimate, Report,
         Score, Close, Validate, Trade, List, TakeIn, vars
<1>2. /\ today \in Nat /\ today > 0 /\ today < CoverageEnd /\ CoverageEnd \in Nat
      /\ feed = [names |-> feed.names, daily |-> feed.daily, delists |-> feed.delists]
      /\ NamesOk(feed.names, today)
      /\ EventsOk(feed.names, feed.delists, today)
      /\ DailyOk(feed.daily, today)
  BY CoverageAssumption DEF RecordsInv, SecuritiesOk, CoverageAssumption
<1> DEFINE names == feed.names
           delists == feed.delists
           n == Len(names)
<1>3. /\ names \in Seq(NameRows) /\ n \in Nat /\ DOMAIN names = 1..n
      /\ \A i \in 1..n : /\ names[i] \in NameRows
                         /\ names[i].from <= today /\ names[i].from <= names[i].to
                         /\ names[i].to <= today \/ names[i].to = CoverageEnd
  BY <1>2, LenProperties, ElementOfSeq DEF NamesOk
<1>4. /\ delists \in Seq(EventRows) /\ Len(delists) \in Nat
      /\ \A i \in 1..Len(delists) : /\ delists[i] \in EventRows /\ delists[i].date <= today
                                    /\ Named(names, delists[i])
  BY <1>2, LenProperties, ElementOfSeq DEF EventsOk
<1>5. CASE feed' = feed /\ today' = today
  BY <1>2, <1>5 DEF SecuritiesOk
<1>6. CASE ListAs /\ today' = today
  <2>1. PICK permno \in Securities, ticker \in {"OLD", "NEW"} :
         /\ \A i \in DOMAIN feed.names :
              /\ feed.names[i].ticker = ticker => feed.names[i].to < today
              /\ feed.names[i].permno = permno =>
                    feed.names[i].from < today /\ feed.names[i].to # today
         /\ feed' = [feed EXCEPT
              !.names = Append(
                 [i \in DOMAIN @ |-> IF @[i].permno = permno /\ Listed(@[i])
                                     THEN [@[i] EXCEPT !.to = today - 1] ELSE @[i]],
                 [permno |-> permno, ticker |-> ticker,
                  exchcd |-> IF ticker = "OLD" THEN 1 ELSE 3,
                  from |-> today, to |-> CoverageEnd])]
    BY <1>6 DEF ListAs
  <2> DEFINE closed == [i \in 1..n |-> IF names[i].permno = permno /\ Listed(names[i])
                                       THEN [names[i] EXCEPT !.to = today - 1] ELSE names[i]]
             new == [permno |-> permno, ticker |-> ticker,
                     exchcd |-> IF ticker = "OLD" THEN 1 ELSE 3,
                     from |-> today, to |-> CoverageEnd]
  <2>2. \A i \in 1..n :
          /\ closed[i] \in NameRows
          /\ closed[i].permno = names[i].permno /\ closed[i].from = names[i].from
          /\ closed[i].to = IF names[i].permno = permno /\ names[i].to = CoverageEnd
                            THEN today - 1 ELSE names[i].to
    <3> SUFFICES ASSUME NEW i \in 1..n
                 PROVE  /\ closed[i] \in NameRows
                        /\ closed[i].permno = names[i].permno /\ closed[i].from = names[i].from
                        /\ closed[i].to = IF names[i].permno = permno /\ names[i].to = CoverageEnd
                                          THEN today - 1 ELSE names[i].to
      OBVIOUS
    <3>1. names[i] \in NameRows /\ today - 1 \in Int
      BY <1>2, <1>3
    <3>2. closed[i] = IF names[i].permno = permno /\ Listed(names[i])
                      THEN [names[i] EXCEPT !.to = today - 1] ELSE names[i]
      OBVIOUS
    <3> HIDE DEF closed, names, n
    <3> QED BY <3>1, <3>2 DEF Listed, NameRows
  <2>3. closed \in Seq(NameRows) /\ Len(closed) = n
    <3>1. closed \in [1..n -> NameRows]
      BY <2>2
    <3> HIDE DEF closed, n
    <3> QED BY <1>3, <3>1, SeqDef, LenProperties
  <2>4. new \in NameRows
    BY <1>2 DEF NameRows
  <2>5. feed' = [feed EXCEPT !.names = Append(closed, new)]
    BY <1>3, <2>1
  <2> HIDE DEF closed
  <2>6. /\ Append(closed, new) \in Seq(NameRows) /\ Len(Append(closed, new)) = n + 1
        /\ \A i \in 1..n : Append(closed, new)[i] = closed[i]
        /\ Append(closed, new)[n + 1] = new
    BY <2>3, <2>4, AppendProperties
  <2>7. feed'.names = Append(closed, new) /\ feed'.daily = feed.daily /\ feed'.delists = delists
        /\ feed' = [names |-> feed'.names, daily |-> feed'.daily, delists |-> feed'.delists]
    BY <1>2, <2>5, <2>6
  <2>8. \A i \in 1..n : names[i].permno = permno => names[i].from < today
    BY <1>3, <2>1
  <2>9. NamesOk(feed'.names, today)
    <3> SUFFICES ASSUME NEW i \in 1..(n + 1)
                 PROVE  LET name == feed'.names[i]
                        IN  /\ name.from <= today /\ name.from <= name.to
                            /\ name.to <= today \/ name.to = CoverageEnd
      BY <2>6, <2>7 DEF NamesOk
    <3>1. CASE i = n + 1
      BY <1>2, <2>6, <2>7, <3>1
    <3>2. CASE i \in 1..n
      <4>1. names[i].from \in Nat /\ names[i].to \in Int
        BY <1>3, <3>2 DEF NameRows
      <4>2. feed'.names[i] = closed[i]
        BY <2>6, <2>7, <3>2
      <4> HIDE DEF n, names
      <4> QED BY <1>2, <1>3, <2>2, <2>8, <3>2, <4>1, <4>2
    <3> QED BY <1>3, <3>1, <3>2
  <2>10. EventsOk(feed'.names, feed'.delists, today)
    <3> SUFFICES ASSUME NEW i \in 1..Len(delists) PROVE Named(feed'.names, delists[i])
      BY <1>4, <2>7 DEF EventsOk
    <3>1. PICK j \in 1..n : /\ names[j].permno = delists[i].permno
                            /\ names[j].from <= delists[i].date /\ delists[i].date <= names[j].to
      BY <1>4 DEF Named
    <3>2. /\ delists[i].date \in Nat /\ delists[i].date <= today
          /\ names[j].from \in Nat /\ names[j].to \in Int
      BY <1>3, <1>4 DEF NameRows, EventRows
    <3>3. Len(feed'.names) = n + 1 /\ j \in 1..(n + 1) /\ n + 1 \in 1..(n + 1)
      BY <1>3, <2>6, <2>7
    <3>4. CASE names[j].permno = permno /\ names[j].to = CoverageEnd /\ delists[i].date = today
      <4>1. feed'.names[n + 1] = new /\ new.permno = permno /\ new.from = today /\ new.to = CoverageEnd
        BY <2>6, <2>7
      <4> QED BY <1>2, <3>1, <3>3, <3>4, <4>1 DEF Named
    <3>5. CASE ~(names[j].permno = permno /\ names[j].to = CoverageEnd /\ delists[i].date = today)
      <4>1. feed'.names[j] = closed[j]
        BY <2>6, <2>7
      <4>2. delists[i].date <= closed[j].to
        <5> HIDE DEF n, names, delists
        <5> QED BY <1>2, <2>2, <3>1, <3>2, <3>5
      <4> QED BY <2>2, <3>1, <3>3, <4>1, <4>2 DEF Named
    <3> QED BY <3>4, <3>5
  <2> QED BY <1>2, <1>6, <2>7, <2>9, <2>10 DEF SecuritiesOk
<1>7. CASE Delist /\ today' = today
  <2>1. PICK i \in DOMAIN feed.names, exit \in Exits :
         /\ Listed(feed.names[i])
         /\ feed' = [feed EXCEPT
              !.names[i].to = IF exit.code = 100 THEN @ ELSE today,
              !.delists = Append(@, [permno |-> feed.names[i].permno, date |-> today,
                                     code |-> exit.code, dlret |-> exit.dlret])]
    BY <1>7 DEF Delist
  <2> DEFINE event == [permno |-> names[i].permno, date |-> today,
                       code |-> exit.code, dlret |-> exit.dlret]
             left == [names EXCEPT ![i].to = IF exit.code = 100 THEN @ ELSE today]
             m == Len(delists)
  <2>2. i \in 1..n /\ names[i].to = CoverageEnd
    BY <1>3, <2>1 DEF Listed
  <2>3. event \in EventRows
    BY <1>2, <1>3, <2>2 DEF Exits, EventRows, NameRows
  <2>4. \A k \in 1..n :
          /\ left[k] \in NameRows
          /\ left[k].permno = names[k].permno /\ left[k].from = names[k].from
          /\ left[k].to = IF k = i /\ exit.code # 100 THEN today ELSE names[k].to
    <3> SUFFICES ASSUME NEW k \in 1..n
                 PROVE  /\ left[k] \in NameRows
                        /\ left[k].permno = names[k].permno /\ left[k].from = names[k].from
                        /\ left[k].to = IF k = i /\ exit.code # 100 THEN today ELSE names[k].to
      OBVIOUS
    <3>1. names[k] \in NameRows /\ names[i] \in NameRows /\ today \in Int
      BY <1>2, <1>3, <2>2
    <3>2. left[k] = IF k = i
                    THEN [names[i] EXCEPT !.to = IF exit.code = 100 THEN @ ELSE today]
                    ELSE names[k]
      BY <1>3, <2>2
    <3> HIDE DEF left, names, n
    <3> QED BY <3>1, <3>2 DEF NameRows
  <2>5. left \in Seq(NameRows) /\ Len(left) = n
    <3>1. left \in [1..n -> NameRows]
      BY <1>3, <2>2, <2>4
    <3> HIDE DEF left, n
    <3> QED BY <1>3, <3>1, SeqDef, LenProperties
  <2>6. feed' = [feed EXCEPT !.names = left, !.delists = Append(delists, event)]
    BY <1>2, <2>1
  <2> HIDE DEF left, event
  <2>7. /\ Append(delists, event) \in Seq(EventRows) /\ Len(Append(delists, event)) = m + 1
        /\ \A k \in 1..m : Append(delists, event)[k] = delists[k]
        /\ Append(delists, event)[m + 1] = event
    BY <1>4, <2>3, AppendProperties
  <2>8. feed'.names = left /\ feed'.daily = feed.daily /\ feed'.delists = Append(delists, event)
        /\ feed' = [names |-> feed'.names, daily |-> feed'.daily, delists |-> feed'.delists]
    BY <1>2, <2>5, <2>6, <2>7
  <2>9. NamesOk(left, today)
    <3> SUFFICES ASSUME NEW k \in 1..n
                 PROVE  /\ left[k].from <= today /\ left[k].from <= left[k].to
                        /\ left[k].to <= today \/ left[k].to = CoverageEnd
      BY <2>5 DEF NamesOk
    <3>1. names[k].from \in Nat /\ names[k].to \in Int
      BY <1>3 DEF NameRows
    <3> HIDE DEF n, names
    <3> QED BY <1>2, <1>3, <2>4, <3>1
  <2>10. \A e \in EventRows : e.date <= today /\ Named(names, e) => Named(left, e)
    <3> SUFFICES ASSUME NEW e \in EventRows, e.date <= today, Named(names, e) PROVE Named(left, e)
      OBVIOUS
    <3>1. PICK k \in 1..n : /\ names[k].permno = e.permno
                            /\ names[k].from <= e.date /\ e.date <= names[k].to
      BY DEF Named
    <3>2. left[k].permno = e.permno /\ left[k].from <= e.date /\ e.date <= left[k].to
      <4> HIDE DEF n, names
      <4> QED BY <2>4, <3>1
    <3> QED BY <2>5, <3>2 DEF Named
  <2>11. Named(left, event)
    <3>1. left[i].permno = event.permno /\ event.date = today
      BY <2>2, <2>4 DEF event
    <3>2. left[i].from <= today /\ today <= left[i].to
      <4> HIDE DEF n, names
      <4> QED BY <1>2, <1>3, <2>2, <2>4
    <3> QED BY <2>2, <2>5, <3>1, <3>2 DEF Named
  <2>12. EventsOk(left, feed'.delists, today)
    <3> SUFFICES ASSUME NEW k \in 1..(m + 1)
                 PROVE  feed'.delists[k].date <= today /\ Named(left, feed'.delists[k])
      BY <2>7, <2>8 DEF EventsOk
    <3>1. CASE k \in 1..m
      BY <1>4, <2>7, <2>8, <2>10, <3>1
    <3>2. CASE k = m + 1
      BY <1>2, <2>7, <2>8, <2>11, <3>2 DEF event
    <3> QED BY <1>4, <3>1, <3>2
  <2> QED BY <1>2, <1>7, <2>8, <2>9, <2>12 DEF SecuritiesOk
<1>8. CASE Tomorrow
  <2>1. today' = today + 1 /\ today < LastDay[kind] /\ feed' \in DayRows
    BY <1>8 DEF Tomorrow
  <2>2. today' \in Nat /\ today' < CoverageEnd
    BY <1>2, <2>1, CoverageAssumption DEF CoverageAssumption
  <2> DEFINE Row(p, day) == [permno |-> p, date |-> today, priced |-> day[p].priced,
                             close |-> day[p].close, ret |-> day[p].ret]
             Rows(day) == {Row(p, day) : p \in ListedToday}
  <2>3. PICK day \in [ListedToday -> Outcomes] :
          feed' = [feed EXCEPT !.daily = @ \cup Rows(day)]
    BY <2>1 DEF DayRows
  <2>4. IsFiniteSet(Rows(day))
    <3> DEFINE listed == {k \in 1..n : today \in names[k].from .. names[k].to}
               name   == [i \in 1..n |-> Row(names[i].permno, day)]
    <3>1. IsFiniteSet(listed)
      <4>1. n \in Int /\ listed \subseteq 1..n
        BY <1>3
      <4> HIDE DEF n, listed
      <4>2. IsFiniteSet(1..n)
        BY <4>1, FS_Interval
      <4> QED BY <4>1, <4>2, FS_Subset
    <3>2. ListedToday = {names[i].permno : i \in listed} /\ listed \subseteq 1..n
      BY <1>3 DEF ListedToday
    <3>3. DOMAIN name = 1..n /\ \A i \in 1..n : name[i] = Row(names[i].permno, day)
      OBVIOUS
    <3> HIDE DEF name, listed, n, names, Row
    <3>4. \A p \in ListedToday : \E i \in listed : Row(p, day) = name[i]
      BY <3>2, <3>3
    <3>5. \A i \in listed : \E p \in ListedToday : Row(p, day) = name[i]
      BY <3>2, <3>3
    <3>6. Rows(day) = {name[i] : i \in listed}
      BY <3>4, <3>5
    <3> QED BY <3>1, <3>2, <3>3, <3>6, FiniteImage
  <2>5. DailyOk(feed.daily \cup Rows(day), today')
    <3>1. \A p \in ListedToday : /\ Row(p, day).date = today /\ Row(p, day).permno = p
                                 /\ Row(p, day).close \in Int
                                 /\ Row(p, day).ret \in Int \cup {Ruin}
      <4> DEFINE Like(o) == o.close \in Int /\ o.ret \in Int \cup {Ruin}
      <4>1. Like(Quiet) /\ Like([Quiet EXCEPT !.priced = FALSE])
        BY DEF Quiet
      <4>2. Like([Quiet EXCEPT !.close = 1, !.ret = 1]) /\ Like([Quiet EXCEPT !.ret = Ruin])
        BY DEF Quiet
      <4> HIDE DEF Like
      <4>3. \A o \in Outcomes : Like(o)
        BY <4>1, <4>2, Zenon DEF Outcomes
      <4> QED BY <4>3 DEF Like
    <3> HIDE DEF Row
    <3>2. \A r \in Rows(day) : /\ r.date = today /\ r = Row(r.permno, day)
                               /\ r.close \in Int /\ r.ret \in Int \cup {Ruin}
      BY <3>1
    <3> HIDE DEF Rows
    <3>3. IsFiniteSet(feed.daily \cup Rows(day))
      BY <1>2, <2>4, FS_Union DEF DailyOk
    <3> QED BY <1>2, <2>1, <3>2, <3>3 DEF DailyOk
  <2>6. feed' = [names |-> feed'.names, daily |-> feed'.daily, delists |-> feed'.delists]
        /\ feed'.names = names /\ feed'.delists = delists
        /\ feed'.daily = feed.daily \cup Rows(day)
    BY <1>2, <2>3
  <2>7. NamesOk(feed'.names, today')
    <3> SUFFICES ASSUME NEW i \in 1..n
                 PROVE  /\ names[i].from <= today' /\ names[i].from <= names[i].to
                        /\ names[i].to <= today' \/ names[i].to = CoverageEnd
      BY <1>3, <2>6 DEF NamesOk
    <3>1. names[i].from \in Nat /\ names[i].to \in Int
      BY <1>3 DEF NameRows
    <3> QED BY <1>2, <1>3, <2>1, <3>1
  <2>8. EventsOk(feed'.names, feed'.delists, today')
    <3> SUFFICES ASSUME NEW i \in 1..Len(delists) PROVE delists[i].date <= today'
      BY <1>4, <2>6 DEF EventsOk
    <3>1. delists[i].date \in Nat /\ delists[i].date <= today
      BY <1>4 DEF EventRows
    <3> QED BY <1>2, <2>1, <3>1
  <2> QED BY <2>2, <2>5, <2>6, <2>7, <2>8 DEF SecuritiesOk
<1> QED BY <1>1, <1>2, <1>5, <1>6, <1>7, <1>8

LEMMA EstimatesStayOk ==
  ASSUME RecordsInv, [Next]_vars, kind = "ibes", kind' = "ibes"
  PROVE  EstimatesOk'
<1>1. feed' = feed \/ Estimate \/ Report
  BY DEF Next, VendorNext, DeskNext, Disclose, Load, Link, Unlink, ListAs, Delist, Estimate, Report,
         Score, Close, Validate, Trade, List, TakeIn, Tomorrow, DayRows, vars
<1>2. CASE feed' = feed
  BY <1>2 DEF RecordsInv, EstimatesOk
<1>3. CASE Estimate
  <2>1. PICK analyst \in Analysts, ticker \in Tickers, value \in {0, 1}, quarterly \in BOOLEAN :
         feed' = [feed EXCEPT !.estimates = @ \cup
                   {[analyst |-> analyst, ticker |-> ticker, date |-> today,
                     value |-> value, quarterly |-> quarterly]}]
    BY <1>3 DEF Estimate
  <2> DEFINE new == [analyst |-> analyst, ticker |-> ticker, date |-> today,
                     value |-> value, quarterly |-> quarterly]
  <2>2. feed' = [feed EXCEPT !.estimates = feed.estimates \cup {new}]
    BY <2>1
  <2>3. new.analyst \in Int /\ new.value \in Int
    BY AnalystsAssumption DEF AnalystsAssumption
  <2> HIDE DEF new
  <2>4. feed' = [estimates |-> feed.estimates \cup {new}, actuals |-> feed.actuals]
    BY <2>2 DEF RecordsInv, EstimatesOk
  <2>5. IsFiniteSet(feed.estimates \cup {new})
    BY FS_AddElement DEF RecordsInv, EstimatesOk
  <2> QED BY <2>3, <2>4, <2>5 DEF RecordsInv, EstimatesOk
<1>4. CASE Report
  <2>1. PICK ticker \in Tickers, date \in {today, Unannounced} :
         feed' = [feed EXCEPT !.actuals = @ \cup
                   {[ticker |-> ticker, date |-> date, value |-> 1, quarterly |-> TRUE]}]
    BY <1>4 DEF Report
  <2> DEFINE new == [ticker |-> ticker, date |-> date, value |-> 1, quarterly |-> TRUE]
  <2>2. feed' = [feed EXCEPT !.actuals = feed.actuals \cup {new}]
    BY <2>1
  <2>3. new.value \in Int
    OBVIOUS
  <2> HIDE DEF new
  <2>4. feed' = [estimates |-> feed.estimates, actuals |-> feed.actuals \cup {new}]
    BY <2>2 DEF RecordsInv, EstimatesOk
  <2>5. IsFiniteSet(feed.actuals \cup {new})
    BY FS_AddElement DEF RecordsInv, EstimatesOk
  <2> QED BY <2>3, <2>4, <2>5 DEF RecordsInv, EstimatesOk
<1> QED BY <1>1, <1>2, <1>3, <1>4

LEMMA HistoryStaysOk ==
  ASSUME RecordsInv, [Next]_vars, kind = "validation", kind' = "validation"
  PROVE  feed' \in Seq([move : Int, ic : Int \cup {NoIc}])
<1>1. feed' = feed \/ Trade
  BY DEF Next, VendorNext, DeskNext, Disclose, Load, Link, Unlink, ListAs, Delist, Estimate, Report,
         Score, Close, Validate, Trade, List, TakeIn, Tomorrow, DayRows, vars
<1>2. CASE feed' = feed
  BY <1>2 DEF RecordsInv
<1>3. CASE Trade
  <2>1. PICK day \in [move : Int, ic : Int \cup {NoIc}] : feed' = Append(feed, day)
    BY <1>3 DEF Trade
  <2> QED BY <2>1, AppendProperties DEF RecordsInv
<1> QED BY <1>1, <1>2, <1>3

LEMMA RecordsStep == RecordsInv /\ [Next]_vars => RecordsInv'
<1> SUFFICES ASSUME RecordsInv, [Next]_vars PROVE RecordsInv'
  OBVIOUS
<1>1. kind' = kind /\ today' \in {today, today + 1}
  BY DEF Next, VendorNext, DeskNext, Disclose, Load, Link, Unlink, ListAs, Delist, Estimate, Report,
         Score, Close, Validate, Trade, List, TakeIn, Tomorrow, vars
<1>2. today' \in Nat /\ today' > 0
  BY <1>1 DEF RecordsInv
<1> QED BY <1>1, <1>2, FactsStayOk, QuartersStayOk, LinksStayOk, SecuritiesStayOk,
         EstimatesStayOk, HistoryStaysOk DEF RecordsInv

LEMMA RecordsInvariant == Spec => []RecordsInv
BY RecordsInit, RecordsStep, PTL DEF Spec

--------------------------------------------------------------------------------
(* Least and greatest                                                           *)

\* A nonempty set of numbers has a least one, and Min is it.
LEMMA MinFacts ==
  ASSUME NEW T \in SUBSET Nat, T # {}
  PROVE  /\ Min(T) \in T
         /\ \A n \in T : Min(T) <= n
<1>1. \E m \in T : \A n \in T : ~(<<n, m>> \in OpToRel(<, Nat))
  BY NatLessThanWellFounded, WFMin, Zenon
<1>2. \A m, n \in T : n < m => <<n, m>> \in OpToRel(<, Nat)
  BY Zenon DEF OpToRel
<1>3. \E m \in T : \A n \in T : ~(n < m)
  BY <1>1, <1>2, Zenon
<1>4. \E m \in T : \A n \in T : m <= n
  BY <1>3
<1> QED BY <1>4 DEF Min

\* And of numbers that stay below a bound there is a greatest, and Max is it.
LEMMA MaxFacts ==
  ASSUME NEW T \in SUBSET Int, T # {}, NEW bound \in Int, \A n \in T : n <= bound
  PROVE  /\ Max(T) \in T
         /\ \A n \in T : n <= Max(T)
<1> DEFINE Distances == {bound - n : n \in T}
<1>0. \A n \in T : n \in Int /\ bound - n \in Nat
  OBVIOUS
<1>1. Distances \in SUBSET Nat /\ Distances # {}
  BY <1>0
<1>2. PICK n \in T : Min(Distances) = bound - n
  BY <1>1, MinFacts
<1>3. \A m \in T : bound - n <= bound - m
  BY <1>1, <1>2, MinFacts
<1>4. \A m \in T : m <= n
  BY <1>0, <1>3
<1> QED BY <1>4 DEF Max

\* Finitely many numbers have a bound.
LEMMA FiniteBound ==
  ASSUME NEW T, IsFiniteSet(T), \A n \in T : n \in Int
  PROVE  \E bound \in Int : \A n \in T : n <= bound
<1> DEFINE Above(x) == {n \in T : n > x}
           Counts == {Cardinality(Above(x)) : x \in T}
<1>1. CASE T = {}
  BY <1>1
<1>2. CASE T # {}
  <2>1. \A x \in T : IsFiniteSet(Above(x)) /\ Cardinality(Above(x)) \in Nat
    BY FS_Subset, FS_CardinalityType
  <2>2. Counts \in SUBSET Nat /\ Counts # {}
    BY <1>2, <2>1
  <2>3. PICK m \in T : Min(Counts) = Cardinality(Above(m))
    BY <2>2, MinFacts
  <2>4. ASSUME NEW x \in T, x > m PROVE FALSE
    <3>1. x \in Above(m) /\ x \notin Above(x) /\ Above(x) \subseteq Above(m)
      BY <2>4
    <3>2. Cardinality(Above(x)) <= Cardinality(Above(m)) /\ Cardinality(Above(x)) # Cardinality(Above(m))
      BY <2>1, <3>1, FS_Subset
    <3>3. Cardinality(Above(x)) \in Counts
      OBVIOUS
    <3> HIDE DEF Above, Counts
    <3>4. Min(Counts) <= Cardinality(Above(x))
      BY <2>2, <3>3, MinFacts
    <3> QED BY <2>1, <2>3, <3>2, <3>4
  <2> QED BY <2>4
<1> QED BY <1>1, <1>2

--------------------------------------------------------------------------------
(* Sums, in any order                                                           *)

Pick(s) == CHOOSE x \in s : TRUE

Partial(f, S) == CHOOSE iter : iter = [s \in SUBSET S |->
                    IF s = {} THEN 0
                    ELSE f[CHOOSE x \in s : TRUE] + iter[s \ {CHOOSE x \in s : TRUE}]]

LEMMA SumIsPartial ==
  ASSUME NEW f, NEW S
  PROVE  SumFunctionOnSet(f, S) = Partial(f, S)[S]
BY Zenon DEF SumFunctionOnSet, FoldFunctionOnSet, MapThenFoldSet, Partial

LEMMA WithoutOne ==
  ASSUME NEW s, IsFiniteSet(s), NEW x \in s
  PROVE  /\ IsFiniteSet(s \ {x}) /\ Cardinality(s) \in Nat
         /\ Cardinality(s \ {x}) = Cardinality(s) - 1 /\ Cardinality(s) > 0
<1>1. IsFiniteSet(s \ {x}) /\ Cardinality(s \ {x}) = Cardinality(s) - 1
  BY FS_RemoveElement
<1>2. Cardinality(s) \in Nat /\ Cardinality(s \ {x}) \in Nat
  BY <1>1, FS_CardinalityType
<1> QED BY <1>1, <1>2

\* The recursion behind a sum over a finite set has a solution: one level of subsets
\* after the other.
LEMMA PartialFacts ==
  ASSUME NEW S, IsFiniteSet(S), NEW f, \A x \in S : f[x] \in Int
  PROVE  /\ Partial(f, S) \in [SUBSET S -> Int]
         /\ \A s \in SUBSET S :
              Partial(f, S)[s] = IF s = {} THEN 0 ELSE f[Pick(s)] + Partial(f, S)[s \ {Pick(s)}]
<1> DEFINE Level(n) == {s \in SUBSET S : Cardinality(s) <= n}
           Adds(I, D) == \A s \in D : I[s] = IF s = {} THEN 0 ELSE f[Pick(s)] + I[s \ {Pick(s)}]
           P(n) == \E I \in [Level(n) -> Int] : Adds(I, Level(n))
           Bad == {n \in Nat : ~P(n)}
<1>1. \A s \in SUBSET S : /\ IsFiniteSet(s) /\ Cardinality(s) \in Nat
                          /\ s # {} => /\ Pick(s) \in s /\ Pick(s) \in S
                                       /\ s \ {Pick(s)} \in SUBSET S
                                       /\ Cardinality(s \ {Pick(s)}) = Cardinality(s) - 1
  <2> SUFFICES ASSUME NEW s \in SUBSET S
               PROVE  /\ IsFiniteSet(s) /\ Cardinality(s) \in Nat
                      /\ s # {} => /\ Pick(s) \in s /\ Pick(s) \in S
                                   /\ s \ {Pick(s)} \in SUBSET S
                                   /\ Cardinality(s \ {Pick(s)}) = Cardinality(s) - 1
    OBVIOUS
  <2>1. IsFiniteSet(s) /\ Cardinality(s) \in Nat
    BY FS_Subset, FS_CardinalityType
  <2>2. s # {} => Pick(s) \in s
    BY DEF Pick
  <2> QED BY <2>1, <2>2, WithoutOne
<1>2. Bad = {}
  <2> SUFFICES ASSUME Bad # {} PROVE FALSE
    OBVIOUS
  <2> DEFINE m == Min(Bad)
  <2>1. m \in Bad /\ \A n \in Bad : m <= n
    <3> HIDE DEF Bad
    <3>1. Bad \in SUBSET Nat
      BY DEF Bad
    <3> QED BY <3>1, MinFacts
  <2> HIDE DEF m
  <2>2. CASE m = 0
    <3> DEFINE I == [s \in Level(0) |-> 0]
    <3>1. \A s \in Level(0) : s = {}
      <4> SUFFICES ASSUME NEW s \in SUBSET S, Cardinality(s) <= 0, s # {} PROVE FALSE
        OBVIOUS
      <4>1. Cardinality(s) \in Nat /\ Cardinality(s \ {Pick(s)}) = Cardinality(s) - 1
        BY <1>1
      <4>2. Cardinality(s \ {Pick(s)}) \in Nat
        BY <1>1
      <4> HIDE DEF Bad
      <4> QED BY <4>1, <4>2
    <3>2. I \in [Level(0) -> Int] /\ Adds(I, Level(0))
      BY <3>1
    <3> QED BY <2>1, <2>2, <3>2
  <2>3. CASE m # 0
    <3>1. m \in Nat /\ m - 1 \in Nat /\ m - 1 \notin Bad
      <4> HIDE DEF P
      <4>1. m \in Nat /\ \A n \in Bad : m <= n
        BY <2>1
      <4> HIDE DEF Bad
      <4> QED BY <2>3, <4>1
    <3>2. PICK I \in [Level(m - 1) -> Int] : Adds(I, Level(m - 1))
      BY <3>1
    <3> DEFINE J == [s \in Level(m) |-> IF s = {} THEN 0 ELSE f[Pick(s)] + I[s \ {Pick(s)}]]
    <3>3. \A s \in Level(m) : s # {} => s \ {Pick(s)} \in Level(m - 1) /\ f[Pick(s)] \in Int
      <4> HIDE DEF Bad
      <4> QED BY <1>1, <3>1
    <3>4. Level(m - 1) \subseteq Level(m)
      <4> SUFFICES ASSUME NEW s \in SUBSET S, Cardinality(s) <= m - 1 PROVE Cardinality(s) <= m
        OBVIOUS
      <4>1. Cardinality(s) \in Nat
        BY <1>1
      <4> HIDE DEF Bad
      <4> QED BY <3>1, <4>1
    <3> HIDE DEF Level
    <3>5. J \in [Level(m) -> Int]
      <4>1. \A s \in Level(m) : (IF s = {} THEN 0 ELSE f[Pick(s)] + I[s \ {Pick(s)}]) \in Int
        BY <3>2, <3>3
      <4> QED BY <4>1
    <3>6. \A t \in Level(m - 1) : J[t] = I[t]
      BY <3>2, <3>4
    <3>7. \A s \in Level(m) : J[s] = IF s = {} THEN 0 ELSE f[Pick(s)] + I[s \ {Pick(s)}]
      OBVIOUS
    <3> HIDE DEF J
    <3>8. Adds(J, Level(m))
      BY <3>3, <3>6, <3>7
    <3>9. P(m)
      BY <3>5, <3>8
    <3> QED BY <2>1, <3>9
  <2> QED BY <2>2, <2>3
<1>3. Level(Cardinality(S)) = SUBSET S /\ Cardinality(S) \in Nat
  BY FS_Subset, FS_CardinalityType
<1>4. \E I \in [SUBSET S -> Int] : Adds(I, SUBSET S)
  <2>1. P(Cardinality(S))
    BY <1>2, <1>3
  <2> QED BY <1>3, <2>1
<1>5. PICK I \in [SUBSET S -> Int] : Adds(I, SUBSET S)
  BY <1>4
<1>6. I = [s \in SUBSET S |-> IF s = {} THEN 0
                              ELSE f[CHOOSE x \in s : TRUE] + I[s \ {CHOOSE x \in s : TRUE}]]
  BY <1>5 DEF Pick
<1>7. Partial(f, S) = [s \in SUBSET S |->
          IF s = {} THEN 0
          ELSE f[CHOOSE x \in s : TRUE] + Partial(f, S)[s \ {CHOOSE x \in s : TRUE}]]
  BY <1>6, Zenon DEF Partial
<1> DEFINE F == Partial(f, S)
<1>8. DOMAIN F = SUBSET S /\ Adds(F, SUBSET S) /\ F = [s \in SUBSET S |-> F[s]]
  <2> HIDE DEF F
  <2> QED BY <1>7 DEF Pick, F
<1>9. \A s \in SUBSET S : F[s] \in Int
  <2> DEFINE odd == {s \in SUBSET S : F[s] \notin Int}
             sizes == {Cardinality(s) : s \in odd}
  <2> HIDE DEF F
  <2> SUFFICES ASSUME odd # {} PROVE FALSE
    OBVIOUS
  <2>0. \A s \in SUBSET S : Cardinality(s) \in Nat
    BY <1>1
  <2>1. sizes \in SUBSET Nat /\ sizes # {}
    BY <2>0
  <2>2. Min(sizes) \in sizes /\ \A n \in sizes : Min(sizes) <= n
    <3> HIDE DEF sizes
    <3> QED BY <2>1, MinFacts
  <2>3. PICK s \in odd : Cardinality(s) = Min(sizes)
    BY <2>2
  <2>4. s # {}
    <3>1. \A t \in SUBSET S : t = {} => F[t] = 0
      BY <1>8
    <3> QED BY <3>1
  <2>5. s \ {Pick(s)} \notin odd
    <3>1. ~(Min(sizes) <= Cardinality(s \ {Pick(s)}))
      <4> HIDE DEF sizes
      <4> QED BY <1>1, <2>3, <2>4
    <3> QED BY <2>2, <3>1
  <2>6. F[s] = f[Pick(s)] + F[s \ {Pick(s)}] /\ f[Pick(s)] \in Int /\ F[s \ {Pick(s)}] \in Int
    BY <1>1, <1>8, <2>4, <2>5
  <2> QED BY <2>6
<1> QED BY <1>8, <1>9

\* Two sums of the same numbers are the same, whatever else is summed beside them.
LEMMA PartialAgree ==
  ASSUME NEW S, IsFiniteSet(S), NEW T \in SUBSET S, NEW f, NEW g,
         \A x \in S : f[x] \in Int, \A x \in T : g[x] = f[x]
  PROVE  \A s \in SUBSET T : Partial(g, T)[s] = Partial(f, S)[s]
<1> DEFINE F == Partial(f, S)
           G == Partial(g, T)
           odd == {s \in SUBSET T : G[s] # F[s]}
           sizes == {Cardinality(s) : s \in odd}
<1>1. IsFiniteSet(T) /\ \A x \in T : g[x] \in Int
  BY FS_Subset
<1>2. \A s \in SUBSET S : F[s] = IF s = {} THEN 0 ELSE f[Pick(s)] + F[s \ {Pick(s)}]
  BY PartialFacts
<1>3. \A s \in SUBSET T : G[s] = IF s = {} THEN 0 ELSE g[Pick(s)] + G[s \ {Pick(s)}]
  BY <1>1, PartialFacts
<1>4. \A s \in SUBSET T : /\ Cardinality(s) \in Nat
                          /\ s # {} => /\ Pick(s) \in s
                                       /\ Cardinality(s \ {Pick(s)}) < Cardinality(s)
  <2> SUFFICES ASSUME NEW s \in SUBSET T
               PROVE  /\ Cardinality(s) \in Nat
                      /\ s # {} => Pick(s) \in s /\ Cardinality(s \ {Pick(s)}) < Cardinality(s)
    OBVIOUS
  <2>1. IsFiniteSet(s) /\ Cardinality(s) \in Nat
    BY <1>1, FS_Subset, FS_CardinalityType
  <2>2. s # {} => Pick(s) \in s
    BY DEF Pick
  <2>3. s # {} => Cardinality(s \ {Pick(s)}) = Cardinality(s) - 1
    BY <2>1, <2>2, WithoutOne
  <2> QED BY <2>1, <2>2, <2>3
<1> HIDE DEF F, G
<1> SUFFICES ASSUME odd # {} PROVE FALSE
  BY DEF F, G
<1>5. sizes \in SUBSET Nat /\ sizes # {}
  BY <1>4
<1>6. Min(sizes) \in sizes /\ \A n \in sizes : Min(sizes) <= n
  <2> HIDE DEF sizes
  <2> QED BY <1>5, MinFacts
<1>7. PICK s \in odd : Cardinality(s) = Min(sizes)
  BY <1>6
<1>8. s \in SUBSET T /\ s \in SUBSET S /\ s # {}
  BY <1>2, <1>3
<1>9. s \ {Pick(s)} \notin odd
  <2>1. Cardinality(s \ {Pick(s)}) \in Nat /\ Cardinality(s \ {Pick(s)}) < Min(sizes)
    BY <1>4, <1>7, <1>8
  <2>2. Cardinality(s \ {Pick(s)}) \notin sizes
    <3> HIDE DEF sizes
    <3> QED BY <1>5, <1>6, <2>1
  <2> QED BY <2>2
<1>10. G[s \ {Pick(s)}] = F[s \ {Pick(s)}] /\ Pick(s) \in T
  BY <1>4, <1>8, <1>9
<1> QED BY <1>2, <1>3, <1>7, <1>8, <1>10

LEMMA SamePartial ==
  ASSUME NEW S, IsFiniteSet(S), NEW f, \A x \in S : f[x] \in Int, NEW T \in SUBSET S
  PROVE  SumFunctionOnSet(f, T) = Partial(f, S)[T]
<1>1. \A g : (\A x \in T : g[x] = f[x])
             => \A s \in SUBSET T : Partial(g, T)[s] = Partial(f, S)[s]
  BY PartialAgree
<1>2. \A s \in SUBSET T : Partial(f, T)[s] = Partial(f, S)[s]
  BY <1>1, Zenon
<1> QED BY <1>2, SumIsPartial

\* Any element of a set may be summed last.
LEMMA SumFacts ==
  ASSUME NEW S, IsFiniteSet(S), NEW f, \A x \in S : f[x] \in Int
  PROVE  /\ SumFunctionOnSet(f, S) \in Int
         /\ S = {} => SumFunctionOnSet(f, S) = 0
         /\ \A x \in S : SumFunctionOnSet(f, S) = f[x] + SumFunctionOnSet(f, S \ {x})
<1> DEFINE F == Partial(f, S)
           odd == {s \in SUBSET S : \E x \in s : F[s] # f[x] + F[s \ {x}]}
           sizes == {Cardinality(s) : s \in odd}
<1>1. /\ F \in [SUBSET S -> Int]
      /\ \A s \in SUBSET S : F[s] = IF s = {} THEN 0 ELSE f[Pick(s)] + F[s \ {Pick(s)}]
  BY PartialFacts
<1>2. \A s \in SUBSET S : SumFunctionOnSet(f, s) = F[s]
  BY SamePartial
<1> HIDE DEF F
<1>3. \A s \in SUBSET S : /\ Cardinality(s) \in Nat
                          /\ \A x \in s : Cardinality(s \ {x}) < Cardinality(s)
  <2> SUFFICES ASSUME NEW s \in SUBSET S
               PROVE  /\ Cardinality(s) \in Nat
                      /\ \A x \in s : Cardinality(s \ {x}) < Cardinality(s)
    OBVIOUS
  <2>1. IsFiniteSet(s) /\ Cardinality(s) \in Nat
    BY FS_Subset, FS_CardinalityType
  <2>2. \A x \in s : Cardinality(s \ {x}) = Cardinality(s) - 1
    BY <2>1, WithoutOne
  <2> QED BY <2>1, <2>2
<1>4. odd = {}
  <2> SUFFICES ASSUME odd # {} PROVE FALSE
    OBVIOUS
  <2>1. sizes \in SUBSET Nat /\ sizes # {}
    BY <1>3
  <2>2. Min(sizes) \in sizes /\ \A n \in sizes : Min(sizes) <= n
    <3> HIDE DEF sizes
    <3> QED BY <2>1, MinFacts
  <2>3. PICK s \in odd : Cardinality(s) = Min(sizes)
    BY <2>2
  <2>4. PICK x \in s : F[s] # f[x] + F[s \ {x}]
    BY <2>3
  <2> DEFINE y == Pick(s)
  <2>5. s \in SUBSET S /\ s # {} /\ y \in s /\ F[s] = f[y] + F[s \ {y}] /\ y # x
    BY <1>1, <2>4 DEF Pick
  <2> HIDE DEF y
  <2>6. \A t \in SUBSET s : t # s /\ (\E z \in s : t = s \ {z}) => t \notin odd
    <3> SUFFICES ASSUME NEW z \in s PROVE s \ {z} \notin odd
      OBVIOUS
    <3>1. Cardinality(s \ {z}) \in Nat /\ Cardinality(s \ {z}) < Min(sizes)
      BY <1>3, <2>3, <2>5
    <3>2. Cardinality(s \ {z}) \notin sizes
      <4> DEFINE size == Cardinality(s \ {z})
      <4>1. size \in Nat /\ size < Min(sizes) /\ Min(sizes) \in Nat
        BY <2>1, <2>2, <3>1
      <4> HIDE DEF sizes, size
      <4>2. size \notin sizes
        BY <2>2, <4>1
      <4> QED BY <4>2 DEF size
    <3> QED BY <3>2
  <2>7. F[s \ {y}] = f[x] + F[(s \ {y}) \ {x}]
    <3>1. s \ {y} \notin odd
      BY <2>5, <2>6
    <3> QED BY <2>5, <3>1
  <2>8. F[s \ {x}] = f[y] + F[(s \ {x}) \ {y}]
    <3>1. s \ {x} \notin odd
      BY <2>5, <2>6
    <3> QED BY <2>5, <3>1
  <2>9. (s \ {y}) \ {x} = (s \ {x}) \ {y} /\ (s \ {x}) \ {y} \in SUBSET S
    BY <2>5
  <2>10. F[(s \ {x}) \ {y}] \in Int /\ f[x] \in Int /\ f[y] \in Int
    BY <1>1, <2>5, <2>9
  <2>11. F[s] = f[x] + F[s \ {x}]
    <3>1. F[s] = f[y] + (f[x] + F[(s \ {x}) \ {y}])
      BY <2>5, <2>7, <2>9
    <3>2. F[s \ {x}] = f[y] + F[(s \ {x}) \ {y}]
      BY <2>8
    <3> HIDE DEF odd
    <3> QED BY <2>10, <3>1, <3>2
  <2> QED BY <2>4, <2>11
<1>5. \A x \in S : F[S] = f[x] + F[S \ {x}]
  BY <1>4
<1> QED BY <1>1, <1>2, <1>5

--------------------------------------------------------------------------------
(* Compustat: what was reported by a day is all that a row of that day was made  *)
(* of, unless an earlier quarter of its year was reported after it.             *)

LEMMA QuartersAreSettled == RecordsInv => CompustatPointInTime
<1> SUFFICES ASSUME RecordsInv, kind = "compustat", NEW day \in Past, NEW start \in Asked(day)
             PROVE  LET OnTime(rows) == {r \in rows : ~Overtaken(r, day)}
                    IN  OnTime(CompustatRows(feed, start, day)) =
                        OnTime({r \in CompustatRows(QuartersBy(day), 1, day) : r.report_date >= start})
  BY DEF CompustatPointInTime
<1> DEFINE then == QuartersBy(day)
<1>1. day \in Nat /\ day > 0 /\ start \in Nat /\ start > 0 /\ start <= day
  BY DEF Past, Asked, RecordsInv
<1>2. \A r \in Usable(feed) : r \in feed /\ r.rdq \in Nat
  BY DEF Usable, RecordsInv, QuartersOk
<1>3. \A r \in Usable(feed) : r \in Usable(then) <=> r.rdq <= day
  BY DEF Usable, QuartersBy
<1>4. Usable(then) \subseteq Usable(feed)
  BY DEF Usable, QuartersBy
<1>5. ASSUME NEW r \in Usable(then), ~Overtaken(CompustatRow(feed, r), day)
      PROVE  CompustatRow(feed, r) = CompustatRow(then, r)
  <2>1. CompustatRow(feed, r).fiscal_year = r.fyear /\ CompustatRow(feed, r).fiscal_quarter = r.fqtr
    BY DEF CompustatRow
  <2>2. \A q \in Usable(feed) : q.fyear = r.fyear /\ q.fqtr < r.fqtr => q.rdq <= day
    BY <1>1, <1>2, <1>5, <2>1 DEF Overtaken
  <2>3. Before(feed, r) = Before(then, r)
    BY <1>3, <1>4, <2>2 DEF Before
  <2> QED BY <2>3 DEF CompustatRow, QuarterlyFlow
<1>6. \A r : /\ CompustatRow(feed, r).fiscal_year = CompustatRow(then, r).fiscal_year
             /\ CompustatRow(feed, r).fiscal_quarter = CompustatRow(then, r).fiscal_quarter
             /\ CompustatRow(then, r).report_date = r.rdq
  BY DEF CompustatRow
<1>7. \A r : Overtaken(CompustatRow(feed, r), day) <=> Overtaken(CompustatRow(then, r), day)
  BY <1>6 DEF Overtaken
<1>8. \A r : r \in {q \in Emitted(feed) : q.rdq \in start..day}
             <=> r \in Usable(then) /\ r \in Emitted(then) /\ r.rdq >= start /\ r.rdq \in 1..day
  BY <1>1, <1>2, <1>3, <1>4 DEF Emitted
<1>9. ASSUME NEW row, ~Overtaken(row, day)
      PROVE  row \in CompustatRows(feed, start, day)
             <=> row \in CompustatRows(then, 1, day) /\ row.report_date >= start
  <2>1. ASSUME NEW r \in {q \in Emitted(feed) : q.rdq \in start..day}, row = CompustatRow(feed, r)
        PROVE  row \in CompustatRows(then, 1, day) /\ row.report_date >= start
    BY <1>5, <1>6, <1>8, <1>9, <2>1 DEF CompustatRows
  <2>2. ASSUME NEW r \in {q \in Emitted(then) : q.rdq \in 1..day}, row = CompustatRow(then, r),
               row.report_date >= start
        PROVE  row \in CompustatRows(feed, start, day)
    <3>1. r \in Usable(then) /\ r.rdq >= start
      BY <1>6, <2>2 DEF Emitted
    <3>2. row = CompustatRow(feed, r)
      BY <1>5, <1>7, <1>9, <2>2, <3>1
    <3> QED BY <1>8, <2>2, <3>1, <3>2 DEF CompustatRows
  <2> QED BY <2>1, <2>2 DEF CompustatRows
<1> QED BY <1>9

--------------------------------------------------------------------------------
(* CCM: links that begin or end after a day leave the day as it was, and on a    *)
(* day the two directions agree.                                                *)

LEMMA LinkTypesOk ==
  ASSUME RecordsInv, kind = "ccm"
  PROVE  /\ DOMAIN feed = 1..Len(feed) /\ Len(feed) \in Nat
         /\ \A i \in DOMAIN feed :
              feed[i] \in [gvkey : Companies, permno : Securities, linktype : LinkTypes,
                           linkprim : LinkPrims, start : Nat, end : Int \cup {NoDate}]
BY LenProperties, ElementOfSeq DEF RecordsInv, LinksOk

LEMMA LinksAreSettled == RecordsInv => LinksPointInTime
<1> SUFFICES ASSUME RecordsInv, kind = "ccm", NEW day \in Past
             PROVE  /\ \A g \in Companies :
                          PermnoForGvkey(feed, g, day) = PermnoForGvkey(LinksBy(day), g, day)
                    /\ \A p \in Securities :
                          GvkeyForPermno(feed, p, day) = GvkeyForPermno(LinksBy(day), p, day)
  BY DEF LinksPointInTime
<1> DEFINE then == LinksBy(day)
<1>1. day \in Int
  BY DEF Past
<1>2. /\ DOMAIN feed \subseteq Nat
      /\ \A i \in DOMAIN feed :
              feed[i] \in [gvkey : Companies, permno : Securities, linktype : LinkTypes,
                           linkprim : LinkPrims, start : Nat, end : Int \cup {NoDate}]
  BY LinkTypesOk
<1>3. /\ DOMAIN then = {i \in DOMAIN feed : feed[i].start <= day}
      /\ \A i \in DOMAIN then :
            then[i] = IF feed[i].end # NoDate /\ feed[i].end >= day
                      THEN [feed[i] EXCEPT !.end = NoDate] ELSE feed[i]
  BY DEF LinksBy
<1> HIDE DEF then
<1>4. \A i \in DOMAIN then :
        /\ then[i].gvkey = feed[i].gvkey /\ then[i].permno = feed[i].permno
        /\ then[i].linktype = feed[i].linktype /\ then[i].linkprim = feed[i].linkprim
        /\ then[i].start = feed[i].start
        /\ then[i].end = IF feed[i].end # NoDate /\ feed[i].end >= day THEN NoDate ELSE feed[i].end
  BY <1>2, <1>3
<1>5. \A i \in DOMAIN then : (Covers(then[i], day) <=> Covers(feed[i], day)) /\ (Parses(then[i]) <=> Parses(feed[i]))
  BY <1>1, <1>2, <1>3, <1>4 DEF Covers, Parses
<1>6. \A i \in DOMAIN feed : Covers(feed[i], day) => i \in DOMAIN then
  BY <1>3 DEF Covers
<1>7. ASSUME NEW g PROVE PermnoForGvkey(feed, g, day) = PermnoForGvkey(then, g, day)
  <2> DEFINE rows(links) == {i \in FromRows(links) : links[i].gvkey = g /\ Covers(links[i], day)}
  <2>1. rows(feed) = rows(then) /\ rows(feed) \subseteq DOMAIN then /\ rows(feed) \subseteq Nat
    BY <1>2, <1>3, <1>4, <1>5, <1>6 DEF FromRows
  <2>2. rows(feed) # {} => feed[Min(rows(feed))].permno = then[Min(rows(then))].permno
    BY <1>4, <2>1, MinFacts
  <2> QED BY <2>1, <2>2 DEF PermnoForGvkey
<1>8. ASSUME NEW p PROVE GvkeyForPermno(feed, p, day) = GvkeyForPermno(then, p, day)
  <2> DEFINE rows(links) == {i \in FromRows(links) : links[i].permno = p /\ Covers(links[i], day)}
  <2>1. rows(feed) = rows(then) /\ rows(feed) \subseteq DOMAIN then /\ rows(feed) \subseteq Nat
    BY <1>2, <1>3, <1>4, <1>5, <1>6 DEF FromRows
  <2>2. rows(feed) # {} => feed[Min(rows(feed))].gvkey = then[Min(rows(then))].gvkey
    BY <1>4, <2>1, MinFacts
  <2> QED BY <2>1, <2>2 DEF GvkeyForPermno
<1> QED BY <1>7, <1>8 DEF then

LEMMA LinksAgree == RecordsInv => JoinedOnce
<1> SUFFICES ASSUME RecordsInv, kind = "ccm", NEW day \in 1..today, NEW g \in Companies,
                    PermnoForGvkey(feed, g, day) # NoMatch
             PROVE  GvkeyForPermno(feed, PermnoForGvkey(feed, g, day), day) = g
  BY DEF JoinedOnce
<1> DEFINE p == PermnoForGvkey(feed, g, day)
           ofCompany == {i \in FromRows(feed) : feed[i].gvkey = g /\ Covers(feed[i], day)}
           ofSecurity == {i \in FromRows(feed) : feed[i].permno = p /\ Covers(feed[i], day)}
           i == Min(ofCompany)
           j == Min(ofSecurity)
<1>1. /\ DOMAIN feed = 1..Len(feed) /\ Len(feed) \in Nat /\ DOMAIN feed \subseteq Nat
      /\ \A k \in DOMAIN feed :
              feed[k] \in [gvkey : Companies, permno : Securities, linktype : LinkTypes,
                           linkprim : LinkPrims, start : Nat, end : Int \cup {NoDate}]
  BY LinkTypesOk
<1>2. ofCompany # {} /\ p = feed[i].permno
  BY DEF PermnoForGvkey
<1>3. i \in ofCompany
  BY <1>1, <1>2, MinFacts DEF FromRows
<1>4. i \in ofSecurity
  BY <1>2, <1>3
<1>5. j \in ofSecurity /\ GvkeyForPermno(feed, p, day) = feed[j].gvkey
  <2>1. ofSecurity \in SUBSET Nat /\ ofSecurity # {}
    BY <1>1, <1>4 DEF FromRows
  <2> QED BY <2>1, MinFacts DEF GvkeyForPermno
<1>6. /\ i \in 1..Len(feed) /\ j \in 1..Len(feed)
      /\ feed[i].gvkey = g /\ feed[i].permno = p /\ feed[j].permno = p
      /\ Covers(feed[i], day) /\ Covers(feed[j], day)
      /\ feed[i].linkprim = "P" /\ feed[j].linkprim = "P"
  <2>1. \A k \in FromRows(feed) : k \in 1..Len(feed) /\ feed[k].linkprim = "P"
    BY <1>1 DEF FromRows, Parses, USABLE_LINKPRIM, LinkPrims
  <2> QED BY <1>2, <1>3, <1>5, <2>1
<1> HIDE DEF i, j, p, ofCompany, ofSecurity
<1>7. \A k, l \in 1..Len(feed) :
        /\ k < l
        /\ feed[k].linkprim = "P" /\ feed[l].linkprim = "P"
        /\ feed[k].gvkey = feed[l].gvkey \/ feed[k].permno = feed[l].permno
        => Follows(feed[k], feed[l])
  BY DEF RecordsInv, LinksOk
<1>8. \A k, l \in 1..Len(feed) :
        Follows(feed[k], feed[l]) => ~(Covers(feed[k], day) /\ Covers(feed[l], day))
  <2> SUFFICES ASSUME NEW k \in 1..Len(feed), NEW l \in 1..Len(feed), Follows(feed[k], feed[l])
               PROVE  ~(Covers(feed[k], day) /\ Covers(feed[l], day))
    OBVIOUS
  <2>1. day \in Int /\ feed[k].end \in Int /\ feed[l].start \in Int /\ feed[k].end < feed[l].start
    BY <1>1 DEF Follows
  <2> QED BY <2>1 DEF Covers, Follows
<1>9. i = j
  <2>1. i \in Int /\ j \in Int
    BY <1>6
  <2>2. ~(i < j) /\ ~(j < i)
    BY <1>6, <1>7, <1>8
  <2> QED BY <2>1, <2>2
<1> QED BY <1>5, <1>6, <1>9 DEF p

--------------------------------------------------------------------------------
(* IBES: the signal of a day is made of what had been announced by then.         *)

\* The last forecasts of a figure are drawn from the estimates made before it came out.
LEMMA SameForecasts ==
  ASSUME NEW a, NEW estimates, NEW early \in SUBSET estimates,
         \A e \in estimates : e.date < a.date => e \in early
  PROVE  LastForecasts(estimates, a) = LastForecasts(early, a)
<1> DEFINE analysts(e) == {r.analyst : r \in e}
<1>1. ASSUME NEW x PROVE Forecasts(estimates, a, x) = Forecasts(early, a, x)
  BY DEF Forecasts
<1>2. {x \in analysts(estimates) : Forecasts(estimates, a, x) # {}}
      = {x \in analysts(early) : Forecasts(early, a, x) # {}}
  <2>1. \A x : Forecasts(early, a, x) # {} => \E e \in early : x = e.analyst
    BY DEF Forecasts
  <2>2. \A x : Forecasts(early, a, x) # {} => x \in analysts(early) /\ x \in analysts(estimates)
    BY <2>1
  <2> QED BY <1>1, <2>2
<1> DEFINE covering(e) == {x \in analysts(e) : Forecasts(e, a, x) # {}}
           final(e, x) == CHOOSE f \in Forecasts(e, a, x) :
                             \A other \in Forecasts(e, a, x) : other.date <= f.date
<1>3. \A x : final(estimates, x) = final(early, x)
  BY <1>1
<1>4. \A e : LastForecasts(e, a) = [x \in covering(e) |-> final(e, x)]
  BY DEF LastForecasts
<1> HIDE DEF final, covering
<1>5. covering(estimates) = covering(early)
  BY <1>2 DEF covering
<1> QED BY <1>3, <1>4, <1>5

\* An analyst's record on a day comes from the estimates and the figures of that day.
LEMMA AccuracyIsSettled ==
  ASSUME NEW estimates, NEW actuals, NEW early, NEW figures, NEW day \in Int,
         \A e \in estimates : e.date \in Int, \A a \in actuals : a.date \in Int,
         early = {e \in estimates : e.date <= day}, figures = {a \in actuals : a.date <= day}
  PROVE  AnalystAccuracy(estimates, actuals, day) = AnalystAccuracy(early, figures, day)
<1> DEFINE analysts(est) == {e.analyst : e \in est}
           Of(est, a, x) == Forecasts(est, a, x)
           Scored(est, y) == {a \in figures : /\ y \in DOMAIN LastForecasts(est, a)
                                              /\ Cardinality(DOMAIN LastForecasts(est, a)) >= 2}
           Mark(est, a, y) ==
              LET last == Cardinality(DOMAIN LastForecasts(est, a)) - 1
              IN  (4 * (last - Place(LastForecasts(est, a), a, y))) \div last
           scored(est) == {y \in analysts(est) : Scored(est, y) # {}
                                                 /\ Cardinality(Scored(est, y)) >= MinObservations}
           accuracy(est) == [x \in scored(est) |->
              SumFunction([a \in Scored(est, x) |-> Mark(est, a, x)]) \div Cardinality(Scored(est, x))]
<1>1. {a \in actuals : a.date <= day} = figures /\ {a \in figures : a.date <= day} = figures
  OBVIOUS
<1>2. /\ AnalystAccuracy(estimates, actuals, day) = accuracy(estimates)
      /\ AnalystAccuracy(early, figures, day) = accuracy(early)
  BY <1>1 DEF AnalystAccuracy
<1>3. ASSUME NEW a \in figures PROVE LastForecasts(estimates, a) = LastForecasts(early, a)
  BY SameForecasts
<1>4. ASSUME NEW y PROVE Scored(estimates, y) = Scored(early, y)
  BY <1>3
<1>5. scored(estimates) = scored(early)
  <2>1. \A y : Scored(early, y) # {} => y \in analysts(early) /\ y \in analysts(estimates)
    <3>1. \A a : DOMAIN LastForecasts(early, a) \subseteq analysts(early)
      BY DEF LastForecasts
    <3>2. analysts(early) \subseteq analysts(estimates)
      OBVIOUS
    <3> QED BY <3>1, <3>2
  <2> HIDE DEF Scored, analysts
  <2> QED BY <1>4, <2>1
<1>6. ASSUME NEW x
      PROVE  [a \in Scored(estimates, x) |-> Mark(estimates, a, x)]
             = [a \in Scored(early, x) |-> Mark(early, a, x)]
  <2>1. \A a \in Scored(early, x) : Mark(estimates, a, x) = Mark(early, a, x)
    BY <1>3
  <2> HIDE DEF Scored, Mark
  <2> QED BY <1>4, <2>1
<1> HIDE DEF Scored, Mark, scored
<1>7. accuracy(estimates) = accuracy(early)
  BY <1>4, <1>5, <1>6
<1> QED BY <1>2, <1>7

LEMMA EstimatesAreSettled == RecordsInv => EstimatesPointInTime
<1> SUFFICES ASSUME RecordsInv, kind = "ibes", NEW day \in Past
             PROVE  SignalAsOf(feed.estimates, feed.actuals, day, today)
                    = SignalAsOf(feed.estimates, feed.actuals, day, day)
  BY DEF EstimatesPointInTime
<1> DEFINE est == Announced(feed.estimates, 1, today)
           act == Announced(feed.actuals, 1, today)
           estThen == Announced(feed.estimates, 1, day)
           actThen == Announced(feed.actuals, 1, day)
<1>1. day \in Int /\ 1 <= day /\ today \in Int /\ day <= today
  BY DEF Past, RecordsInv
<1>2. /\ \A e \in est : e.date \in Int
      /\ \A a \in act : a.date \in Int
  BY DEF Announced
<1>3. /\ estThen = {e \in est : e.date <= day}
      /\ actThen = {a \in act : a.date <= day}
  BY <1>1 DEF Announced
<1>4. {e \in estThen : e.date <= day} = {e \in est : e.date <= day}
  BY <1>3
<1> HIDE DEF est, act, estThen, actThen
<1>5. AnalystAccuracy(est, act, day) = AnalystAccuracy(estThen, actThen, day)
  BY <1>1, <1>2, <1>3, AccuracyIsSettled
<1>6. \A accuracy : TrueBeats(est, accuracy, day) = TrueBeats(estThen, accuracy, day)
  BY <1>4 DEF TrueBeats
<1> QED BY <1>5, <1>6 DEF SignalAsOf, est, act, estThen, actThen

--------------------------------------------------------------------------------
(* The desk: volatilities and scenarios of a day use no later bar, and a day's    *)
(* direction is settled when it is over.                                        *)

LEMMA BooksAreSettled == BookPointInTime
<1> SUFFICES ASSUME NEW day \in Past
             PROVE  /\ TrailingVols(feed.bars, day) = TrailingVols(BarsBy(day), day)
                    /\ Scenarios(feed.bars, day) = Scenarios(BarsBy(day), day)
  BY DEF BookPointInTime
<1>1. BarsAsOf(feed.bars, day) = BarsAsOf(BarsBy(day), day)
  BY DEF BarsAsOf, BarsBy
<1>2. ReturnsAsOf(feed.bars, day) = ReturnsAsOf(BarsBy(day), day)
  BY <1>1 DEF ReturnsAsOf
<1> QED BY <1>2 DEF TrailingVols, Scenarios

LEMMA DirectionsAreSettled == RecordsInv => DirectionIsSettled
<1> SUFFICES ASSUME RecordsInv, kind = "validation",
                    NEW n \in DOMAIN feed, NEW i \in MarketDays(SubSeq(feed, 1, n))
             PROVE  /\ RegimesOn(feed, i) \cap {"bull", "bear"} = {Direction(SubSeq(feed, 1, n), i)}
                    /\ (i \in VolDays(SubSeq(feed, 1, n))) = (i \in VolDays(feed))
  BY DEF DirectionIsSettled
<1> DEFINE Day == [move : Int, ic : Int \cup {NoIc}]
           then == SubSeq(feed, 1, n)
<1>1. /\ feed \in Seq(Day) /\ Len(feed) \in Nat /\ DOMAIN feed = 1..Len(feed)
      /\ n \in 1..Len(feed)
  BY LenProperties DEF RecordsInv
<1>2. /\ Len(then) = n
      /\ \A k \in 1..n : then[k] = feed[k]
  <2>1. 1 \in Int /\ n \in Int /\ n - 1 + 1 = n /\ 1 <= n /\ n <= Len(feed)
    BY <1>1
  <2>2. /\ Len(SubSeq(feed, 1, n)) = IF 1 <= n THEN n - 1 + 1 ELSE 0
        /\ \A k \in 1..(n - 1 + 1) : SubSeq(feed, 1, n)[k] = feed[1 + k - 1]
    BY <1>1, <2>1, SubSeqProperties
  <2>3. \A k \in 1..n : 1 + k - 1 = k
    BY <1>1
  <2> QED BY <2>1, <2>2, <2>3
<1> HIDE DEF then, Day
<1>3. i \in 2..n /\ i \in MarketDays(feed) /\ i \in MarketDays(then)
  BY <1>1, <1>2 DEF MarketDays, then
<1>4. Trailing(then, i) = Trailing(feed, i)
  <2> DEFINE m == Min({RegimeWindow, i - 1})
  <2>1. m \in Int /\ m <= i - 1
    <3>1. {RegimeWindow, i - 1} \in SUBSET Nat
      BY <1>3, WindowAssumption DEF WindowAssumption
    <3> QED BY <3>1, MinFacts
  <2>2. \A k \in 1..m : i + 1 - k \in 1..n
    <3> HIDE DEF m
    <3> QED BY <1>1, <1>3, <2>1
  <2>3. \A k \in 1..m : then[i + 1 - k] = feed[i + 1 - k]
    BY <1>2, <2>2
  <2> QED BY <2>3 DEF Trailing
<1>5. Direction(then, i) = Direction(feed, i)
  BY <1>4 DEF Direction
<1>6. (i \in VolDays(then)) = (i \in VolDays(feed))
  BY <1>3, <1>4 DEF VolDays
<1>7. RegimesOn(feed, i) \cap {"bull", "bear"} = {Direction(feed, i)}
  BY <1>3 DEF RegimesOn, Direction
<1> QED BY <1>5, <1>6, <1>7 DEF then

--------------------------------------------------------------------------------
(* EDGAR: the fact that is chosen, and that later filings leave it chosen.       *)

\* Beats compares one number: the day filed first, then the days covered, then the end.
Weight(e) == 6 * e.filed + 2 * Days(e) + (2 - PeriodEnd(e))

LEMMA DaysFacts ==
  ASSUME NEW e
  PROVE  /\ Days(e) \in {0, 1, 2} /\ PeriodEnd(e) \in {1, 2}
         /\ Days(e) = 0 <=> e.tag \in Instants
         /\ Days(e) = 2 <=> e.tag \notin Instants /\ e.span = "ytd"
         /\ PeriodEnd(e) = 1 <=> e.span = "comparative"
BY DEF Days, PeriodEnd

LEMMA FactFacts ==
  ASSUME NEW e, FactOk(e)
  PROVE  /\ e.filed \in Nat
         /\ e.span \in {"quarter", "ytd", "comparative"}
         /\ e.tag \in Instants => e.span # "ytd"
BY DEF FactOk, Spans

LEMMA WeightFacts ==
  ASSUME NEW e, NEW f, FactOk(e), FactOk(f)
  PROVE  /\ Weight(e) \in Nat
         /\ Beats(e, f) <=> Weight(e) < Weight(f)
         /\ Weight(e) = Weight(f) /\ e.tag = f.tag => e.filed = f.filed /\ e.span = f.span
<1>1. /\ e.filed \in Nat /\ Days(e) \in {0, 1, 2} /\ PeriodEnd(e) \in {1, 2}
      /\ f.filed \in Nat /\ Days(f) \in {0, 1, 2} /\ PeriodEnd(f) \in {1, 2}
  BY FactFacts, DaysFacts
<1>2. Weight(e) \in Nat
  BY <1>1 DEF Weight
<1>3. Beats(e, f) <=> Weight(e) < Weight(f)
  BY <1>1 DEF Beats, Weight
<1>4. Weight(e) = Weight(f) => e.filed = f.filed /\ Days(e) = Days(f) /\ PeriodEnd(e) = PeriodEnd(f)
  <2> DEFINE a == e.filed  b == f.filed  c == Days(e)  d == Days(f)  p == PeriodEnd(e)  q == PeriodEnd(f)
  <2>1. Weight(e) = 6 * a + 2 * c + (2 - p) /\ Weight(f) = 6 * b + 2 * d + (2 - q)
    BY DEF Weight
  <2>2. a \in Nat /\ b \in Nat /\ c \in {0, 1, 2} /\ d \in {0, 1, 2} /\ p \in {1, 2} /\ q \in {1, 2}
    BY <1>1
  <2> HIDE DEF a, b, c, d, p, q
  <2>3. 6 * a + 2 * c + (2 - p) = 6 * b + 2 * d + (2 - q) => a = b
    BY <2>2
  <2>4. 6 * a + 2 * c + (2 - p) = 6 * b + 2 * d + (2 - q) => c = d /\ p = q
    BY <2>2, <2>3
  <2> QED BY <2>1, <2>3, <2>4 DEF a, b, c, d, p, q
<1>5. e.tag = f.tag /\ Days(e) = Days(f) /\ PeriodEnd(e) = PeriodEnd(f) => e.span = f.span
  BY FactFacts, DaysFacts
<1> QED BY <1>2, <1>3, <1>4, <1>5

\* One fact that no other beats is chosen among those that carry a period.
LEMMA ChosenFacts ==
  ASSUME NEW facts, \A e \in facts : FactOk(e), NEW field, NEW period,
         Carriers(facts, field, period) # {}, Carriers(facts, field, period) \subseteq Nat
  PROVE  LET entries == Competing(facts, field, period)
             e == Chosen(facts, field, period)
         IN  /\ e \in entries /\ \A other \in entries : ~Beats(other, e)
             /\ \A f \in entries : (\A other \in entries : ~Beats(other, f)) => f = e
             /\ entries \subseteq facts
             /\ \A f \in entries : /\ f.period = period /\ f.form \in OriginalForms
                                   /\ f.tag = Tags[field][Min(Carriers(facts, field, period))]
<1> DEFINE entries == Competing(facts, field, period)
           first == Min(Carriers(facts, field, period))
           tag == Tags[field][first]
           weights == {Weight(e) : e \in entries}
<1>1. first \in Carriers(facts, field, period)
  BY MinFacts
<1>2. entries = {e \in facts : e.form \in OriginalForms /\ e.tag = tag /\ e.period = period}
  BY DEF Competing, Entries
<1>3. entries # {}
  BY <1>1 DEF Carriers, Competing
<1> HIDE DEF entries, tag
<1>4. \A e \in entries : FactOk(e)
  BY <1>2
<1>5. weights \in SUBSET Nat /\ weights # {}
  BY <1>3, <1>4, WeightFacts
<1>6. PICK e \in entries : Weight(e) = Min(weights)
  BY <1>5, MinFacts
<1>7. \A f \in entries : Weight(e) <= Weight(f)
  BY <1>5, <1>6, MinFacts
<1>8. \A f \in entries : ~Beats(f, e)
  BY <1>4, <1>7, WeightFacts
<1>9. ASSUME NEW f \in entries, NEW g \in entries,
             \A other \in entries : ~Beats(other, f), \A other \in entries : ~Beats(other, g)
      PROVE  f = g
  <2>1. FactOk(f) /\ FactOk(g)
    BY <1>4
  <2>2. Weight(f) = Weight(g)
    <3>1. Weight(f) \in Nat /\ Weight(g) \in Nat
      BY <2>1, WeightFacts
    <3>2. ~(Weight(f) < Weight(g)) /\ ~(Weight(g) < Weight(f))
      BY <1>9, <2>1, WeightFacts
    <3> QED BY <3>1, <3>2
  <2>3. f.tag = g.tag /\ f.period = g.period /\ f.form \in OriginalForms /\ g.form \in OriginalForms
    BY <1>2
  <2>4. f.filed = g.filed /\ f.span = g.span
    BY <2>1, <2>2, <2>3, WeightFacts
  <2>5. f.form = g.form
    <3>1. (f.form = "10-K") = (f.period[2] = "FY")
      BY <2>1, <2>3 DEF FactOk
    <3>2. (g.form = "10-K") = (g.period[2] = "FY")
      BY <2>1, <2>3 DEF FactOk
    <3> QED BY <2>3, <3>1, <3>2 DEF OriginalForms
  <2> QED BY <2>1, <2>3, <2>4, <2>5 DEF FactOk
<1>10. Chosen(facts, field, period) = CHOOSE f \in entries : \A other \in entries : ~Beats(other, f)
  BY DEF Chosen, entries
<1>11. /\ Chosen(facts, field, period) \in entries
       /\ \A other \in entries : ~Beats(other, Chosen(facts, field, period))
  BY <1>8, <1>10
<1>12. \A f \in entries : (\A other \in entries : ~Beats(other, f)) => f = Chosen(facts, field, period)
  BY <1>9, <1>11
<1>13. entries \subseteq facts /\ \A f \in entries : f.period = period /\ f.form \in OriginalForms /\ f.tag = tag
  BY <1>2
<1> QED BY <1>11, <1>12, <1>13 DEF entries, tag

LEMMA CarriersAreNumbers ==
  ASSUME NEW facts, NEW field \in Fields, NEW period
  PROVE  Carriers(facts, field, period) \in SUBSET Nat
BY TagsAssumption, LenProperties DEF TagsAssumption, Carriers

\* A row of the join uses the quarter's own figure where its tag gave one as early.
LEMMA FiguresAreCurrent == RecordsInv => CurrentFigures
<1> SUFFICES ASSUME RecordsInv, kind = "edgar",
                    NEW row \in EdgarRows(feed, 1, today), NEW field \in Fields,
                    NEW e \in feed, e.form \in OriginalForms, e.span = "quarter",
                    e.tag = row.figures[field].tag, e.period = row.figures[field].period,
                    e.filed <= row.figures[field].filed
             PROVE  row.figures[field].span = "quarter"
  BY DEF CurrentFigures
<1>1. PICK period : /\ Complete(feed, period) /\ row = EdgarRow(feed, period)
  BY DEF EdgarRows
<1> DEFINE used == Chosen(feed, field, period)
<1>2. row.figures[field] = used
  BY <1>1 DEF EdgarRow
<1>3. /\ used \in Competing(feed, field, period)
      /\ \A other \in Competing(feed, field, period) : ~Beats(other, used)
      /\ Competing(feed, field, period) \subseteq feed
      /\ used \in feed /\ used.period = period
      /\ used.tag = Tags[field][Min(Carriers(feed, field, period))]
  <2>1. Carriers(feed, field, period) # {} /\ Carriers(feed, field, period) \subseteq Nat
    BY <1>1, CarriersAreNumbers DEF Complete
  <2>2. \A f \in feed : FactOk(f)
    BY DEF RecordsInv, FactsOk
  <2>3. /\ used \in Competing(feed, field, period)
        /\ \A other \in Competing(feed, field, period) : ~Beats(other, used)
    BY <2>1, <2>2, ChosenFacts
  <2>4. /\ Competing(feed, field, period) \subseteq feed
        /\ \A f \in Competing(feed, field, period) :
              f.period = period /\ f.tag = Tags[field][Min(Carriers(feed, field, period))]
    BY DEF Competing, Entries
  <2> HIDE DEF used
  <2> QED BY <2>3, <2>4
<1> HIDE DEF used
<1>4. e \in Competing(feed, field, period)
  BY <1>2, <1>3 DEF Competing, Entries
<1>5. ~Beats(e, used) /\ FactOk(e) /\ FactOk(used)
  BY <1>3, <1>4 DEF RecordsInv, FactsOk
<1>6. e.filed = used.filed
  <2>1. e.filed \in Nat /\ used.filed \in Nat /\ e.filed <= used.filed
    BY <1>2, <1>5, FactFacts
  <2> QED BY <1>5, <2>1 DEF Beats
<1>7. ~(Days(e) < Days(used)) /\ (Days(e) = Days(used) => ~(PeriodEnd(e) > PeriodEnd(used)))
  BY <1>5, <1>6 DEF Beats
<1>8. /\ Days(e) \in {0, 1, 2} /\ PeriodEnd(e) = 2
      /\ Days(used) \in {0, 1, 2} /\ PeriodEnd(used) \in {1, 2}
      /\ e.tag = used.tag
  BY <1>2, DaysFacts
<1>9. used.span # "comparative"
  <2> SUFFICES ASSUME used.span = "comparative" PROVE FALSE
    OBVIOUS
  <2>1. PeriodEnd(used) = 1 /\ Days(e) = Days(used)
    BY <1>8, DaysFacts
  <2> QED BY <1>7, <1>8, <2>1
<1>10. used.span # "ytd"
  <2> SUFFICES ASSUME used.span = "ytd" PROVE FALSE
    OBVIOUS
  <2>1. used.tag \notin Instants
    BY <1>5, FactFacts
  <2>2. Days(used) = 2 /\ Days(e) = 1
    BY <1>8, <2>1, DaysFacts
  <2> QED BY <1>7, <2>2
<1> QED BY <1>2, <1>5, <1>9, <1>10, FactFacts

\* What a later filing can change about a period's figure: only the tag it is taken from.
LEMMA ChoiceIsSettled ==
  ASSUME RecordsInv, kind = "edgar", NEW day \in Int, NEW field \in Fields, NEW period
  PROVE  LET now  == Carriers(feed, field, period)
             then == Carriers(FactsBy(day), field, period)
         IN  /\ then \subseteq now
             /\ now # {} /\ Chosen(feed, field, period).filed <= day
                => then # {} /\ Chosen(FactsBy(day), field, period) = Chosen(feed, field, period)
             /\ then # {} /\ ~(Min(now) < Min(then))
                => Chosen(FactsBy(day), field, period) = Chosen(feed, field, period)
<1> DEFINE now     == Carriers(feed, field, period)
           then    == Carriers(FactsBy(day), field, period)
           rivals  == Competing(feed, field, period)
           earlier == Competing(FactsBy(day), field, period)
<1>1. /\ \A e \in feed : FactOk(e) /\ e.filed \in Nat
      /\ \A e : e \in FactsBy(day) <=> e \in feed /\ e.filed <= day
  BY FactFacts DEF RecordsInv, FactsOk, FactsBy
<1>2. (\A e \in feed : FactOk(e)) /\ (\A e \in FactsBy(day) : FactOk(e))
  BY <1>1
<1>3. now \in SUBSET Nat /\ then \in SUBSET Nat
  BY CarriersAreNumbers
<1>4. then \subseteq now
  BY <1>1 DEF Carriers, Entries
<1> HIDE DEF now, then, rivals, earlier
<1>5. now # {} => /\ Min(now) \in now /\ \A i \in now : Min(now) <= i
                  /\ rivals = Entries(feed, Tags[field][Min(now)], period)
  BY <1>3, MinFacts DEF rivals, Competing, now
<1>6. then # {} => /\ Min(then) \in then /\ \A i \in then : Min(then) <= i
                   /\ earlier = Entries(FactsBy(day), Tags[field][Min(then)], period)
  BY <1>3, MinFacts DEF earlier, Competing, then
<1>7. now # {} => /\ Chosen(feed, field, period) \in rivals
                  /\ \A other \in rivals : ~Beats(other, Chosen(feed, field, period))
                  /\ \A f \in rivals : (\A other \in rivals : ~Beats(other, f))
                                       => f = Chosen(feed, field, period)
  <2> SUFFICES ASSUME Carriers(feed, field, period) # {}
               PROVE  /\ Chosen(feed, field, period) \in rivals
                      /\ \A other \in rivals : ~Beats(other, Chosen(feed, field, period))
                      /\ \A f \in rivals : (\A other \in rivals : ~Beats(other, f))
                                           => f = Chosen(feed, field, period)
    BY DEF now
  <2>1. Carriers(feed, field, period) \subseteq Nat
    BY CarriersAreNumbers
  <2> QED BY <1>2, <2>1, ChosenFacts DEF rivals
<1>8. then # {} => /\ Chosen(FactsBy(day), field, period) \in earlier
                   /\ \A other \in earlier : ~Beats(other, Chosen(FactsBy(day), field, period))
                   /\ \A f \in earlier : (\A other \in earlier : ~Beats(other, f))
                                         => f = Chosen(FactsBy(day), field, period)
  BY <1>2, <1>3, ChosenFacts DEF earlier, then
<1>9. \A tag : Entries(FactsBy(day), tag, period) = {e \in Entries(feed, tag, period) : e.filed <= day}
  BY <1>1 DEF Entries
<1>10. ASSUME now # {}, Chosen(feed, field, period).filed <= day
       PROVE  then # {} /\ Chosen(FactsBy(day), field, period) = Chosen(feed, field, period)
  <2> DEFINE used == Chosen(feed, field, period)
  <2>1. used \in Entries(feed, Tags[field][Min(now)], period)
    BY <1>5, <1>7, <1>10
  <2>2. used \in Entries(FactsBy(day), Tags[field][Min(now)], period)
    BY <1>9, <1>10, <2>1
  <2>3. Min(now) \in then
    <3>1. Min(now) \in DOMAIN Tags[field]
      BY <1>5, <1>10 DEF now, Carriers
    <3> QED BY <2>2, <3>1 DEF then, Carriers
  <2>4. Min(then) = Min(now)
    <3>1. Min(now) <= Min(then) /\ Min(then) <= Min(now) /\ Min(then) \in Nat /\ Min(now) \in Nat
      BY <1>3, <1>4, <1>5, <1>6, <1>10, <2>3
    <3> QED BY <3>1
  <2>5. earlier \subseteq rivals /\ used \in earlier
    BY <1>5, <1>6, <1>9, <1>10, <2>2, <2>3, <2>4
  <2>6. \A other \in earlier : ~Beats(other, used)
    BY <1>7, <1>10, <2>5
  <2> HIDE DEF used
  <2>7. used = Chosen(FactsBy(day), field, period)
    BY <1>8, <2>3, <2>5, <2>6
  <2> QED BY <2>3, <2>7 DEF used
<1>11. ASSUME then # {}, ~(Min(now) < Min(then))
       PROVE  Chosen(FactsBy(day), field, period) = Chosen(feed, field, period)
  <2> DEFINE used == Chosen(FactsBy(day), field, period)
  <2>1. Min(then) = Min(now) /\ now # {}
    <3>1. Min(then) \in Nat /\ Min(now) \in Nat /\ Min(now) <= Min(then) /\ now # {}
      BY <1>3, <1>4, <1>5, <1>6, <1>11
    <3> QED BY <1>11, <3>1
  <2>2. earlier = {e \in rivals : e.filed <= day}
    BY <1>5, <1>6, <1>9, <1>11, <2>1
  <2>3. used \in rivals /\ used.filed <= day /\ \A other \in earlier : ~Beats(other, used)
    BY <1>8, <1>11, <2>2
  <2>4. rivals \subseteq feed
    BY <1>5, <2>1 DEF Entries
  <2> HIDE DEF used
  <2>5. ASSUME NEW other \in rivals PROVE ~Beats(other, used)
    <3>1. CASE other.filed <= day
      BY <2>2, <2>3, <3>1
    <3>2. CASE ~(other.filed <= day)
      <4>1. other.filed \in Nat /\ used.filed \in Nat /\ used.filed < other.filed
        BY <1>1, <2>3, <2>4, <3>2
      <4> QED BY <4>1 DEF Beats
    <3> QED BY <3>1, <3>2
  <2>6. used = Chosen(feed, field, period)
    BY <1>7, <2>1, <2>3, <2>5
  <2> QED BY <2>6 DEF used
<1> QED BY <1>4, <1>10, <1>11 DEF now, then

\* A period is reported when the last of its figures is.
LEMMA ReportFacts ==
  ASSUME NEW facts, NEW period, \A field \in Fields : Chosen(facts, field, period).filed \in Nat
  PROVE  \A field \in Fields : Chosen(facts, field, period).filed <= ReportDate(facts, period)
<1> DEFINE days == {Chosen(facts, field, period).filed : field \in Fields}
           filed == [field \in Fields |-> Chosen(facts, field, period).filed]
<1>1. IsFiniteSet(days)
  <2>1. filed \in Surjection(Fields, days)
    BY DEF Surjection
  <2> QED BY <2>1, FS_Surjection, TagsAssumption DEF TagsAssumption
<1>2. \A n \in days : n \in Int
  OBVIOUS
<1>3. days # {}
  BY TagsAssumption DEF TagsAssumption
<1>4. \A field \in Fields : filed[field] \in days
  OBVIOUS
<1>5. ReportDate(facts, period) = Max(days)
  BY DEF ReportDate
<1> HIDE DEF days
<1>6. \A n \in days : n <= Max(days)
  BY <1>1, <1>2, <1>3, FiniteBound, MaxFacts
<1> QED BY <1>4, <1>5, <1>6

LEMMA FilingsAreSettled == RecordsInv => EdgarPointInTime
<1> SUFFICES ASSUME RecordsInv, kind = "edgar", NEW day \in Past, NEW start \in Asked(day)
             PROVE  LET now  == EdgarRows(feed, start, day)
                        then == EdgarRows(FactsBy(day), start, day)
                        New(rows) == {r \in rows :
                            \A p \in Periods : Shadowed(p, day) =>
                                r.fiscal_year # p[1] \/ r.fiscal_quarter # FiscalQuarter(p[2])}
                    IN  New(now) = New(then)
  BY DEF EdgarPointInTime
<1> DEFINE then == FactsBy(day)
           Fresh(r) == \A p \in Periods : Shadowed(p, day) =>
                            r.fiscal_year # p[1] \/ r.fiscal_quarter # FiscalQuarter(p[2])
<1>1. day \in Int
  BY DEF Past
<1>2. /\ \A e \in feed : FactOk(e) /\ e.filed \in Nat /\ e.period \in Periods
      /\ \A e : e \in then <=> e \in feed /\ e.filed <= day
  BY FactFacts DEF RecordsInv, FactsOk, FactsBy, FactOk
<1> HIDE DEF then
<1>3. ASSUME NEW period, Complete(feed, period)
      PROVE  \A field \in Fields : Chosen(feed, field, period) \in feed /\ Chosen(feed, field, period).period = period
  <2> SUFFICES ASSUME NEW field \in Fields
               PROVE  Chosen(feed, field, period) \in feed /\ Chosen(feed, field, period).period = period
    OBVIOUS
  <2>1. Carriers(feed, field, period) # {} /\ Carriers(feed, field, period) \subseteq Nat
    BY <1>3, CarriersAreNumbers DEF Complete
  <2>2. Chosen(feed, field, period) \in Competing(feed, field, period)
    BY <1>2, <2>1, ChosenFacts
  <2> QED BY <2>2 DEF Competing, Entries
<1>4. ASSUME NEW period, Complete(feed, period), Complete(then, period),
             \A field \in Fields : Chosen(then, field, period) = Chosen(feed, field, period)
      PROVE  /\ ReportDate(then, period) = ReportDate(feed, period)
             /\ EdgarRow(then, period) = EdgarRow(feed, period)
  <2>1. ReportDate(then, period) = ReportDate(feed, period)
    BY <1>4 DEF ReportDate
  <2> QED BY <1>4, <2>1 DEF EdgarRow
<1>5. ASSUME NEW r \in EdgarRows(feed, start, day) PROVE r \in EdgarRows(then, start, day)
  <2>1. PICK period : /\ Complete(feed, period) /\ ReportDate(feed, period) \in start..day
                      /\ r = EdgarRow(feed, period)
    BY DEF EdgarRows
  <2>2. \A field \in Fields : Chosen(feed, field, period).filed <= day
    <3>1. \A field \in Fields : Chosen(feed, field, period).filed \in Nat
      BY <1>2, <1>3, <2>1
    <3>2. \A field \in Fields : Chosen(feed, field, period).filed <= ReportDate(feed, period)
      BY <3>1, ReportFacts
    <3> QED BY <1>1, <2>1, <3>1, <3>2
  <2>3. \A field \in Fields : /\ Carriers(then, field, period) # {}
                              /\ Chosen(then, field, period) = Chosen(feed, field, period)
    BY <1>1, <2>1, <2>2, ChoiceIsSettled DEF Complete, then
  <2>4. Complete(then, period)
    BY <2>3 DEF Complete
  <2>5. \E e \in then : e.period = period
    <3>1. PICK field \in Fields : TRUE
      BY TagsAssumption DEF TagsAssumption
    <3>2. Chosen(feed, field, period) \in then /\ Chosen(feed, field, period).period = period
      BY <1>2, <1>3, <2>1, <2>2
    <3> QED BY <3>2
  <2>6. ReportDate(then, period) = ReportDate(feed, period) /\ r = EdgarRow(then, period)
    BY <1>4, <2>1, <2>3, <2>4
  <2> QED BY <2>1, <2>4, <2>5, <2>6 DEF EdgarRows
<1>6. ASSUME NEW r \in EdgarRows(then, start, day), Fresh(r) PROVE r \in EdgarRows(feed, start, day)
  <2>1. PICK period : /\ Complete(then, period) /\ ReportDate(then, period) \in start..day
                      /\ r = EdgarRow(then, period) /\ \E e \in then : e.period = period
    BY DEF EdgarRows
  <2>2. period \in Periods /\ \E e \in feed : e.period = period
    BY <1>2, <2>1
  <2>3. ~Shadowed(period, day)
    BY <1>6, <2>1, <2>2 DEF EdgarRow
  <2>4. \A field \in Fields :
          ~(Min(Carriers(feed, field, period)) < Min(Carriers(then, field, period)))
    BY <2>1, <2>3 DEF Shadowed, Complete, then
  <2>5. \A field \in Fields : /\ Carriers(feed, field, period) # {}
                              /\ Chosen(then, field, period) = Chosen(feed, field, period)
    BY <1>1, <2>1, <2>4, ChoiceIsSettled DEF Complete, then
  <2>6. Complete(feed, period)
    BY <2>5 DEF Complete
  <2>7. ReportDate(then, period) = ReportDate(feed, period) /\ r = EdgarRow(feed, period)
    BY <1>4, <2>1, <2>5, <2>6
  <2> QED BY <2>1, <2>2, <2>6, <2>7 DEF EdgarRows
<1> HIDE DEF Fresh
<1>7. {r \in EdgarRows(feed, start, day) : Fresh(r)} = {r \in EdgarRows(then, start, day) : Fresh(r)}
  BY <1>5, <1>6
<1> QED BY <1>7 DEF then, Fresh


--------------------------------------------------------------------------------
(* CRSP: the first of the best                                                  *)

\* Of finitely many rows with scores, one scores best and, among those, comes first.
LEMMA BestFacts ==
  ASSUME NEW I \in SUBSET Nat, I # {}, NEW score, \A i \in I : score[i] \in Int,
         NEW bound \in Int, \A i \in I : score[i] <= bound
  PROVE  \E b \in I : \A j \in I : score[j] < score[b] \/ (score[j] = score[b] /\ b <= j)
<1> DEFINE scores == {score[i] : i \in I}
           best   == {i \in I : score[i] = Max(scores)}
<1>1. scores \in SUBSET Int /\ scores # {} /\ \A n \in scores : n <= bound
  OBVIOUS
<1>2. Max(scores) \in scores /\ \A n \in scores : n <= Max(scores)
  <2> HIDE DEF scores
  <2> QED BY <1>1, MaxFacts
<1>3. best \in SUBSET Nat /\ best # {}
  BY <1>2
<1>4. Min(best) \in best /\ \A i \in best : Min(best) <= i
  <2> HIDE DEF best
  <2> QED BY <1>3, MinFacts
<1>5. \A j \in I : score[j] < score[Min(best)] \/ (score[j] = score[Min(best)] /\ Min(best) <= j)
  <2> SUFFICES ASSUME NEW j \in I
               PROVE  score[j] < score[Min(best)] \/ (score[j] = score[Min(best)] /\ Min(best) <= j)
    OBVIOUS
  <2>1. score[j] \in Int /\ score[Min(best)] = Max(scores) /\ score[Min(best)] \in Int
    BY <1>4
  <2>2. score[j] <= Max(scores) /\ (score[j] = Max(scores) => Min(best) <= j)
    BY <1>2, <1>4
  <2> HIDE DEF scores, best
  <2> QED BY <2>1, <2>2
<1> QED BY <1>4, <1>5

SomeNames(names) ==
    /\ DOMAIN names \subseteq Nat
    /\ \A i \in DOMAIN names : names[i] \in NameRows /\ names[i].from <= names[i].to

Meeting(names, ticker, start, end) ==
    {i \in DOMAIN names : names[i].ticker = ticker /\ Overlap(names[i], start, end) >= 0}

\* The name that meets the window longest, the first of them, has the security.
LEMMA MeetingFacts ==
  ASSUME NEW names, SomeNames(names), NEW ticker, NEW start \in Int, NEW end \in Int
  PROVE  LET meeting == Meeting(names, ticker, start, end)
             Best(i) == /\ i \in meeting
                        /\ \A j \in meeting :
                             \/ Overlap(names[j], start, end) < Overlap(names[i], start, end)
                             \/ Overlap(names[j], start, end) = Overlap(names[i], start, end) /\ i <= j
         IN  /\ meeting = {} => PermnoInWindow(names, ticker, start, end) = NoPermno
             /\ meeting # {} => \E i : Best(i) /\ PermnoInWindow(names, ticker, start, end) = names[i].permno
             /\ \A i : Best(i) => PermnoInWindow(names, ticker, start, end) = names[i].permno
<1> DEFINE meeting == Meeting(names, ticker, start, end)
           score   == [i \in DOMAIN names |-> Overlap(names[i], start, end)]
           Best(i) == /\ i \in meeting
                      /\ \A j \in meeting :
                             \/ Overlap(names[j], start, end) < Overlap(names[i], start, end)
                             \/ Overlap(names[j], start, end) = Overlap(names[i], start, end) /\ i <= j
           chosen  == CHOOSE i \in meeting : \A j \in meeting :
                             \/ Overlap(names[j], start, end) < Overlap(names[i], start, end)
                             \/ Overlap(names[j], start, end) = Overlap(names[i], start, end) /\ i <= j
<1>1. /\ meeting \subseteq DOMAIN names /\ meeting \in SUBSET Nat
      /\ \A i \in meeting : /\ score[i] = Overlap(names[i], start, end)
                            /\ score[i] \in Int /\ score[i] <= end - start
  <2>1. meeting \subseteq DOMAIN names /\ meeting \in SUBSET Nat
    BY DEF Meeting, SomeNames
  <2>2. ASSUME NEW i \in DOMAIN names
        PROVE  /\ Overlap(names[i], start, end) \in Int
               /\ Overlap(names[i], start, end) <= end - start
    <3>1. names[i].from \in Int /\ names[i].to \in Int
      BY DEF SomeNames, NameRows
    <3> QED BY <3>1 DEF Overlap, Least
  <2> HIDE DEF meeting
  <2> QED BY <2>1, <2>2
<1>2. PermnoInWindow(names, ticker, start, end) = IF meeting = {} THEN NoPermno ELSE names[chosen].permno
  BY DEF PermnoInWindow, FirstBest, Meeting
<1> HIDE DEF meeting, score
<1>3. meeting # {} => \E i : Best(i)
  <2> SUFFICES ASSUME meeting # {} PROVE \E i : Best(i)
    OBVIOUS
  <2>1. end - start \in Int
    OBVIOUS
  <2>2. \E b \in meeting : \A j \in meeting :
            score[j] < score[b] \/ (score[j] = score[b] /\ b <= j)
    BY <1>1, <2>1, BestFacts
  <2> QED BY <1>1, <2>2
<1>4. meeting # {} => Best(chosen)
  BY <1>3
<1>5. \A i, k : Best(i) /\ Best(k) => i = k
  BY <1>1
<1> HIDE DEF chosen
<1>6. meeting # {} => \E i : Best(i) /\ PermnoInWindow(names, ticker, start, end) = names[i].permno
  BY <1>2, <1>4
<1>7. \A i : Best(i) => PermnoInWindow(names, ticker, start, end) = names[i].permno
  <2> SUFFICES ASSUME NEW i, Best(i) PROVE PermnoInWindow(names, ticker, start, end) = names[i].permno
    OBVIOUS
  <2>1. meeting # {}
    OBVIOUS
  <2>2. i = chosen
    <3> HIDE DEF Best
    <3> QED BY <1>4, <1>5, <2>1
  <2> QED BY <1>2, <2>1, <2>2
<1> QED BY <1>2, <1>6, <1>7 DEF meeting

InForce(names, permno, day) ==
    {i \in DOMAIN names : /\ names[i].permno = permno
                          /\ names[i].from <= day /\ day <= names[i].to}

\* When a name of the security covers the day, the first that does has the exchange.
LEMMA InForceFacts ==
  ASSUME NEW names, SomeNames(names), NEW permno, NEW day \in Int,
         InForce(names, permno, day) # {}
  PROVE  ExchangeFor(names, permno, day) = names[Min(InForce(names, permno, day))].exchcd
<1> DEFINE rows == {i \in DOMAIN names : names[i].permno = permno}
           Near(i) == IF day \in names[i].from .. names[i].to THEN 0
                      ELSE - Least(Distance(day, names[i].from), Distance(day, names[i].to))
           Best(i) == \A j \in rows : Near(j) < Near(i) \/ (Near(j) = Near(i) /\ i <= j)
           chosen  == CHOOSE i \in rows : Best(i)
           covering == InForce(names, permno, day)
<1>1. covering \in SUBSET Nat /\ covering # {} /\ covering \subseteq rows /\ rows \subseteq Nat
  BY DEF InForce, SomeNames
<1>2. ExchangeFor(names, permno, day) = names[chosen].exchcd
  <2>1. rows # {}
    BY <1>1
  <2> QED BY <2>1 DEF ExchangeFor, FirstBest
<1>3. \A i \in rows : /\ i \in covering => Near(i) = 0
                      /\ i \notin covering => Near(i) \in Int /\ Near(i) < 0
  <2> SUFFICES ASSUME NEW i \in rows
               PROVE  /\ i \in covering => Near(i) = 0
                      /\ i \notin covering => Near(i) \in Int /\ Near(i) < 0
    OBVIOUS
  <2>1. names[i].from \in Int /\ names[i].to \in Int /\ names[i].from <= names[i].to
    BY DEF SomeNames, NameRows
  <2>2. i \in covering <=> names[i].from <= day /\ day <= names[i].to
    BY DEF InForce
  <2>3. day \in names[i].from..names[i].to <=> names[i].from <= day /\ day <= names[i].to
    BY <2>1
  <2>4. i \in covering => Near(i) = 0
    BY <2>2, <2>3
  <2>5. ASSUME i \notin covering PROVE Near(i) \in Int /\ Near(i) < 0
    <3>1. Near(i) = - Least(Distance(day, names[i].from), Distance(day, names[i].to))
      BY <2>2, <2>3, <2>5
    <3>2. day # names[i].from \/ ~(day <= names[i].to)
      BY <2>1, <2>2, <2>5
    <3> HIDE DEF Near, covering, rows
    <3> QED BY <2>1, <2>2, <2>5, <3>1 DEF Least, Distance
  <2> QED BY <2>4, <2>5
<1> HIDE DEF Near, rows, covering
<1>4. Min(covering) \in covering /\ \A i \in covering : Min(covering) <= i
  BY <1>1, MinFacts
<1>5. Min(covering) \in rows /\ Best(Min(covering))
  BY <1>1, <1>3, <1>4
<1>6. chosen \in rows /\ Best(chosen)
  BY <1>5
<1>7. chosen = Min(covering)
  <2> HIDE DEF chosen
  <2>1. chosen \in Nat /\ Min(covering) \in Nat
    BY <1>1, <1>5, <1>6
  <2>2. ~(Near(chosen) < Near(chosen)) /\ chosen \in covering
    <3>1. Near(Min(covering)) = 0 /\ Near(Min(covering)) <= Near(chosen)
      BY <1>3, <1>4, <1>5, <1>6
    <3> QED BY <1>3, <1>6, <3>1
  <2>3. Near(chosen) = 0 /\ Near(Min(covering)) = 0
    BY <1>3, <1>4, <1>5, <1>6, <2>2
  <2>4. Min(covering) <= chosen /\ chosen <= Min(covering)
    BY <1>5, <1>6, <2>3
  <2> QED BY <2>1, <2>4
<1> QED BY <1>2, <1>7 DEF covering


--------------------------------------------------------------------------------
(* CRSP: names that end, begin or are given up after a window change nothing of it *)

LEMMA SecurityTypes ==
  ASSUME RecordsInv, kind = "crsp"
  PROVE  /\ today \in Nat /\ CoverageEnd \in Nat /\ today < CoverageEnd
         /\ feed = [names |-> feed.names, daily |-> feed.daily, delists |-> feed.delists]
         /\ SomeNames(feed.names) /\ DailyOk(feed.daily, today)
         /\ DOMAIN feed.delists \subseteq Nat
         /\ \A i \in DOMAIN feed.delists : /\ feed.delists[i] \in EventRows
                                           /\ InForce(feed.names, feed.delists[i].permno,
                                                       feed.delists[i].date) # {}
<1>1. /\ SecuritiesOk /\ today \in Nat /\ CoverageEnd \in Nat /\ today < CoverageEnd
  BY CoverageAssumption DEF RecordsInv, CoverageAssumption
<1>2. SomeNames(feed.names) /\ DOMAIN feed.names = 1..Len(feed.names)
  BY <1>1, LenProperties, ElementOfSeq DEF SecuritiesOk, NamesOk, SomeNames
<1>3. /\ DOMAIN feed.delists \subseteq Nat
      /\ \A i \in DOMAIN feed.delists : /\ feed.delists[i] \in EventRows
                                        /\ Named(feed.names, feed.delists[i])
  BY <1>1, LenProperties, ElementOfSeq DEF SecuritiesOk, EventsOk
<1>4. \A i \in DOMAIN feed.delists :
          InForce(feed.names, feed.delists[i].permno, feed.delists[i].date) # {}
  BY <1>2, <1>3 DEF Named, InForce
<1> QED BY <1>1, <1>2, <1>3, <1>4 DEF SecuritiesOk

LEMMA NamesAsOf ==
  ASSUME RecordsInv, kind = "crsp", NEW day \in Int, day <= today
  PROVE  /\ SomeNames(NamesBy(day))
         /\ DOMAIN NamesBy(day) = {i \in DOMAIN feed.names : feed.names[i].from <= day}
         /\ \A i \in DOMAIN NamesBy(day) :
              /\ NamesBy(day)[i].permno = feed.names[i].permno
              /\ NamesBy(day)[i].ticker = feed.names[i].ticker
              /\ NamesBy(day)[i].exchcd = feed.names[i].exchcd
              /\ NamesBy(day)[i].from = feed.names[i].from
              /\ NamesBy(day)[i].to = IF feed.names[i].to > day THEN CoverageEnd ELSE feed.names[i].to
<1> DEFINE then == NamesBy(day)
           names == feed.names
<1>1. /\ today \in Nat /\ CoverageEnd \in Nat /\ today < CoverageEnd
      /\ DOMAIN names \subseteq Nat
      /\ \A i \in DOMAIN names : names[i] \in NameRows /\ names[i].from <= names[i].to
  BY SecurityTypes DEF SomeNames
<1>2. /\ DOMAIN then = {i \in DOMAIN names : names[i].from <= day}
      /\ \A i \in DOMAIN then : then[i] = IF names[i].to > day
                                          THEN [names[i] EXCEPT !.to = CoverageEnd] ELSE names[i]
  BY DEF NamesBy
<1> HIDE DEF then, names
<1>3. ASSUME NEW i \in DOMAIN then
      PROVE  /\ then[i] \in NameRows /\ then[i].from <= then[i].to
             /\ then[i].permno = names[i].permno
             /\ then[i].ticker = names[i].ticker
             /\ then[i].exchcd = names[i].exchcd
             /\ then[i].from = names[i].from
             /\ then[i].to = IF names[i].to > day THEN CoverageEnd ELSE names[i].to
  <2>1. names[i] \in NameRows /\ names[i].from <= day /\ names[i].from <= names[i].to
    BY <1>1, <1>2
  <2>2. names[i].from \in Nat /\ names[i].to \in Int
    BY <2>1 DEF NameRows
  <2>3. CASE names[i].to > day
    <3>1. then[i] = [names[i] EXCEPT !.to = CoverageEnd]
      BY <1>2, <2>3
    <3> QED BY <1>1, <2>1, <2>2, <2>3, <3>1 DEF NameRows
  <2>4. CASE ~(names[i].to > day)
    <3>1. then[i] = names[i]
      BY <1>2, <2>4
    <3> QED BY <2>1, <2>4, <3>1
  <2> QED BY <2>3, <2>4
<1>4. SomeNames(then)
  BY <1>1, <1>2, <1>3 DEF SomeNames
<1> QED BY <1>2, <1>3, <1>4 DEF then, names

LEMMA SameSecurity ==
  ASSUME RecordsInv, kind = "crsp", NEW day \in Int, day <= today,
         NEW start \in Int, NEW end \in Int, end <= day, NEW ticker
  PROVE  PermnoInWindow(NamesBy(day), ticker, start, end)
         = PermnoInWindow(feed.names, ticker, start, end)
<1> DEFINE then == NamesBy(day)
           names == feed.names
<1>1. /\ today \in Nat /\ CoverageEnd \in Nat /\ today < CoverageEnd
      /\ SomeNames(names) /\ SomeNames(then)
      /\ DOMAIN then = {i \in DOMAIN names : names[i].from <= day}
  BY SecurityTypes, NamesAsOf
<1>2. \A i \in DOMAIN then :
        /\ then[i].permno = names[i].permno
        /\ then[i].ticker = names[i].ticker
        /\ then[i].from = names[i].from
        /\ then[i].to = IF names[i].to > day THEN CoverageEnd ELSE names[i].to
  BY NamesAsOf
<1>3. \A i \in DOMAIN names : names[i].from \in Int /\ names[i].to \in Int
  BY <1>1 DEF SomeNames, NameRows
<1> HIDE DEF then, names
<1>4. ASSUME NEW i \in DOMAIN then PROVE Overlap(then[i], start, end) = Overlap(names[i], start, end)
  <2>1. Least(end, then[i].to) = Least(end, names[i].to)
    BY <1>1, <1>2, <1>3 DEF Least
  <2> QED BY <1>2, <2>1 DEF Overlap
<1>5. \A i \in DOMAIN names : i \notin DOMAIN then => ~(Overlap(names[i], start, end) >= 0)
  BY <1>1, <1>3 DEF Overlap, Least
<1>6. Meeting(names, ticker, start, end) = Meeting(then, ticker, start, end)
      /\ Meeting(then, ticker, start, end) \subseteq DOMAIN then
  BY <1>1, <1>2, <1>4, <1>5 DEF Meeting
<1>7. CASE Meeting(then, ticker, start, end) = {}
  BY <1>1, <1>6, <1>7, MeetingFacts DEF then, names
<1>8. CASE Meeting(then, ticker, start, end) # {}
  <2>1. PICK i : /\ i \in Meeting(then, ticker, start, end)
                 /\ \A j \in Meeting(then, ticker, start, end) :
                       \/ Overlap(then[j], start, end) < Overlap(then[i], start, end)
                       \/ Overlap(then[j], start, end) = Overlap(then[i], start, end) /\ i <= j
                 /\ PermnoInWindow(then, ticker, start, end) = then[i].permno
    BY <1>1, <1>8, MeetingFacts
  <2>2. /\ i \in Meeting(names, ticker, start, end)
        /\ \A j \in Meeting(names, ticker, start, end) :
               \/ Overlap(names[j], start, end) < Overlap(names[i], start, end)
               \/ Overlap(names[j], start, end) = Overlap(names[i], start, end) /\ i <= j
    BY <1>4, <1>6, <2>1
  <2>3. PermnoInWindow(names, ticker, start, end) = names[i].permno
    BY <1>1, <2>2, MeetingFacts
  <2> QED BY <1>2, <1>6, <2>1, <2>3 DEF then, names
<1> QED BY <1>7, <1>8

LEMMA SameExchange ==
  ASSUME RecordsInv, kind = "crsp", NEW day \in Int, day <= today,
         NEW date \in Int, date <= day, NEW permno, InForce(feed.names, permno, date) # {}
  PROVE  ExchangeFor(NamesBy(day), permno, date) = ExchangeFor(feed.names, permno, date)
<1> DEFINE then == NamesBy(day)
           names == feed.names
<1>1. /\ today \in Nat /\ CoverageEnd \in Nat /\ today < CoverageEnd
      /\ SomeNames(names) /\ SomeNames(then)
      /\ DOMAIN then = {i \in DOMAIN names : names[i].from <= day}
  BY SecurityTypes, NamesAsOf
<1>2. \A i \in DOMAIN then :
        /\ then[i].permno = names[i].permno
        /\ then[i].exchcd = names[i].exchcd
        /\ then[i].from = names[i].from
        /\ then[i].to = IF names[i].to > day THEN CoverageEnd ELSE names[i].to
  BY NamesAsOf
<1>3. \A i \in DOMAIN names : names[i].from \in Int /\ names[i].to \in Int
  BY <1>1 DEF SomeNames, NameRows
<1>4. InForce(names, permno, date) # {}
  OBVIOUS
<1> HIDE DEF then, names
<1>5. InForce(then, permno, date) = InForce(names, permno, date)
      /\ InForce(then, permno, date) \subseteq DOMAIN then
  BY <1>1, <1>2, <1>3 DEF InForce
<1>6. InForce(names, permno, date) \in SUBSET Nat
  BY <1>1 DEF InForce, SomeNames
<1>7. Min(InForce(names, permno, date)) \in DOMAIN then
  BY <1>4, <1>5, <1>6, MinFacts
<1>8. ExchangeFor(names, permno, date) = names[Min(InForce(names, permno, date))].exchcd
  BY <1>1, <1>4, InForceFacts
<1>9. ExchangeFor(then, permno, date) = then[Min(InForce(names, permno, date))].exchcd
  BY <1>1, <1>4, <1>5, InForceFacts
<1> QED BY <1>2, <1>7, <1>8, <1>9 DEF then, names

\* Of finitely many rows of different days one is the last.
Dated(rows) ==
    /\ IsFiniteSet(rows) /\ \A r \in rows : r.date \in Int
    /\ \A r, q \in rows : r.date = q.date => r = q

LEMMA LastFacts ==
  ASSUME NEW rows, Dated(rows), rows # {}
  PROVE  /\ LastOf(rows) \in rows /\ \A r \in rows : r.date <= LastOf(rows).date
         /\ \A d \in rows : (\A r \in rows : r.date <= d.date) => d = LastOf(rows)
<1> DEFINE days == {r.date : r \in rows}
           dateOf == [r \in rows |-> r.date]
<1>1. IsFiniteSet(days)
  <2>1. dateOf \in Surjection(rows, days)
    BY DEF Surjection
  <2> QED BY <2>1, FS_Surjection DEF Dated
<1>2. days \in SUBSET Int /\ days # {} /\ \A n \in days : n \in Int
  BY DEF Dated
<1>3. \E m \in days : \A n \in days : n <= m
  <2> HIDE DEF days
  <2>1. PICK bound \in Int : \A n \in days : n <= bound
    BY <1>1, <1>2, FiniteBound
  <2> QED BY <1>2, <2>1, MaxFacts
<1>4. \E d \in rows : \A r \in rows : r.date <= d.date
  BY <1>3
<1>5. LastOf(rows) \in rows /\ \A r \in rows : r.date <= LastOf(rows).date
  BY <1>4 DEF LastOf
<1> QED BY <1>5 DEF Dated

LEMMA IndexIsNumber ==
  ASSUME NEW rows, IsFiniteSet(rows), \A r \in rows : r.ret \in Int \cup {Ruin}, NEW day
  PROVE  Index(rows, day) \in Int
<1> DEFINE earned == {r \in rows : r.date <= day /\ \E q \in rows : q.date < r.date}
           f == [r \in earned |-> r.ret]
<1>1. IsFiniteSet(earned)
  BY FS_Subset
<1>2. CASE \E r \in earned : r.ret = Ruin
  BY <1>2 DEF Index, IndexFloor
<1>3. CASE ~\E r \in earned : r.ret = Ruin
  <2>1. Index(rows, day) = SumFunction(f)
    BY <1>3 DEF Index
  <2>2. DOMAIN f = earned /\ \A r \in earned : f[r] \in Int
    BY <1>3
  <2> HIDE DEF f, earned
  <2>3. SumFunction(f) = SumFunctionOnSet(f, earned)
    BY <2>2, Zenon DEF SumFunction
  <2> QED BY <1>1, <2>1, <2>2, <2>3, SumFacts
<1> QED BY <1>2, <1>3

Priced(daily, permno) == {r \in daily : r.permno = permno /\ r.priced}

TradeDays(daily, permno, start, end) ==
    {r.date : r \in {q \in daily : q.permno = permno /\ q.priced /\ q.date \in start..end}}

Bars == [date : Int, close : Int, adjusted : Int, terminal : {0}]

\* A bar for each day with a price, and nothing but numbers in it.
LEMMA BarFacts ==
  ASSUME NEW daily, NEW now, DailyOk(daily, now), NEW permno, NEW start \in Int, NEW end \in Int
  PROVE  LET bars == ToBars(daily, permno, start, end)
         IN  /\ Dated(bars) /\ bars \subseteq Bars
             /\ {b.date : b \in bars} = TradeDays(daily, permno, start, end)
             /\ bars # {} => Anchor(Priced(daily, permno)) \in Int
<1> DEFINE rows == Priced(daily, permno)
           within == {q \in rows : q.date \in start..end}
           Bar(r) == [date |-> r.date, close |-> r.close,
                      adjusted |-> Index(rows, r.date) + Anchor(rows), terminal |-> 0]
           bar == [r \in within |-> Bar(r)]
           bars == ToBars(daily, permno, start, end)
<1>1. /\ Dated(rows) /\ IsFiniteSet(within) /\ within \subseteq rows
      /\ \A r \in rows : r.date \in Int /\ r.close \in Int /\ r.ret \in Int \cup {Ruin}
  <2>1. rows \subseteq daily /\ within \subseteq rows
    BY DEF Priced
  <2>2. IsFiniteSet(rows) /\ IsFiniteSet(within)
    BY <2>1, FS_Subset DEF DailyOk
  <2> QED BY <2>1, <2>2 DEF DailyOk, Dated, Priced
<1>2. \A day : Index(rows, day) \in Int
  <2> HIDE DEF rows
  <2> QED BY <1>1, IndexIsNumber DEF Dated
<1>3. rows # {} => Anchor(rows) \in Int
  <2> HIDE DEF rows
  <2>1. rows # {} => LastOf(rows) \in rows
    BY <1>1, LastFacts
  <2> QED BY <1>1, <1>2, <2>1 DEF Anchor
<1>4. bars = {Bar(r) : r \in within}
  BY DEF ToBars, Priced
<1>5. within = {q \in daily : q.permno = permno /\ q.priced /\ q.date \in start..end}
  BY DEF Priced
<1> HIDE DEF rows, within, bars
<1>6. \A r \in within : Bar(r) \in Bars /\ Bar(r).date = r.date
  BY <1>1, <1>2, <1>3 DEF Bars
<1>7. DOMAIN bar = within /\ \A r \in within : bar[r] = Bar(r)
  OBVIOUS
<1> HIDE DEF Bar, bar
<1>8. bars = {bar[r] : r \in within}
  BY <1>4, <1>7
<1>9. IsFiniteSet(bars)
  BY <1>1, <1>7, <1>8, FiniteImage
<1>10. bars \subseteq Bars /\ \A b \in bars : \E r \in within : b = Bar(r) /\ b.date = r.date
  BY <1>4, <1>6
<1>11. Dated(bars)
  <2>1. \A b \in bars : b.date \in Int
    BY <1>10 DEF Bars
  <2> QED BY <1>1, <1>9, <1>10, <2>1 DEF Dated
<1>12. {b.date : b \in bars} = TradeDays(daily, permno, start, end)
  <2>1. \A r \in within : \E b \in bars : b.date = r.date
    BY <1>4, <1>6
  <2> QED BY <1>5, <1>10, <2>1 DEF TradeDays
<1> QED BY <1>1, <1>3, <1>10, <1>11, <1>12 DEF bars, rows

\* Rows after the window move the scale of its bars, and nothing else.
LEMMA LaterRowsRescale ==
  ASSUME NEW daily, NEW now, DailyOk(daily, now), NEW permno, NEW start \in Int, NEW end \in Int
  PROVE  \E factor \in Int :
            ToBars(daily, permno, start, end)
            = Rescaled(ToBars({r \in daily : r.date <= end}, permno, start, end), factor)
<1> DEFINE then == {r \in daily : r.date <= end}
           rows == Priced(daily, permno)
           old  == Priced(then, permno)
           within == {q \in rows : q.date \in start..end}
           bars == ToBars(daily, permno, start, end)
           were == ToBars(then, permno, start, end)
           Bar(r, anchor) == [date |-> r.date, close |-> r.close,
                              adjusted |-> Index(old, r.date) + anchor, terminal |-> 0]
<1>1. DailyOk(then, now) /\ \A r \in rows : r.date \in Int /\ r.ret \in Int \cup {Ruin}
  <2>1. then \subseteq daily
    OBVIOUS
  <2>2. IsFiniteSet(then)
    BY <2>1, FS_Subset DEF DailyOk
  <2> QED BY <2>1, <2>2 DEF DailyOk, Priced
<1>2. old = {r \in rows : r.date <= end} /\ within = {q \in old : q.date \in start..end}
  BY <1>1 DEF Priced
<1>3. \A r \in within : Index(rows, r.date) = Index(old, r.date) /\ Index(old, r.date) \in Int
  <2> SUFFICES ASSUME NEW r \in within
               PROVE  Index(rows, r.date) = Index(old, r.date) /\ Index(old, r.date) \in Int
    OBVIOUS
  <2>1. r.date \in Int /\ r.date <= end
    BY <1>1
  <2> DEFINE Earned(all) == {q \in all : q.date <= r.date /\ \E e \in all : e.date < q.date}
  <2>2. Earned(rows) = Earned(old)
    <3> HIDE DEF rows, old, within
    <3> QED BY <1>1, <1>2, <2>1
  <2>3. IsFiniteSet(old) /\ \A q \in old : q.ret \in Int \cup {Ruin}
    <3>1. old \subseteq then
      BY DEF Priced
    <3> QED BY <1>1, <3>1, FS_Subset DEF DailyOk
  <2> HIDE DEF rows, old, within
  <2>4. Index(rows, r.date) = Index(old, r.date)
    BY <2>2 DEF Index
  <2> QED BY <2>3, <2>4, IndexIsNumber
<1>4. /\ bars = {Bar(r, Anchor(rows)) : r \in within}
      /\ were = {Bar(r, Anchor(old)) : r \in within}
  <2>1. bars = {[date |-> r.date, close |-> r.close, adjusted |-> Index(rows, r.date) + Anchor(rows),
                 terminal |-> 0] : r \in within}
    BY DEF ToBars, Priced
  <2>2. were = {[date |-> r.date, close |-> r.close, adjusted |-> Index(old, r.date) + Anchor(old),
                 terminal |-> 0] : r \in {q \in old : q.date \in start..end}}
    BY DEF ToBars, Priced
  <2> HIDE DEF bars, were, within, rows, old
  <2> QED BY <1>2, <1>3, <2>1, <2>2
<1>5. CASE within = {}
  BY <1>4, <1>5 DEF Rescaled
<1>6. CASE within # {}
  <2>1. bars # {} /\ were # {}
    <3> HIDE DEF bars, were, within, Bar
    <3> QED BY <1>4, <1>6
  <2>2. Anchor(rows) \in Int /\ Anchor(old) \in Int
    <3> HIDE DEF then
    <3> QED BY <1>1, <2>1, BarFacts
  <2> DEFINE factor == Anchor(rows) - Anchor(old)
  <2>3. \A r \in within : Bar(r, Anchor(rows))
                          = [Bar(r, Anchor(old)) EXCEPT !.adjusted = @ + factor]
    <3> HIDE DEF rows, old, within
    <3> QED BY <1>3, <2>2
  <2>4. factor \in Int
    BY <2>2
  <2> HIDE DEF rows, old, within, bars, were, Bar, factor
  <2>5. bars = Rescaled(were, factor)
    BY <1>4, <2>3 DEF Rescaled
  <2> QED BY <2>4, <2>5 DEF bars, were
<1> QED BY <1>5, <1>6

\* Closing a series by its delisting return commutes with that.
LEMMA RescaledClose ==
  ASSUME NEW bars, Dated(bars), bars \subseteq Bars, NEW factor \in Int,
         NEW event, NEW exchcd
  PROVE  /\ ApplyDelisting(Rescaled(bars, factor), event, exchcd)
            = Rescaled(ApplyDelisting(bars, event, exchcd), factor)
         /\ \A b \in ApplyDelisting(bars, event, exchcd) :
               b.adjusted \in Int /\ "adjusted" \in DOMAIN b
<1> DEFINE Scaled(b) == [b EXCEPT !.adjusted = @ + factor]
           scaled == Rescaled(bars, factor)
           last == LastOf(bars)
           dlret == EffectiveReturn(event, exchcd)
           end == Terminal(bars, event, dlret)
<1>1. \A b \in bars : /\ b.adjusted \in Int /\ "adjusted" \in DOMAIN b /\ b.date \in Int
                      /\ Scaled(b).date = b.date /\ Scaled(b) \in Bars
  BY DEF Bars
<1>2. scaled = {Scaled(b) : b \in bars}
  BY DEF Rescaled
<1>3. CASE bars = {}
  BY <1>2, <1>3 DEF ApplyDelisting, Rescaled
<1>4. CASE bars # {}
  <2>1. last \in bars /\ \A b \in bars : b.date <= last.date
    BY <1>4, LastFacts
  <2>2. Dated(scaled) /\ scaled # {}
    <3> DEFINE f == [b \in bars |-> Scaled(b)]
    <3>1. DOMAIN f = bars /\ \A b \in bars : f[b] = Scaled(b)
      OBVIOUS
    <3> HIDE DEF f, Scaled, scaled
    <3>2. scaled = {f[b] : b \in bars}
      BY <1>2, <3>1
    <3>3. IsFiniteSet(scaled)
      BY <3>1, <3>2, FiniteImage DEF Dated
    <3> QED BY <1>1, <1>2, <1>4, <3>3 DEF Dated
  <2>3. LastOf(scaled) = Scaled(last)
    <3>1. Scaled(last) \in scaled /\ \A c \in scaled : c.date <= Scaled(last).date
      <4> HIDE DEF Scaled, scaled, last
      <4> QED BY <1>1, <1>2, <2>1
    <3> HIDE DEF Scaled, scaled, last
    <3> QED BY <2>2, <3>1, LastFacts
  <2>4. /\ Terminal(scaled, event, dlret) = Scaled(end)
        /\ end.adjusted \in Int /\ "adjusted" \in DOMAIN end
    <3>1. last \in Bars
      BY <2>1
    <3> HIDE DEF last, scaled, dlret
    <3> QED BY <2>3, <3>1 DEF Terminal, Bars, last
  <2>5. LastOf(scaled).date = last.date
    <3> HIDE DEF Scaled, scaled, last
    <3> QED BY <1>1, <2>1, <2>3
  <2>6. CASE event.date < last.date \/ dlret = 0
    BY <1>1, <2>2, <2>5, <2>6 DEF ApplyDelisting
  <2>7. CASE ~(event.date < last.date \/ dlret = 0)
    <3>1. /\ ApplyDelisting(bars, event, exchcd) = bars \cup {end}
          /\ ApplyDelisting(scaled, event, exchcd) = scaled \cup {Terminal(scaled, event, dlret)}
      BY <1>4, <2>2, <2>5, <2>7 DEF ApplyDelisting
    <3>2. Rescaled(bars \cup {end}, factor) = scaled \cup {Scaled(end)}
      BY DEF Rescaled
    <3> HIDE DEF scaled, end, Scaled
    <3> QED BY <1>1, <2>4, <3>1, <3>2 DEF scaled
  <2> QED BY <2>6, <2>7
<1> QED BY <1>3, <1>4

\* The series of the security, as the feed has its exits, from some of its rows.
Series(daily, ticker, start, end) ==
    LET permno == PermnoInWindow(feed.names, ticker, start, end)
        bars   == ToBars(daily, permno, start, end)
    IN  IF permno = NoPermno \/ bars = {} THEN {} ELSE WithDelisting(feed, permno, bars, end)

\* A database that knows the names as of some day since, and the same exits in the window,
\* gives the series of its rows.
LEMMA SameSeries ==
  ASSUME RecordsInv, kind = "crsp", NEW day \in Int, day <= today,
         NEW start \in Int, NEW end \in Int, end <= day, NEW ticker,
         NEW db, db.names = NamesBy(day),
         {i \in DOMAIN db.delists : db.delists[i].date <= end}
         = {i \in DOMAIN feed.delists : feed.delists[i].date <= end},
         \A i \in DOMAIN db.delists : db.delists[i] = feed.delists[i]
  PROVE  GetPrices(db, ticker, start, end) = Series(db.daily, ticker, start, end)
<1> DEFINE permno == PermnoInWindow(feed.names, ticker, start, end)
           bars   == ToBars(db.daily, permno, start, end)
           within(delists) == {i \in DOMAIN delists : /\ delists[i].permno = permno
                                                      /\ delists[i].code >= 200
                                                      /\ delists[i].date <= end}
           event  == feed.delists[Min(within(feed.delists))]
<1>1. today \in Nat /\ CoverageEnd \in Nat /\ today < CoverageEnd
  BY SecurityTypes
<1>2. Least(end, CoverageEnd) = end
  BY <1>1 DEF Least
<1>3. PermnoInWindow(db.names, ticker, start, Least(end, CoverageEnd)) = permno
      /\ PermnoInWindow(feed.names, ticker, start, Least(end, CoverageEnd)) = permno
  BY <1>2, SameSecurity
<1> HIDE DEF permno
<1>5. within(db.delists) = within(feed.delists)
  OBVIOUS
<1>6. within(feed.delists) # {} =>
        /\ db.delists[Min(within(db.delists))] = event
        /\ ExchangeFor(db.names, permno, event.date) = ExchangeFor(feed.names, permno, event.date)
  <2> SUFFICES ASSUME within(feed.delists) # {}
               PROVE  /\ db.delists[Min(within(db.delists))] = event
                      /\ ExchangeFor(db.names, permno, event.date)
                         = ExchangeFor(feed.names, permno, event.date)
    OBVIOUS
  <2>1. within(feed.delists) \in SUBSET Nat
    BY SecurityTypes
  <2>2. Min(within(feed.delists)) \in within(feed.delists)
    <3> HIDE DEF within
    <3> QED BY <2>1, MinFacts
  <2>3. event.date <= end /\ event.permno = permno /\ Min(within(feed.delists)) \in DOMAIN db.delists
    BY <1>5, <2>2
  <2>4. event \in EventRows /\ InForce(feed.names, event.permno, event.date) # {}
    BY <2>2, SecurityTypes
  <2>5. event.date \in Int /\ event.date <= day
    <3> HIDE DEF event
    <3> QED BY <2>3, <2>4 DEF EventRows
  <2>6. db.delists[Min(within(db.delists))] = event
    BY <1>5, <2>3
  <2> HIDE DEF event
  <2>7. ExchangeFor(db.names, permno, event.date) = ExchangeFor(feed.names, permno, event.date)
    BY <2>3, <2>4, <2>5, SameExchange
  <2> QED BY <2>6, <2>7
<1>7. WithDelisting(db, permno, bars, end) = WithDelisting(feed, permno, bars, end)
  <2>1. WithDelisting(db, permno, bars, end)
        = IF within(db.delists) = {} THEN bars
          ELSE ApplyDelisting(bars, db.delists[Min(within(db.delists))],
                 ExchangeFor(db.names, permno, db.delists[Min(within(db.delists))].date))
    BY DEF WithDelisting
  <2>2. WithDelisting(feed, permno, bars, end)
        = IF within(feed.delists) = {} THEN bars
          ELSE ApplyDelisting(bars, event, ExchangeFor(feed.names, permno, event.date))
    BY DEF WithDelisting
  <2> HIDE DEF within, bars, event
  <2> QED BY <1>5, <1>6, <2>1, <2>2
<1> QED BY <1>3, <1>7 DEF GetPrices, Series, permno

LEMMA PricesAreSettled == RecordsInv => PricesPointInTime
<1> SUFFICES ASSUME RecordsInv, kind = "crsp", NEW w \in Windows,
                    NEW copied \in w[2]..today, NEW ticker \in {"OLD", "NEW"}
             PROVE  SameButForScale(
                      GetPrices([feed EXCEPT !.names = NamesBy(copied)], ticker, w[1], w[2]),
                      GetPrices(SecuritiesBy(w[2]), ticker, w[1], w[2]))
  BY DEF PricesPointInTime
<1> DEFINE db == [feed EXCEPT !.names = NamesBy(copied)]
           then == SecuritiesBy(w[2])
           permno == PermnoInWindow(feed.names, ticker, w[1], w[2])
           bars == ToBars(then.daily, permno, w[1], w[2])
           within == {i \in DOMAIN feed.delists : /\ feed.delists[i].permno = permno
                                                  /\ feed.delists[i].code >= 200
                                                  /\ feed.delists[i].date <= w[2]}
<1>1. /\ w[1] \in Int /\ w[2] \in Int /\ w[2] <= today
      /\ copied \in Int /\ w[2] <= copied /\ copied <= today
  BY SecurityTypes DEF Windows, Past
<1>2. db.names = NamesBy(copied) /\ db.daily = feed.daily /\ db.delists = feed.delists
  BY SecurityTypes
<1>3. /\ then.names = NamesBy(w[2])
      /\ then.daily = {r \in feed.daily : r.date <= w[2]}
      /\ DOMAIN then.delists = {j \in DOMAIN feed.delists : feed.delists[j].date <= w[2]}
      /\ \A i \in DOMAIN then.delists : then.delists[i] = feed.delists[i]
  BY DEF SecuritiesBy
<1> HIDE DEF db, then, permno
<1>4. GetPrices(db, ticker, w[1], w[2]) = Series(feed.daily, ticker, w[1], w[2])
  BY <1>1, <1>2, SameSeries
<1>5. {i \in DOMAIN then.delists : then.delists[i].date <= w[2]}
      = {i \in DOMAIN feed.delists : feed.delists[i].date <= w[2]}
  BY <1>3
<1>6. GetPrices(then, ticker, w[1], w[2]) = Series(then.daily, ticker, w[1], w[2])
  <2>1. w[2] <= w[2] /\ \A i \in DOMAIN then.delists : then.delists[i] = feed.delists[i]
    BY <1>1, <1>3
  <2>2. then.names = NamesBy(w[2])
    BY <1>3
  <2> QED BY <1>1, <1>5, <2>1, <2>2, SameSeries
<1>7. DailyOk(feed.daily, today) /\ DailyOk(then.daily, today)
  <2>1. DailyOk(feed.daily, today)
    BY SecurityTypes
  <2>2. IsFiniteSet(then.daily)
    BY <1>3, <2>1, FS_Subset DEF DailyOk
  <2> QED BY <1>3, <2>1, <2>2 DEF DailyOk
<1>8. PICK factor \in Int : ToBars(feed.daily, permno, w[1], w[2]) = Rescaled(bars, factor)
  BY <1>1, <1>3, <1>7, LaterRowsRescale
<1>9. Dated(bars) /\ bars \subseteq Bars
  BY <1>1, <1>7, BarFacts
<1> DEFINE closed == WithDelisting(feed, permno, bars, w[2])
<1>10. /\ WithDelisting(feed, permno, Rescaled(bars, factor), w[2]) = Rescaled(closed, factor)
       /\ \A b \in closed : b.adjusted \in Int /\ "adjusted" \in DOMAIN b
  <2>1. \A all : WithDelisting(feed, permno, all, w[2])
               = IF within = {} THEN all
                 ELSE ApplyDelisting(all, feed.delists[Min(within)],
                        ExchangeFor(feed.names, permno, feed.delists[Min(within)].date))
    BY DEF WithDelisting
  <2>2. \A b \in bars : b.adjusted \in Int /\ "adjusted" \in DOMAIN b
    BY <1>9 DEF Bars
  <2> HIDE DEF bars, within
  <2> QED BY <1>9, <2>1, <2>2, RescaledClose
<1> HIDE DEF bars, closed
<1>11. Rescaled(bars, factor) = {} <=> bars = {}
  BY DEF Rescaled
<1>12. CASE permno = NoPermno \/ bars = {}
  <2>1. /\ Series(feed.daily, ticker, w[1], w[2]) = {}
        /\ Series(then.daily, ticker, w[1], w[2]) = {}
    BY <1>8, <1>11, <1>12 DEF Series, permno, bars
  <2> QED BY <1>4, <1>6, <2>1 DEF SameButForScale, db, then
<1>13. CASE ~(permno = NoPermno \/ bars = {})
  <2>1. /\ Series(feed.daily, ticker, w[1], w[2]) = Rescaled(closed, factor)
        /\ Series(then.daily, ticker, w[1], w[2]) = closed
    BY <1>8, <1>10, <1>11, <1>13 DEF Series, permno, bars, closed
  <2>2. SameButForScale(Rescaled(closed, factor), closed)
    <3>1. CASE closed = {}
      BY <3>1 DEF SameButForScale, Rescaled
    <3>2. CASE closed # {}
      <4>1. PICK c \in closed : TRUE
        BY <3>2
      <4> DEFINE b == [c EXCEPT !.adjusted = @ + factor]
      <4>2. b \in Rescaled(closed, factor) /\ b.adjusted - c.adjusted = factor
        BY <1>10, <4>1 DEF Rescaled
      <4> HIDE DEF b
      <4> QED BY <4>2 DEF SameButForScale
    <3> QED BY <3>1, <3>2
  <2> QED BY <1>4, <1>6, <2>1, <2>2 DEF db, then
<1> QED BY <1>12, <1>13

--------------------------------------------------------------------------------
(* CRSP: a series is one company's, and ends with its loss                      *)

LEMMA WindowFacts ==
  ASSUME RecordsInv, kind = "crsp", NEW w \in Windows
  PROVE  w[1] \in Int /\ w[2] \in Int /\ w[2] < today /\ Least(w[2], CoverageEnd) = w[2]
BY SecurityTypes DEF Windows, Past, Least

LEMMA HoldersFacts ==
  ASSUME NEW ticker, NEW start, NEW end
  PROVE  Holders(ticker, start, end)
         = {feed.names[i].permno : i \in Meeting(feed.names, ticker, start, end)}
BY DEF Holders, Meeting

LEMMA SeriesAreOneCompanys == RecordsInv => OneCompany
<1> SUFFICES ASSUME RecordsInv, kind = "crsp", NEW w \in Windows, NEW ticker \in {"OLD", "NEW"},
                    GetPrices(feed, ticker, w[1], w[2]) # {}
             PROVE  LET bars == GetPrices(feed, ticker, w[1], w[2])
                        ends == {b \in bars : b.terminal # 0}
                    IN  /\ \E p \in Holders(ticker, w[1], w[2]) :
                              bars \ ends = ToBars(feed.daily, p, w[1], w[2])
                        /\ Cardinality(ends) <= 1
                        /\ \A e \in ends, b \in bars : b.date <= e.date
  BY DEF OneCompany
<1> DEFINE bars   == GetPrices(feed, ticker, w[1], w[2])
           ends   == {b \in bars : b.terminal # 0}
           permno == PermnoInWindow(feed.names, ticker, w[1], w[2])
           traded == ToBars(feed.daily, permno, w[1], w[2])
           within == {i \in DOMAIN feed.delists : /\ feed.delists[i].permno = permno
                                                  /\ feed.delists[i].code >= 200
                                                  /\ feed.delists[i].date <= w[2]}
           event  == feed.delists[Min(within)]
           loss   == EffectiveReturn(event, ExchangeFor(feed.names, permno, event.date))
           last   == LastOf(traded)
           final  == Terminal(traded, event, loss)
<1>1. /\ w[1] \in Int /\ w[2] \in Int /\ Least(w[2], CoverageEnd) = w[2]
      /\ SomeNames(feed.names)
  BY WindowFacts, SecurityTypes
<1>2. permno # NoPermno /\ traded # {} /\ bars = WithDelisting(feed, permno, traded, w[2])
  BY <1>1 DEF GetPrices
<1>3. permno \in Holders(ticker, w[1], w[2])
  <2>1. Meeting(feed.names, ticker, w[1], w[2]) # {}
    BY <1>1, <1>2, MeetingFacts
  <2>2. \E i \in Meeting(feed.names, ticker, w[1], w[2]) : permno = feed.names[i].permno
    BY <1>1, <2>1, MeetingFacts
  <2> HIDE DEF permno
  <2> QED BY <2>2, HoldersFacts
<1>4. /\ \A b \in traded : b.date \in Int /\ b.date <= last.date /\ b.terminal = 0
      /\ last \in traded /\ last \in Bars
  <2> HIDE DEF permno
  <2>1. Dated(traded) /\ traded \subseteq Bars
    BY <1>1, SecurityTypes, BarFacts
  <2> HIDE DEF traded
  <2>2. last \in traded /\ \A b \in traded : b.date <= last.date
    BY <1>2, <2>1, LastFacts
  <2> QED BY <2>1, <2>2 DEF Bars
<1>5. last.date \in Int /\ final.date = event.date /\ final.terminal = loss
  <2> HIDE DEF last, loss, event
  <2> QED BY <1>4 DEF Bars, Terminal, last
<1>6. \/ bars = traded
      \/ /\ within # {} /\ ~(event.date < last.date) /\ loss # 0
         /\ bars = traded \cup {final}
  <2>1. WithDelisting(feed, permno, traded, w[2])
        = IF within = {} THEN traded
          ELSE IF traded = {} \/ event.date < last.date \/ loss = 0 THEN traded
               ELSE traded \cup {final}
    BY DEF WithDelisting, ApplyDelisting
  <2> HIDE DEF traded, within, loss, last, final, event
  <2> QED BY <1>2, <2>1
<1>7. within # {} => event.date \in Nat
  <2>1. within \in SUBSET Nat
    BY SecurityTypes
  <2>2. within # {} => Min(within) \in within
    <3> HIDE DEF within
    <3> QED BY <2>1, MinFacts
  <2> QED BY <2>2, SecurityTypes DEF EventRows
<1> HIDE DEF bars, permno, traded, within, loss, last, final, event
<1>8. CASE bars = traded
  <2>1. ends = {}
    BY <1>4, <1>8
  <2>2. Cardinality(ends) = 0
    BY <2>1, FS_EmptySet
  <2> HIDE DEF ends
  <2> QED BY <1>3, <1>8, <2>1, <2>2 DEF traded, bars, ends
<1>9. CASE /\ within # {} /\ ~(event.date < last.date) /\ loss # 0
           /\ bars = traded \cup {final}
  <2>1. ends = {final} /\ bars \ ends = traded
    BY <1>4, <1>5, <1>9
  <2>2. Cardinality(ends) = 1
    BY <2>1, FS_Singleton
  <2>3. \A b \in bars : b.date <= final.date
    BY <1>4, <1>5, <1>7, <1>9
  <2> HIDE DEF ends
  <2> QED BY <1>3, <2>1, <2>2, <2>3 DEF traded, bars, ends
<1> QED BY <1>6, <1>8, <1>9

LEMMA LossesAreBooked == RecordsInv => DeathsAreBooked
<1> SUFFICES ASSUME RecordsInv, kind = "crsp", NEW w \in Windows, NEW ticker \in {"OLD", "NEW"},
                    NEW i \in DOMAIN feed.delists
             PROVE  LET event  == feed.delists[i]
                        trades == {r.date : r \in {q \in feed.daily : /\ q.permno = event.permno
                                                                      /\ q.priced
                                                                      /\ q.date \in w[1]..w[2]}}
                        loss   == EffectiveReturn(event,
                                    ExchangeFor(feed.names, event.permno, event.date))
                    IN  /\ Holders(ticker, w[1], w[2]) = {event.permno}
                        /\ event.code >= 200
                        /\ \A j \in DOMAIN feed.delists :
                              feed.delists[j].permno = event.permno /\ feed.delists[j].code >= 200
                              => j = i
                        /\ trades # {} /\ Max(trades) <= event.date /\ event.date <= w[2]
                        /\ loss # 0
                        => \E b \in GetPrices(feed, ticker, w[1], w[2]) :
                              b.date = event.date /\ b.terminal = loss
  BY DEF DeathsAreBooked
<1> DEFINE event  == feed.delists[i]
           permno == event.permno
           trades == {r.date : r \in {q \in feed.daily : /\ q.permno = permno
                                                         /\ q.priced
                                                         /\ q.date \in w[1]..w[2]}}
           loss   == EffectiveReturn(event, ExchangeFor(feed.names, permno, event.date))
           traded == ToBars(feed.daily, permno, w[1], w[2])
           within == {j \in DOMAIN feed.delists : /\ feed.delists[j].permno = permno
                                                  /\ feed.delists[j].code >= 200
                                                  /\ feed.delists[j].date <= w[2]}
<1> SUFFICES ASSUME Holders(ticker, w[1], w[2]) = {permno},
                    event.code >= 200,
                    \A j \in DOMAIN feed.delists :
                        feed.delists[j].permno = permno /\ feed.delists[j].code >= 200 => j = i,
                    trades # {}, Max(trades) <= event.date, event.date <= w[2],
                    loss # 0
             PROVE  \E b \in GetPrices(feed, ticker, w[1], w[2]) :
                       b.date = event.date /\ b.terminal = loss
  OBVIOUS
<1>1. /\ w[1] \in Int /\ w[2] \in Int /\ Least(w[2], CoverageEnd) = w[2]
      /\ SomeNames(feed.names) /\ event \in EventRows /\ i \in Nat
      /\ DOMAIN feed.delists \subseteq Nat
  BY WindowFacts, SecurityTypes
<1>2. permno \in Securities /\ event.date \in Nat /\ permno # NoPermno
  BY <1>1, CoverageAssumption DEF EventRows, CoverageAssumption
<1>3. PermnoInWindow(feed.names, ticker, w[1], w[2]) = permno
  <2>1. \A k \in Meeting(feed.names, ticker, w[1], w[2]) : feed.names[k].permno = permno
    BY HoldersFacts
  <2>2. Meeting(feed.names, ticker, w[1], w[2]) # {}
    BY HoldersFacts
  <2>3. \E k \in Meeting(feed.names, ticker, w[1], w[2]) :
            PermnoInWindow(feed.names, ticker, w[1], w[2]) = feed.names[k].permno
    BY <1>1, <2>2, MeetingFacts
  <2> QED BY <2>1, <2>3
<1>4. /\ Dated(traded) /\ traded \subseteq Bars
      /\ {b.date : b \in traded} = trades
  <2>1. trades = TradeDays(feed.daily, permno, w[1], w[2])
    BY DEF TradeDays
  <2> HIDE DEF trades, permno
  <2> QED BY <1>1, <2>1, SecurityTypes, BarFacts
<1>5. traded # {}
  <2> HIDE DEF traded, trades
  <2> QED BY <1>4
<1>6. LastOf(traded) \in traded /\ LastOf(traded) \in Bars
  <2> HIDE DEF traded
  <2> QED BY <1>4, <1>5, LastFacts
<1>7. within = {i}
  OBVIOUS
<1>8. Min(within) = i
  <2>1. Min({i}) \in {i}
    BY <1>1, MinFacts
  <2> HIDE DEF within
  <2> QED BY <1>7, <2>1
<1>9. GetPrices(feed, ticker, w[1], w[2]) = WithDelisting(feed, permno, traded, w[2])
  <2> HIDE DEF permno
  <2> QED BY <1>1, <1>2, <1>3, <1>5 DEF GetPrices
<1>10. WithDelisting(feed, permno, traded, w[2])
       = IF within = {} THEN traded
         ELSE ApplyDelisting(traded, feed.delists[Min(within)],
                ExchangeFor(feed.names, permno, feed.delists[Min(within)].date))
  BY DEF WithDelisting
<1>11. WithDelisting(feed, permno, traded, w[2])
       = ApplyDelisting(traded, event, ExchangeFor(feed.names, permno, event.date))
  <2> HIDE DEF within, traded, permno
  <2> QED BY <1>7, <1>8, <1>10
<1>12. ApplyDelisting(traded, event, ExchangeFor(feed.names, permno, event.date))
       = IF traded = {} \/ event.date < LastOf(traded).date \/ loss = 0 THEN traded
         ELSE traded \cup {Terminal(traded, event, loss)}
  BY DEF ApplyDelisting
<1>13. ~(event.date < LastOf(traded).date)
  <2>1. LastOf(traded).date \in trades /\ trades \in SUBSET Int /\ \A n \in trades : n <= w[2]
    <3>1. trades \in SUBSET Int /\ \A n \in trades : n <= w[2]
      BY <1>1
    <3> HIDE DEF trades, traded
    <3> QED BY <1>4, <1>6, <3>1
  <2>2. Max(trades) <= event.date
    OBVIOUS
  <2> HIDE DEF trades, traded, event
  <2>3. LastOf(traded).date <= Max(trades) /\ Max(trades) \in Int
    BY <1>1, <2>1, MaxFacts
  <2> QED BY <1>2, <2>1, <2>2, <2>3
<1>14. /\ Terminal(traded, event, loss).date = event.date
       /\ Terminal(traded, event, loss).terminal = loss
  <2> HIDE DEF traded, loss, event
  <2> QED BY <1>6 DEF Terminal, Bars
<1> HIDE DEF traded, loss, within, trades
<1> QED BY <1>5, <1>9, <1>11, <1>12, <1>13, <1>14

--------------------------------------------------------------------------------
(* What is settled, and what is right                                           *)

\* No query about a past day, no signal and no book of it changes by what is recorded
\* later, but for the exceptions that PastIsSettled names.
THEOREM ThePastIsSettled == Spec => []PastIsSettled
<1>1. RecordsInv => PastIsSettled
  BY FilingsAreSettled, QuartersAreSettled, LinksAreSettled, PricesAreSettled,
     EstimatesAreSettled, BooksAreSettled, DirectionsAreSettled DEF PastIsSettled
<1> QED BY <1>1, RecordsInvariant, PTL

\* No year-to-date or year-ago figure is used when the tag that won gave the quarter's own.
THEOREM QuartersWin == Spec => []CurrentFigures
BY RecordsInvariant, FiguresAreCurrent, PTL

\* On every day so far, the security a company is linked to is linked to that company.
THEOREM OneCompanyPerSecurity == Spec => []JoinedOnce
BY RecordsInvariant, LinksAgree, PTL

\* A price series is one holder's, closed by at most one terminal bar.
THEOREM OneSeriesPerCompany == Spec => []OneCompany
BY RecordsInvariant, SeriesAreOneCompanys, PTL

\* The only holder of a ticker that died in the window is returned with its loss.
THEOREM TheDeadAreBooked == Spec => []DeathsAreBooked
BY RecordsInvariant, LossesAreBooked, PTL



--------------------------------------------------------------------------------
(* Compustat: the flows of a year add up                                        *)

LEMMA LatestFacts ==
  ASSUME NEW quarters, IsFiniteSet(quarters), quarters # {}, \A q \in quarters : q.fqtr \in Nat
  PROVE  /\ Latest(quarters) \in quarters
         /\ \A q \in quarters : q.fqtr <= Latest(quarters).fqtr
<1> DEFINE numbers == {q.fqtr : q \in quarters}
           place == [q \in quarters |-> q.fqtr]
<1>1. IsFiniteSet(numbers)
  <2>1. place \in Surjection(quarters, numbers)
    BY DEF Surjection
  <2> QED BY <2>1, FS_Surjection
<1>2. numbers \in SUBSET Nat /\ numbers \in SUBSET Int /\ numbers # {} /\ \A n \in numbers : n \in Int
  OBVIOUS
<1>3. \E m \in numbers : \A n \in numbers : n <= m
  <2> HIDE DEF numbers
  <2>1. PICK bound \in Int : \A n \in numbers : n <= bound
    BY <1>1, <1>2, FiniteBound
  <2>2. Max(numbers) \in numbers /\ \A n \in numbers : n <= Max(numbers)
    BY <1>2, <2>1, MaxFacts
  <2> QED BY <2>2
<1>4. \E q \in quarters : \A other \in quarters : other.fqtr <= q.fqtr
  BY <1>3
<1> QED BY <1>4 DEF Latest

LEMMA FlowsTelescope == RecordsInv => FlowsAddUp
<1> SUFFICES ASSUME RecordsInv, kind = "compustat", NEW fyear,
                    {r \in Usable(feed) : r.fyear = fyear /\ r.ytd # NoFigure} # {}
             PROVE  LET told == {r \in Usable(feed) : r.fyear = fyear /\ r.ytd # NoFigure}
                    IN  SumFunction([r \in told |-> QuarterlyFlow(feed, r)]) = Latest(told).ytd
  BY DEF FlowsAddUp
<1> DEFINE told == {r \in Usable(feed) : r.fyear = fyear /\ r.ytd # NoFigure}
           flow == [r \in told |-> QuarterlyFlow(feed, r)]
           upTo(q) == {r \in told : r.fqtr <= q.fqtr}
           odd == {q \in told : SumFunctionOnSet(flow, upTo(q)) # q.ytd}
           numbers == {q.fqtr : q \in odd}
<1>1. /\ IsFiniteSet(told)
      /\ \A r \in told : r.fqtr \in Nat /\ r.ytd \in Int
      /\ \A r, q \in told : r.fqtr = q.fqtr => r = q
  <2>1. told \subseteq feed
    BY DEF Usable
  <2>2. IsFiniteSet(told)
    BY <2>1, FS_Subset DEF RecordsInv, QuartersOk
  <2>3. \A r \in told : r.fqtr \in Nat /\ r.ytd \in Int
    BY <2>1 DEF RecordsInv, QuartersOk
  <2>4. \A r, q \in told : r.fqtr = q.fqtr => r = q
    BY <2>1 DEF RecordsInv, QuartersOk, Usable
  <2> QED BY <2>2, <2>3, <2>4
<1>2. \A q \in told : Before(feed, q) = upTo(q) \ {q}
  <2> SUFFICES ASSUME NEW q \in told PROVE Before(feed, q) = upTo(q) \ {q}
    OBVIOUS
  <2>1. Before(feed, q) = {r \in told : r.fqtr < q.fqtr}
    BY DEF Before
  <2>2. \A r \in told : r.fqtr < q.fqtr <=> r.fqtr <= q.fqtr /\ r # q
    <3> SUFFICES ASSUME NEW r \in told PROVE r.fqtr < q.fqtr <=> r.fqtr <= q.fqtr /\ r # q
      OBVIOUS
    <3>1. r.fqtr \in Nat /\ q.fqtr \in Nat /\ (r.fqtr = q.fqtr => r = q)
      BY <1>1
    <3> QED BY <3>1
  <2> QED BY <2>1, <2>2
<1>3. told # {}
  OBVIOUS
<1> HIDE DEF told
<1>4. ASSUME NEW q \in told, Before(feed, q) # {}
      PROVE  LET p == Latest(Before(feed, q))
             IN  /\ p \in told /\ p.fqtr < q.fqtr /\ upTo(p) = Before(feed, q)
                 /\ flow[q] = q.ytd - p.ytd
  <2> DEFINE p == Latest(Before(feed, q))
  <2>1. /\ Before(feed, q) \subseteq told /\ IsFiniteSet(Before(feed, q))
        /\ \A r \in Before(feed, q) : r.fqtr \in Nat
    BY <1>1, <1>2, FS_Subset
  <2>2. p \in Before(feed, q) /\ \A r \in Before(feed, q) : r.fqtr <= p.fqtr
    BY <1>4, <2>1, LatestFacts
  <2> HIDE DEF p
  <2>3. p \in told /\ p.fqtr <= q.fqtr /\ p # q
    BY <1>2, <2>2
  <2>4. p.fqtr \in Nat /\ q.fqtr \in Nat /\ p.fqtr < q.fqtr
    BY <1>1, <2>3
  <2>5. \A r \in told : r.fqtr <= p.fqtr <=> r \in Before(feed, q)
    <3> SUFFICES ASSUME NEW r \in told PROVE r.fqtr <= p.fqtr <=> r \in Before(feed, q)
      OBVIOUS
    <3>1. r.fqtr \in Nat /\ (r \in Before(feed, q) => r.fqtr <= p.fqtr)
      BY <1>1, <2>2
    <3>2. r.fqtr <= p.fqtr => r.fqtr <= q.fqtr /\ r # q
      BY <2>4, <3>1
    <3> QED BY <1>2, <3>1, <3>2
  <2>6. flow[q] = q.ytd - p.ytd
    BY <1>4 DEF QuarterlyFlow, p
  <2> QED BY <2>1, <2>3, <2>4, <2>5, <2>6 DEF p
<1>5. \A q \in told : flow[q] \in Int
  <2> SUFFICES ASSUME NEW q \in told PROVE flow[q] \in Int
    OBVIOUS
  <2>1. CASE Before(feed, q) = {}
    <3>1. flow[q] = q.ytd
      BY <2>1 DEF QuarterlyFlow
    <3> QED BY <1>1, <3>1
  <2>2. CASE Before(feed, q) # {}
    BY <1>1, <1>4, <2>2
  <2> QED BY <2>1, <2>2
<1>6. \A q \in told : /\ q \in upTo(q) /\ upTo(q) \subseteq told
                      /\ SumFunctionOnSet(flow, upTo(q))
                         = flow[q] + SumFunctionOnSet(flow, Before(feed, q))
  <2> SUFFICES ASSUME NEW q \in told
               PROVE  /\ q \in upTo(q) /\ upTo(q) \subseteq told
                      /\ SumFunctionOnSet(flow, upTo(q))
                         = flow[q] + SumFunctionOnSet(flow, Before(feed, q))
    OBVIOUS
  <2>1. q \in upTo(q) /\ upTo(q) \subseteq told
    <3>1. q.fqtr \in Nat
      BY <1>1
    <3> QED BY <3>1
  <2>2. IsFiniteSet(upTo(q)) /\ \A r \in upTo(q) : flow[r] \in Int
    BY <1>1, <1>5, <2>1, FS_Subset
  <2>3. Before(feed, q) = upTo(q) \ {q}
    BY <1>2
  <2> HIDE DEF upTo, flow
  <2> QED BY <2>1, <2>2, <2>3, SumFacts
<1>7. SumFunctionOnSet(flow, {}) = 0
  BY FS_EmptySet, SumFacts
<1>8. odd = {}
  <2> SUFFICES ASSUME odd # {} PROVE FALSE
    OBVIOUS
  <2>1. numbers \in SUBSET Nat /\ numbers # {}
    <3> HIDE DEF told, upTo, flow
    <3> QED BY <1>1
  <2>2. Min(numbers) \in numbers /\ \A n \in numbers : Min(numbers) <= n
    <3> HIDE DEF numbers
    <3> QED BY <2>1, MinFacts
  <2>3. PICK q \in odd : q.fqtr = Min(numbers)
    BY <2>2
  <2>4. q \in told /\ q.fqtr \in Nat /\ q.ytd \in Int /\ SumFunctionOnSet(flow, upTo(q)) # q.ytd
    BY <1>1
  <2>5. CASE Before(feed, q) = {}
    <3>1. flow[q] = q.ytd
      BY <2>4, <2>5 DEF QuarterlyFlow
    <3>2. SumFunctionOnSet(flow, upTo(q)) = q.ytd + 0
      <4>1. SumFunctionOnSet(flow, upTo(q)) = flow[q] + SumFunctionOnSet(flow, {})
        <5> HIDE DEF upTo, flow, odd
        <5> QED BY <1>6, <2>4, <2>5
      <4> HIDE DEF upTo, flow, odd
      <4> QED BY <1>7, <3>1, <4>1
    <3> HIDE DEF upTo, flow
    <3> QED BY <2>4, <3>2
  <2>6. CASE Before(feed, q) # {}
    <3> DEFINE p == Latest(Before(feed, q))
    <3>1. /\ p \in told /\ p.fqtr < q.fqtr /\ upTo(p) = Before(feed, q)
          /\ flow[q] = q.ytd - p.ytd
      BY <1>4, <2>4, <2>6
    <3> HIDE DEF p
    <3>2. p.fqtr \in Nat /\ p.ytd \in Int
      BY <1>1, <3>1
    <3>3. p.fqtr \notin numbers
      <4> HIDE DEF numbers
      <4> QED BY <2>2, <2>3, <2>4, <3>1, <3>2
    <3>4. p \notin odd
      BY <3>3
    <3>5. SumFunctionOnSet(flow, upTo(p)) = p.ytd
      BY <3>1, <3>4
    <3>6. SumFunctionOnSet(flow, upTo(q)) = flow[q] + SumFunctionOnSet(flow, Before(feed, q))
      BY <1>6, <2>4
    <3>7. SumFunctionOnSet(flow, upTo(q)) = (q.ytd - p.ytd) + p.ytd
      BY <3>1, <3>5, <3>6
    <3> HIDE DEF upTo, flow
    <3> QED BY <2>4, <3>2, <3>7
  <2> QED BY <2>5, <2>6
<1>9. Latest(told) \in told /\ \A r \in told : r.fqtr <= Latest(told).fqtr
  BY <1>1, <1>3, LatestFacts
<1>10. upTo(Latest(told)) = told
  BY <1>9
<1>11. SumFunctionOnSet(flow, told) = Latest(told).ytd
  BY <1>8, <1>9, <1>10
<1>12. SumFunction(flow) = SumFunctionOnSet(flow, told)
  <2>1. DOMAIN flow = told
    OBVIOUS
  <2> HIDE DEF flow
  <2> QED BY <2>1 DEF SumFunction
<1> QED BY <1>11, <1>12 DEF told

\* The quarterly flows made of a year's figures add up to the last figure of the year.
THEOREM TheFlowsAddUp == Spec => []FlowsAddUp
BY RecordsInvariant, FlowsTelescope, PTL


--------------------------------------------------------------------------------
(* IBES: the consensus leans to the right analyst                               *)

LEMMA ConstantSum ==
  ASSUME NEW S, IsFiniteSet(S), NEW c \in Int
  PROVE  SumFunction([x \in S |-> c]) = c * Cardinality(S)
<1> DEFINE f == [x \in S |-> c]
           odd == {s \in SUBSET S : SumFunctionOnSet(f, s) # c * Cardinality(s)}
           sizes == {Cardinality(s) : s \in odd}
<1>1. \A x \in S : f[x] = c
  OBVIOUS
<1>2. SumFunction(f) = SumFunctionOnSet(f, S)
  <2>1. DOMAIN f = S
    OBVIOUS
  <2> HIDE DEF f
  <2> QED BY <2>1 DEF SumFunction
<1> HIDE DEF f
<1>3. \A s \in SUBSET S : IsFiniteSet(s) /\ Cardinality(s) \in Nat
  BY FS_Subset, FS_CardinalityType
<1>4. odd = {}
  <2> SUFFICES ASSUME odd # {} PROVE FALSE
    OBVIOUS
  <2>1. sizes \in SUBSET Nat /\ sizes # {}
    BY <1>3
  <2>2. Min(sizes) \in sizes /\ \A n \in sizes : Min(sizes) <= n
    <3> HIDE DEF sizes
    <3> QED BY <2>1, MinFacts
  <2>3. PICK s \in odd : Cardinality(s) = Min(sizes)
    BY <2>2
  <2>4. s \in SUBSET S /\ IsFiniteSet(s) /\ \A x \in s : f[x] = c /\ f[x] \in Int
    BY <1>1, <1>3
  <2>5. s # {}
    <3>1. SumFunctionOnSet(f, {}) = 0 /\ Cardinality({}) = 0
      BY FS_EmptySet, SumFacts
    <3>2. c * 0 = 0
      OBVIOUS
    <3> QED BY <3>1, <3>2
  <2>6. PICK x \in s : TRUE
    BY <2>5
  <2> DEFINE rest == s \ {x}
  <2>7. /\ Cardinality(rest) = Cardinality(s) - 1 /\ Cardinality(rest) \in Nat
        /\ Cardinality(s) \in Nat /\ rest \in SUBSET S
    BY <2>4, WithoutOne, FS_CardinalityType
  <2>8. Cardinality(rest) \notin sizes
    <3> HIDE DEF sizes, rest, odd
    <3> QED BY <2>1, <2>2, <2>3, <2>7
  <2>9. SumFunctionOnSet(f, rest) = c * Cardinality(rest)
    BY <2>7, <2>8
  <2>10. SumFunctionOnSet(f, s) = f[x] + SumFunctionOnSet(f, rest)
    BY <2>4, SumFacts
  <2>11. SumFunctionOnSet(f, s) = c + c * (Cardinality(s) - 1)
    <3> HIDE DEF rest, odd
    <3> QED BY <2>4, <2>7, <2>9, <2>10
  <2>12. c + c * (Cardinality(s) - 1) = c * Cardinality(s)
    <3> HIDE DEF odd
    <3> QED BY <2>7
  <2> QED BY <2>11, <2>12
<1>5. S \in SUBSET S
  OBVIOUS
<1> QED BY <1>2, <1>4, <1>5 DEF f

LEMMA PairSum ==
  ASSUME NEW a, NEW b, a # b, NEW f, DOMAIN f = {a, b}, f[a] \in Int, f[b] \in Int
  PROVE  SumFunction(f) = f[a] + f[b]
<1>1. IsFiniteSet({a, b}) /\ IsFiniteSet({b}) /\ IsFiniteSet({})
  <2>1. IsFiniteSet({b}) /\ IsFiniteSet({})
    BY FS_Singleton, FS_EmptySet
  <2>2. IsFiniteSet({b} \cup {a}) /\ {b} \cup {a} = {a, b}
    BY <2>1, FS_AddElement
  <2> QED BY <2>1, <2>2
<1>2. SumFunctionOnSet(f, {a, b}) = f[a] + SumFunctionOnSet(f, {a, b} \ {a})
  BY <1>1, SumFacts
<1>3. SumFunctionOnSet(f, {b}) = f[b] + SumFunctionOnSet(f, {b} \ {b})
  BY <1>1, SumFacts
<1>4. SumFunctionOnSet(f, {}) = 0
  BY <1>1, SumFacts
<1>5. {a, b} \ {a} = {b} /\ {b} \ {b} = {}
  OBVIOUS
<1>6. SumFunctionOnSet(f, {a, b}) = f[a] + (f[b] + 0)
  BY <1>2, <1>3, <1>4, <1>5
<1>7. SumFunction(f) = SumFunctionOnSet(f, {a, b})
  BY Zenon DEF SumFunction
<1> QED BY <1>6, <1>7

\* The last estimate of everyone who made one in time.
LEMMA ForecastFacts ==
  ASSUME RecordsInv, kind = "ibes", NEW actual, NEW analyst \in DOMAIN LastForecasts(
           Announced(feed.estimates, 1, today), actual)
  PROVE  LET est == Announced(feed.estimates, 1, today)
         IN  LastForecasts(est, actual)[analyst] \in est
<1> DEFINE est == Announced(feed.estimates, 1, today)
           own == Forecasts(est, actual, analyst)
           days == {e.date : e \in own}
<1>1. own # {} /\ own \subseteq est
  BY DEF LastForecasts, Forecasts
<1>2. LastForecasts(est, actual)[analyst]
      = CHOOSE e \in own : \A other \in own : other.date <= e.date
  BY DEF LastForecasts
<1>3. \A e \in own : e.date \in Int /\ e.date <= today
  BY DEF Announced, Forecasts, RecordsInv
<1> HIDE DEF own
<1>4. days \in SUBSET Int /\ days # {} /\ \A n \in days : n <= today
  BY <1>1, <1>3
<1>5. Max(days) \in days /\ \A n \in days : n <= Max(days)
  <2>1. today \in Int
    BY DEF RecordsInv
  <2> HIDE DEF days
  <2> QED BY <1>4, <2>1, MaxFacts
<1>6. \E e \in own : \A other \in own : other.date <= e.date
  BY <1>5
<1> QED BY <1>1, <1>2, <1>6

LEMMA MissIsNumber ==
  ASSUME NEW forecast, NEW actual, forecast.value \in Int, actual.value \in Int
  PROVE  Miss(forecast, actual) \in Int
BY DEF Miss

\* Of two who made a forecast the better places first.
LEMMA PlacesOfTwo ==
  ASSUME NEW field, NEW actual, NEW r, NEW w, DOMAIN field = {r, w},
         r \in Int, w \in Int, field[r].value \in Int, field[w].value \in Int, actual.value \in Int,
         Miss(field[r], actual) < Miss(field[w], actual)
  PROVE  /\ Cardinality(DOMAIN field) = 2
         /\ Place(field, actual, r) = 0 /\ Place(field, actual, w) = 1
<1>1. Miss(field[r], actual) \in Int /\ Miss(field[w], actual) \in Int
  BY MissIsNumber
<1>2. r # w
  BY <1>1
<1>3. Cardinality({w}) = 1 /\ IsFiniteSet({w}) /\ Cardinality({r}) = 1 /\ Cardinality({}) = 0
  BY FS_Singleton, FS_EmptySet
<1>4. Cardinality({w} \cup {r}) = 2
  BY <1>2, <1>3, FS_AddElement
<1>5. {w} \cup {r} = DOMAIN field
  OBVIOUS
<1> DEFINE ahead(x) == {a \in DOMAIN field :
                          \/ Miss(field[a], actual) < Miss(field[x], actual)
                          \/ Miss(field[a], actual) = Miss(field[x], actual) /\ a < x}
<1>6. ahead(r) = {} /\ ahead(w) = {r}
  BY <1>1, <1>2
<1> QED BY <1>3, <1>4, <1>5, <1>6 DEF Place


\* Whoever beat the only other one on every figure has full marks, the other none.
LEMMA AccuracyOfTwo ==
  ASSUME RecordsInv, kind = "ibes",
         NEW r \in {e.analyst : e \in Announced(feed.estimates, 1, today)},
         NEW w \in {e.analyst : e \in Announced(feed.estimates, 1, today)},
         Announced(feed.actuals, 1, today) # {},
         MinObservations <= Cardinality(Announced(feed.actuals, 1, today)),
         \A a \in Announced(feed.actuals, 1, today) :
            LET field == LastForecasts(Announced(feed.estimates, 1, today), a)
            IN  {r, w} = DOMAIN field /\ Miss(field[r], a) < Miss(field[w], a)
  PROVE  LET accuracy == AnalystAccuracy(Announced(feed.estimates, 1, today),
                                         Announced(feed.actuals, 1, today), today)
         IN  /\ r \in DOMAIN accuracy /\ w \in DOMAIN accuracy
             /\ accuracy[r] = 4 /\ accuracy[w] = 0
<1> DEFINE est == Announced(feed.estimates, 1, today)
           act == Announced(feed.actuals, 1, today)
           accuracy == AnalystAccuracy(est, act, today)
           known == {a \in act : a.date <= today}
           Field(actual) == LastForecasts(est, actual)
           Scored(analyst) == {a \in known : /\ analyst \in DOMAIN Field(a)
                                             /\ Cardinality(DOMAIN Field(a)) >= 2}
           Mark(actual, analyst) ==
               LET last == Cardinality(DOMAIN Field(actual)) - 1
               IN  (4 * (last - Place(Field(actual), actual, analyst))) \div last
           whose == {y \in {e.analyst : e \in est} :
                       Scored(y) # {} /\ Cardinality(Scored(y)) >= MinObservations}
<1>1. accuracy = [x \in whose |->
                    SumFunction([a \in Scored(x) |-> Mark(a, x)]) \div Cardinality(Scored(x))]
  BY DEF AnalystAccuracy
<1>2. \A a \in act : /\ Cardinality(DOMAIN Field(a)) = 2
                     /\ Place(Field(a), a, r) = 0 /\ Place(Field(a), a, w) = 1
                     /\ r \in DOMAIN Field(a) /\ w \in DOMAIN Field(a)
  <2> SUFFICES ASSUME NEW a \in act
               PROVE  /\ Cardinality(DOMAIN Field(a)) = 2
                      /\ Place(Field(a), a, r) = 0 /\ Place(Field(a), a, w) = 1
                      /\ r \in DOMAIN Field(a) /\ w \in DOMAIN Field(a)
    OBVIOUS
  <2> DEFINE field == Field(a)
  <2>1. DOMAIN field = {r, w} /\ Miss(field[r], a) < Miss(field[w], a)
    OBVIOUS
  <2>2. field[r] \in est /\ field[w] \in est
    <3>1. r \in DOMAIN field /\ w \in DOMAIN field
      BY <2>1
    <3> QED BY <3>1, ForecastFacts
  <2>3. /\ field[r].value \in Int /\ field[w].value \in Int /\ a.value \in Int
        /\ r \in Int /\ w \in Int
    <3>1. \A e \in est : e.value \in Int /\ e.analyst \in Int
      BY DEF RecordsInv, EstimatesOk, Announced
    <3>2. a.value \in Int
      BY DEF RecordsInv, EstimatesOk, Announced
    <3> HIDE DEF act, field
    <3> QED BY <2>2, <3>1, <3>2
  <2> HIDE DEF field
  <2>4. Cardinality(DOMAIN field) = 2 /\ Place(field, a, r) = 0 /\ Place(field, a, w) = 1
    BY <2>1, <2>3, PlacesOfTwo
  <2> QED BY <2>1, <2>4 DEF field
<1>3. known = act
  <2>1. \A a \in act : a.date <= today
    BY DEF Announced, RecordsInv
  <2> HIDE DEF act
  <2> QED BY <2>1
<1>4. IsFiniteSet(act) /\ Cardinality(act) \in Nat /\ Cardinality(act) # 0
  <2>1. IsFiniteSet(act)
    BY FS_Subset DEF RecordsInv, EstimatesOk, Announced
  <2> HIDE DEF act
  <2> QED BY <2>1, FS_CardinalityType, FS_EmptySet DEF act
<1> HIDE DEF Field, known, act, est
<1>5. Scored(r) = act /\ Scored(w) = act
  BY <1>2, <1>3
<1>6. \A a \in act : Mark(a, r) = 4 /\ Mark(a, w) = 0
  <2> SUFFICES ASSUME NEW a \in act PROVE Mark(a, r) = 4 /\ Mark(a, w) = 0
    OBVIOUS
  <2>1. /\ Mark(a, r) = (4 * ((2 - 1) - 0)) \div (2 - 1)
        /\ Mark(a, w) = (4 * ((2 - 1) - 1)) \div (2 - 1)
    BY <1>2
  <2> HIDE DEF Mark
  <2> QED BY <2>1
<1> HIDE DEF Mark, Scored
<1>7. r \in whose /\ w \in whose
  BY <1>4, <1>5 DEF est, act
<1> HIDE DEF whose
<1>8. /\ [a \in Scored(r) |-> Mark(a, r)] = [a \in act |-> 4]
      /\ [a \in Scored(w) |-> Mark(a, w)] = [a \in act |-> 0]
  BY <1>5, <1>6
<1>9. /\ SumFunction([a \in act |-> 4]) = 4 * Cardinality(act)
      /\ SumFunction([a \in act |-> 0]) = 0 * Cardinality(act)
  <2>1. \A c \in Int : SumFunction([a \in act |-> c]) = c * Cardinality(act)
    BY <1>4, ConstantSum, Zenon
  <2>2. 4 \in Int /\ 0 \in Int
    OBVIOUS
  <2> QED BY <2>1, <2>2, Zenon
<1>10. /\ accuracy[r] = (4 * Cardinality(act)) \div Cardinality(act)
       /\ accuracy[w] = (0 * Cardinality(act)) \div Cardinality(act)
  <2> HIDE DEF accuracy
  <2>1. /\ accuracy[r] = SumFunction([a \in Scored(r) |-> Mark(a, r)]) \div Cardinality(Scored(r))
        /\ accuracy[w] = SumFunction([a \in Scored(w) |-> Mark(a, w)]) \div Cardinality(Scored(w))
    BY <1>1, <1>7
  <2> QED BY <1>5, <1>8, <1>9, <2>1
<1>11. accuracy[r] = 4 /\ accuracy[w] = 0
  <2> HIDE DEF accuracy
  <2> QED BY <1>4, <1>10
<1> QED BY <1>1, <1>7, <1>11 DEF est, act

\* With full marks for one of two estimates and none for the other, the first counts.
LEMMA BeatOfTwo ==
  ASSUME NEW est, NEW accuracy, NEW ticker, NEW right, NEW wrong, right # wrong,
         {e \in est : e.ticker = ticker} = {right, wrong},
         right.value \in Int, wrong.value \in Int,
         Trust(accuracy, right.analyst) = 4, Trust(accuracy, wrong.analyst) = 0
  PROVE  ExpertBeat(est, accuracy, ticker)[1] = 4 * (right.value - wrong.value)
<1> DEFINE rows == {e \in est : e.ticker = ticker}
           Sum(Of(_)) == SumFunction([e \in rows |-> Of(e)])
           n      == Cardinality(rows)
           weight == SumFunction([e \in rows |-> Trust(accuracy, e.analyst)])
           ours   == SumFunction([e \in rows |-> Trust(accuracy, e.analyst) * e.value])
           all    == SumFunction([e \in rows |-> e.value])
<1>1. ExpertBeat(est, accuracy, ticker)
      = IF weight = 0 THEN <<0, 1>> ELSE <<n * ours - weight * all, n * weight>>
  BY DEF ExpertBeat
<1>2. rows = {right, wrong}
  OBVIOUS
<1> HIDE DEF rows
<1>3. n = 2
  <2>1. IsFiniteSet({wrong}) /\ Cardinality({wrong}) = 1
    BY FS_Singleton
  <2>2. Cardinality({wrong} \cup {right}) = 2
    <3> HIDE DEF n
    <3>1. right \notin {wrong}
      OBVIOUS
    <3>2. Cardinality({wrong} \cup {right}) = Cardinality({wrong}) + 1
      BY <2>1, <3>1, FS_AddElement
    <3> QED BY <2>1, <3>2
  <2>3. {wrong} \cup {right} = rows
    BY <1>2
  <2> QED BY <2>2, <2>3
<1>4. weight = 4 + 0
  <2> DEFINE f == [e \in rows |-> Trust(accuracy, e.analyst)]
  <2>1. DOMAIN f = {right, wrong} /\ f[right] = 4 /\ f[wrong] = 0
    BY <1>2
  <2> HIDE DEF f
  <2>2. f[right] \in Int /\ f[wrong] \in Int
    BY <2>1
  <2>3. SumFunction(f) = f[right] + f[wrong]
    BY <2>1, <2>2, PairSum
  <2> QED BY <2>1, <2>3 DEF f
<1>5. ours = 4 * right.value + 0 * wrong.value
  <2> DEFINE f == [e \in rows |-> Trust(accuracy, e.analyst) * e.value]
  <2>1. DOMAIN f = {right, wrong} /\ f[right] = 4 * right.value /\ f[wrong] = 0 * wrong.value
    BY <1>2
  <2>2. 4 * right.value \in Int /\ 0 * wrong.value \in Int
    OBVIOUS
  <2> HIDE DEF f
  <2>3. SumFunction(f) = f[right] + f[wrong]
    BY <2>1, <2>2, PairSum
  <2> QED BY <2>1, <2>3 DEF f
<1>6. all = right.value + wrong.value
  <2> DEFINE f == [e \in rows |-> e.value]
  <2>1. DOMAIN f = {right, wrong} /\ f[right] = right.value /\ f[wrong] = wrong.value
    BY <1>2
  <2> HIDE DEF f
  <2>2. SumFunction(f) = f[right] + f[wrong]
    BY <2>1, PairSum
  <2> QED BY <2>1, <2>2 DEF f
<1> HIDE DEF n, weight, ours, all
<1>7. ExpertBeat(est, accuracy, ticker)[1] = n * ours - weight * all
  BY <1>1, <1>4
<1>8. ExpertBeat(est, accuracy, ticker)[1]
      = 2 * (4 * right.value + 0 * wrong.value) - 4 * (right.value + wrong.value)
  BY <1>3, <1>4, <1>5, <1>6, <1>7
<1> QED BY <1>8

LEMMA TheRightLead == RecordsInv => ConsensusLeansRight
<1> SUFFICES ASSUME RecordsInv, kind = "ibes", NEW ticker \in Tickers,
                    NEW right \in Announced(feed.estimates, 1, today),
                    NEW wrong \in Announced(feed.estimates, 1, today)
             PROVE  LET est == Announced(feed.estimates, 1, today)
                        act == Announced(feed.actuals, 1, today)
                        Known(a) == {e \in est : e.date < a.date}
                        Beaten(a) == LET field == LastForecasts(Known(a), a)
                                     IN  {right.analyst, wrong.analyst} = DOMAIN field
                                         /\ Miss(field[right.analyst], a) < Miss(field[wrong.analyst], a)
                        accuracy == AnalystAccuracy(est, act, today)
                    IN  /\ {e \in est : e.ticker = ticker} = {right, wrong} /\ right # wrong
                        /\ act # {} /\ MinObservations <= Cardinality(act)
                        /\ \A a \in act : Beaten(a)
                        => ExpertBeat(est, accuracy, ticker)[1] * (right.value - wrong.value) >= 0
                           /\ (right.value # wrong.value => ExpertBeat(est, accuracy, ticker)[1] # 0)
  BY DEF ConsensusLeansRight
<1> DEFINE est == Announced(feed.estimates, 1, today)
           act == Announced(feed.actuals, 1, today)
           Known(a) == {e \in est : e.date < a.date}
           Beaten(a) == LET field == LastForecasts(Known(a), a)
                        IN  {right.analyst, wrong.analyst} = DOMAIN field
                            /\ Miss(field[right.analyst], a) < Miss(field[wrong.analyst], a)
           accuracy == AnalystAccuracy(est, act, today)
           beat == ExpertBeat(est, accuracy, ticker)[1]
<1> SUFFICES ASSUME {e \in est : e.ticker = ticker} = {right, wrong}, right # wrong,
                    act # {}, MinObservations <= Cardinality(act), \A a \in act : Beaten(a)
             PROVE  /\ beat * (right.value - wrong.value) >= 0
                    /\ right.value # wrong.value => beat # 0
  OBVIOUS
<1>1. right.value \in Int /\ wrong.value \in Int
  BY DEF RecordsInv, EstimatesOk, Announced
<1>2. /\ right.analyst \in {e.analyst : e \in est}
      /\ wrong.analyst \in {e.analyst : e \in est}
  OBVIOUS
<1>0. ASSUME NEW a PROVE LastForecasts(est, a) = LastForecasts(Known(a), a)
  <2>1. Known(a) \in SUBSET est /\ \A e \in est : e.date < a.date => e \in Known(a)
    OBVIOUS
  <2> HIDE DEF est, Known
  <2> QED BY <2>1, SameForecasts
<1>3. /\ right.analyst \in DOMAIN accuracy /\ wrong.analyst \in DOMAIN accuracy
      /\ accuracy[right.analyst] = 4 /\ accuracy[wrong.analyst] = 0
  <2>1. \A a \in act : LET field == LastForecasts(est, a)
                       IN  /\ {right.analyst, wrong.analyst} = DOMAIN field
                           /\ Miss(field[right.analyst], a) < Miss(field[wrong.analyst], a)
    BY <1>0
  <2> HIDE DEF Known
  <2> QED BY <1>2, <2>1, AccuracyOfTwo
<1> HIDE DEF accuracy, est
<1>4. Trust(accuracy, right.analyst) = 4 /\ Trust(accuracy, wrong.analyst) = 0
  BY <1>3 DEF Trust
<1>5. beat = 4 * (right.value - wrong.value)
  BY <1>1, <1>4, BeatOfTwo
<1> HIDE DEF beat, Known
<1> QED BY <1>1, <1>5

\* Of two analysts who cover a name, the one that was right on every figure moves the
\* weighted consensus away from the simple one, and its own way.
THEOREM TheConsensusLeansRight == Spec => []ConsensusLeansRight
BY RecordsInvariant, TheRightLead, PTL

--------------------------------------------------------------------------------
(* Sets taken apart                                                             *)

\* If some subset of a finite set is odd, one is that is not odd with any element left out.
LEMMA LeastSet ==
  ASSUME NEW S, IsFiniteSet(S), NEW odd \in SUBSET SUBSET S, odd # {}
  PROVE  \E s \in odd : \A x \in s : s \ {x} \notin odd
<1> DEFINE sizes == {Cardinality(s) : s \in odd}
<1>1. \A s \in SUBSET S : /\ Cardinality(s) \in Nat
                          /\ \A x \in s : Cardinality(s \ {x}) < Cardinality(s)
  <2> SUFFICES ASSUME NEW s \in SUBSET S
               PROVE  /\ Cardinality(s) \in Nat
                      /\ \A x \in s : Cardinality(s \ {x}) < Cardinality(s)
    OBVIOUS
  <2>1. IsFiniteSet(s) /\ Cardinality(s) \in Nat
    BY FS_Subset, FS_CardinalityType
  <2>2. \A x \in s : Cardinality(s \ {x}) = Cardinality(s) - 1
    BY <2>1, WithoutOne
  <2> QED BY <2>1, <2>2
<1>2. sizes \in SUBSET Nat /\ sizes # {}
  BY <1>1
<1>3. Min(sizes) \in sizes /\ \A n \in sizes : Min(sizes) <= n
  <2> HIDE DEF sizes
  <2> QED BY <1>2, MinFacts
<1>4. PICK s \in odd : Cardinality(s) = Min(sizes)
  BY <1>3
<1>5. ASSUME NEW x \in s, s \ {x} \in odd PROVE FALSE
  <2>1. Cardinality(s \ {x}) \in sizes
    BY <1>5
  <2>2. Cardinality(s \ {x}) \in Nat /\ Cardinality(s \ {x}) < Cardinality(s) /\ Cardinality(s) \in Nat
    BY <1>1, <1>5
  <2> HIDE DEF sizes
  <2>3. Min(sizes) <= Cardinality(s \ {x})
    BY <1>3, <2>1
  <2> QED BY <1>4, <2>2, <2>3
<1> QED BY <1>5

\* Distinct images are as many as what they are images of.
LEMMA ImageCount ==
  ASSUME NEW f, NEW T, T \subseteq DOMAIN f, IsFiniteSet(T),
         \A x, y \in T : f[x] = f[y] => x = y
  PROVE  IsFiniteSet({f[x] : x \in T}) /\ Cardinality({f[x] : x \in T}) = Cardinality(T)
<1> DEFINE g == [x \in T |-> f[x]]
           image == {f[x] : x \in T}
<1>1. g \in Bijection(T, image)
  <2>1. g \in [T -> image]
    OBVIOUS
  <2>2. \A x, y \in T : g[x] = g[y] => x = y
    OBVIOUS
  <2>3. \A v \in image : \E x \in T : g[x] = v
    OBVIOUS
  <2> HIDE DEF g, image
  <2> QED BY <2>1, <2>2, <2>3 DEF Bijection, Injection, Surjection, IsInjective
<1>2. ExistsBijection(T, image)
  <2> HIDE DEF g, image
  <2> QED BY <1>1 DEF ExistsBijection
<1> HIDE DEF image
<1>3. IsFiniteSet(image) /\ Cardinality(image) = Cardinality(T)
  BY <1>2, FS_Bijection
<1> QED BY <1>3 DEF image

\* A sum over some of the elements, and over one more.
LEMMA SubsetSum ==
  ASSUME NEW S, IsFiniteSet(S), NEW f, \A x \in S : f[x] \in Int
  PROVE  \A s \in SUBSET S :
           /\ SumFunctionOnSet(f, s) \in Int
           /\ s = {} => SumFunctionOnSet(f, s) = 0
           /\ \A x \in s : /\ SumFunctionOnSet(f, s) = f[x] + SumFunctionOnSet(f, s \ {x})
                           /\ SumFunctionOnSet(f, s \ {x}) \in Int
<1> SUFFICES ASSUME NEW s \in SUBSET S
             PROVE  /\ SumFunctionOnSet(f, s) \in Int
                    /\ s = {} => SumFunctionOnSet(f, s) = 0
                    /\ \A x \in s : /\ SumFunctionOnSet(f, s) = f[x] + SumFunctionOnSet(f, s \ {x})
                                    /\ SumFunctionOnSet(f, s \ {x}) \in Int
  OBVIOUS
<1>1. IsFiniteSet(s) /\ \A x \in s : f[x] \in Int
  BY FS_Subset
<1>2. \A x \in s : IsFiniteSet(s \ {x}) /\ \A y \in s \ {x} : f[y] \in Int
  BY <1>1, FS_Subset
<1>3. \A x \in s : SumFunctionOnSet(f, s \ {x}) \in Int
  BY <1>2, SumFacts
<1>4. /\ SumFunctionOnSet(f, s) \in Int
      /\ s = {} => SumFunctionOnSet(f, s) = 0
      /\ \A x \in s : SumFunctionOnSet(f, s) = f[x] + SumFunctionOnSet(f, s \ {x})
  BY <1>1, SumFacts
<1> QED BY <1>3, <1>4

\* Positive terms make a sum larger.
LEMMA SumGrows ==
  ASSUME NEW S, IsFiniteSet(S), NEW f, \A x \in S : f[x] \in Int,
         NEW T \in SUBSET S, \A x \in S \ T : f[x] > 0, T # S
  PROVE  SumFunctionOnSet(f, T) < SumFunctionOnSet(f, S)
<1> DEFINE Sum(s) == SumFunctionOnSet(f, s)
           odd == {s \in SUBSET S : T \subseteq s /\ T # s /\ ~(Sum(T) < Sum(s))}
<1> SUFFICES ASSUME odd # {} PROVE FALSE
  OBVIOUS
<1>1. PICK s \in odd : \A x \in s : s \ {x} \notin odd
  <2>1. odd \in SUBSET SUBSET S
    OBVIOUS
  <2> HIDE DEF odd
  <2> QED BY <2>1, LeastSet
<1>2. PICK x \in s : x \notin T
  OBVIOUS
<1>3. T \subseteq s \ {x} /\ s \ {x} \in SUBSET S
  BY <1>2
<1>4. Sum(T) = Sum(s \ {x}) \/ Sum(T) < Sum(s \ {x})
  BY <1>1, <1>3
<1>5. /\ Sum(s) = f[x] + Sum(s \ {x}) /\ Sum(s \ {x}) \in Int /\ Sum(T) \in Int
      /\ f[x] \in Int /\ f[x] > 0 /\ Sum(s) \in Int /\ ~(Sum(T) < Sum(s))
  BY <1>2, SubsetSum
<1> HIDE DEF Sum, odd
<1> QED BY <1>4, <1>5


--------------------------------------------------------------------------------
(* The desk: what is at hand at every point                                     *)

IntakeOk ==
    /\ feed = [prices |-> feed.prices, filed |-> feed.filed, links |-> feed.links]
    /\ feed.prices \subseteq {5, -6}
    /\ feed.filed \in Seq(FirmYears)
    /\ feed.links \in Seq(BOOLEAN)

DeskInv ==
    /\ kind = "pipeline" => IntakeOk
    /\ kind = "signals" => feed \in Seq(Signals)

LEMMA DeskInit == Init => DeskInv
<1>1. ASSUME Init, kind = "pipeline" PROVE IntakeOk
  <2>1. feed = NoIntake
    BY <1>1 DEF Init, DeskKinds, EmptyDesk
  <2> QED BY <2>1, EmptySeq DEF NoIntake, IntakeOk
<1>2. ASSUME Init, kind = "signals" PROVE feed \in Seq(Signals)
  <2>1. feed = <<>>
    BY <1>2 DEF Init, DeskKinds, EmptyDesk
  <2> QED BY <2>1, EmptySeq
<1> QED BY <1>1, <1>2 DEF DeskInv

LEMMA IntakeStaysOk ==
  ASSUME DeskInv, [Next]_vars, kind = "pipeline", kind' = "pipeline"
  PROVE  IntakeOk'
<1>1. feed' = feed \/ TakeIn
  BY DEF Next, VendorNext, DeskNext, Disclose, Load, Link, Unlink, ListAs, Delist, Estimate, Report,
         Score, Close, Validate, Trade, List, TakeIn, Tomorrow, DayRows, vars
<1>2. CASE feed' = feed
  BY <1>2 DEF DeskInv, IntakeOk
<1>3. ASSUME NEW price \in {5, -6}, feed' = [feed EXCEPT !.prices = @ \cup {price}]
      PROVE  IntakeOk'
  BY <1>3 DEF DeskInv, IntakeOk
<1>4. ASSUME NEW year \in FirmYears, feed' = [feed EXCEPT !.filed = Append(@, year)]
      PROVE  IntakeOk'
  <2>1. Append(feed.filed, year) \in Seq(FirmYears)
    BY AppendProperties DEF DeskInv, IntakeOk
  <2>2. feed' = [prices |-> feed.prices, filed |-> Append(feed.filed, year), links |-> feed.links]
    BY <1>4 DEF DeskInv, IntakeOk
  <2> QED BY <2>1, <2>2 DEF DeskInv, IntakeOk
<1>5. ASSUME NEW usable \in BOOLEAN, feed' = [feed EXCEPT !.links = Append(@, usable)]
      PROVE  IntakeOk'
  <2>1. Append(feed.links, usable) \in Seq(BOOLEAN)
    BY AppendProperties DEF DeskInv, IntakeOk
  <2>2. feed' = [prices |-> feed.prices, filed |-> feed.filed, links |-> Append(feed.links, usable)]
    BY <1>5 DEF DeskInv, IntakeOk
  <2> QED BY <2>1, <2>2 DEF DeskInv, IntakeOk
<1> QED BY <1>1, <1>2, <1>3, <1>4, <1>5 DEF TakeIn

LEMMA SignalsStayOk ==
  ASSUME DeskInv, [Next]_vars, kind = "signals", kind' = "signals"
  PROVE  feed' \in Seq(Signals)
<1>1. feed' = feed \/ Validate
  BY DEF Next, VendorNext, DeskNext, Disclose, Load, Link, Unlink, ListAs, Delist, Estimate, Report,
         Score, Close, Validate, Trade, List, TakeIn, Tomorrow, DayRows, vars
<1>2. CASE feed' = feed
  BY <1>2 DEF DeskInv
<1>3. ASSUME NEW signal \in Signals, feed' = Append(feed, signal) PROVE feed' \in Seq(Signals)
  BY <1>3, AppendProperties DEF DeskInv
<1> QED BY <1>1, <1>2, <1>3 DEF Validate

LEMMA DeskStep == DeskInv /\ [Next]_vars => DeskInv'
<1> SUFFICES ASSUME DeskInv, [Next]_vars PROVE DeskInv'
  OBVIOUS
<1>1. kind' = kind
  BY DEF Next, VendorNext, DeskNext, Disclose, Load, Link, Unlink, ListAs, Delist, Estimate, Report,
         Score, Close, Validate, Trade, List, TakeIn, Tomorrow, vars
<1> QED BY <1>1, IntakeStaysOk, SignalsStayOk DEF DeskInv

LEMMA DeskInvariant == Spec => []DeskInv
BY DeskInit, DeskStep, PTL DEF Spec

--------------------------------------------------------------------------------
(* The certificate                                                              *)

LEMMA CleanFacts ==
  ASSUME NEW prices, NEW rows, NEW merged \in BOOLEAN, NEW usable, NEW rejected
  PROVE  RequireClean(Certify(prices, rows, merged, usable, rejected)) <=>
           /\ PricesAbsoluteValued(prices) /\ merged
           /\ FundamentalsLaggedToRdq(rows) /\ YtdItemsDifferenced(rows)
           /\ CcmLinkFiltered(usable, rejected)
<1> DEFINE absolute == PricesAbsoluteValued(prices)
           lagged == FundamentalsLaggedToRdq(rows)
           differenced == YtdItemsDifferenced(rows)
           filtered == CcmLinkFiltered(usable, rejected)
           c == [prices_absolute_valued |-> absolute, delisting_returns_merged |-> merged,
                 fundamentals_lagged_to_rdq |-> lagged, ytd_items_differenced |-> differenced,
                 ccm_link_filtered |-> filtered]
<1>1. absolute \in BOOLEAN /\ lagged \in BOOLEAN /\ differenced \in BOOLEAN /\ filtered \in BOOLEAN
  BY DEF PricesAbsoluteValued, FundamentalsLaggedToRdq, YtdItemsDifferenced, CcmLinkFiltered
<1>2. RequireClean(Certify(prices, rows, merged, usable, rejected))
      <=> \A check \in DOMAIN c : c[check]
  BY DEF RequireClean, Certify
<1> HIDE DEF absolute, lagged, differenced, filtered
<1>3. (\A check \in DOMAIN c : c[check])
      <=> absolute /\ merged /\ lagged /\ differenced /\ filtered
  BY <1>1
<1> QED BY <1>2, <1>3 DEF absolute, lagged, differenced, filtered

\* The row of a quarter, and the rows of a year.
RowOf(i, q, done) ==
    [fiscal_year |-> i, fiscal_quarter |-> q,
     operating_cash_flow |-> Flow(feed.filed[i], q, done),
     month_end |-> "lagged" \in done => feed.filed[i][q].month_end]

RowsOf(i, done) == {RowOf(i, q, done) : q \in DOMAIN feed.filed[i]}

LEMMA FiledFacts ==
  ASSUME IntakeOk
  PROVE  /\ Len(feed.filed) \in Nat /\ DOMAIN feed.filed = 1..Len(feed.filed)
         /\ IsFiniteSet(DOMAIN feed.filed)
         /\ \A i \in DOMAIN feed.filed :
              /\ IsFiniteSet(DOMAIN feed.filed[i]) /\ DOMAIN feed.filed[i] # {}
              /\ DOMAIN feed.filed[i] \subseteq Int
              /\ \A q \in DOMAIN feed.filed[i] : /\ feed.filed[i][q].flow \in Int
                                                 /\ feed.filed[i][q].month_end \in BOOLEAN
<1>1. Len(feed.filed) \in Nat /\ DOMAIN feed.filed = 1..Len(feed.filed)
  BY LenProperties DEF IntakeOk
<1>2. \A i \in DOMAIN feed.filed : feed.filed[i] \in FirmYears
  BY <1>1, ElementOfSeq DEF IntakeOk
<1>3. IsFiniteSet(DOMAIN feed.filed)
  BY <1>1, FS_Interval
<1> QED BY <1>1, <1>2, <1>3, FilingsAssumption DEF FilingsAssumption

LEMMA RowFacts ==
  ASSUME IntakeOk, NEW done
  PROVE  /\ Fundamentals(done) = UNION {RowsOf(i, done) : i \in DOMAIN feed.filed}
         /\ \A r \in Fundamentals(done) : /\ r.fiscal_year \in DOMAIN feed.filed
                                          /\ r \in RowsOf(r.fiscal_year, done)
         /\ \A i \in DOMAIN feed.filed :
              /\ RowsOf(i, done) = {r \in Fundamentals(done) : r.fiscal_year = i}
              /\ IsFiniteSet(RowsOf(i, done)) /\ RowsOf(i, done) # {}
              /\ Cardinality(RowsOf(i, done)) = Cardinality(DOMAIN feed.filed[i])
<1>1. Fundamentals(done) = UNION {RowsOf(i, done) : i \in DOMAIN feed.filed}
  BY Zenon DEF Fundamentals, RowsOf, RowOf
<1>2. \A i, q : RowOf(i, q, done).fiscal_year = i /\ RowOf(i, q, done).fiscal_quarter = q
  BY DEF RowOf
<1>3. \A i : \A r \in RowsOf(i, done) : r.fiscal_year = i
  BY <1>2 DEF RowsOf
<1>4. \A r \in Fundamentals(done) : r.fiscal_year \in DOMAIN feed.filed /\ r \in RowsOf(r.fiscal_year, done)
  BY <1>1, <1>3
<1>5. \A i \in DOMAIN feed.filed : RowsOf(i, done) = {r \in Fundamentals(done) : r.fiscal_year = i}
  BY <1>1, <1>3, <1>4
<1>6. ASSUME NEW i \in DOMAIN feed.filed
      PROVE  /\ IsFiniteSet(RowsOf(i, done)) /\ RowsOf(i, done) # {}
             /\ Cardinality(RowsOf(i, done)) = Cardinality(DOMAIN feed.filed[i])
  <2> DEFINE quarters == DOMAIN feed.filed[i]
             f == [q \in quarters |-> RowOf(i, q, done)]
  <2>1. IsFiniteSet(quarters) /\ quarters # {}
    BY FiledFacts
  <2>2. RowsOf(i, done) = {f[q] : q \in quarters} /\ quarters \subseteq DOMAIN f
    BY DEF RowsOf
  <2>3. \A q, p \in quarters : f[q] = f[p] => q = p
    BY <1>2
  <2> HIDE DEF f, quarters
  <2>4. IsFiniteSet(RowsOf(i, done)) /\ Cardinality(RowsOf(i, done)) = Cardinality(quarters)
    BY <2>1, <2>2, <2>3, ImageCount
  <2>5. RowsOf(i, done) # {}
    BY <2>1, <2>2
  <2> QED BY <2>4, <2>5 DEF quarters
<1> QED BY <1>1, <1>4, <1>5, <1>6


\* A year is complete if it has three quarters on file; years stay apart in the rows.
LEMMA CompleteFacts ==
  ASSUME IntakeOk, NEW done
  PROVE  LET full == {i \in DOMAIN feed.filed : Cardinality(DOMAIN feed.filed[i]) >= 3}
             rows == Fundamentals(done)
         IN  /\ IsFiniteSet(full)
             /\ Cardinality(CompleteYears(rows)) = Cardinality(full)
             /\ Cardinality({s \in CompleteYears(rows) : Rising(s)})
                  = Cardinality({i \in full : Rising(RowsOf(i, done))})
<1> DEFINE full == {i \in DOMAIN feed.filed : Cardinality(DOMAIN feed.filed[i]) >= 3}
           rows == Fundamentals(done)
           f == [i \in DOMAIN feed.filed |-> RowsOf(i, done)]
           risen == {i \in full : Rising(RowsOf(i, done))}
<1>1. IsFiniteSet(DOMAIN feed.filed)
  BY FiledFacts
<1>2. IsFiniteSet(full) /\ full \subseteq DOMAIN feed.filed
  BY <1>1, FS_Subset
<1>3. IsFiniteSet(risen) /\ risen \subseteq full
  BY <1>2, FS_Subset
<1>4. /\ \A r \in rows : r.fiscal_year \in DOMAIN feed.filed /\ r \in RowsOf(r.fiscal_year, done)
      /\ \A i \in DOMAIN feed.filed :
           /\ RowsOf(i, done) = {r \in rows : r.fiscal_year = i} /\ RowsOf(i, done) # {}
           /\ Cardinality(RowsOf(i, done)) = Cardinality(DOMAIN feed.filed[i])
  BY RowFacts
<1> HIDE DEF rows
<1>5. \A i, j \in DOMAIN feed.filed : f[i] = f[j] => i = j
  BY <1>4
<1>6. {r.fiscal_year : r \in rows} = DOMAIN feed.filed
  BY <1>4
<1>7. CompleteYears(rows) = {f[i] : i \in full}
  <2> DEFINE years == DOMAIN feed.filed
  <2>1. \A i \in years : f[i] = {r \in rows : r.fiscal_year = i}
    BY <1>4
  <2>2. \A i \in years : i \in full <=> Cardinality(f[i]) >= 3
    BY <1>4
  <2> HIDE DEF f
  <2>3. CompleteYears(rows) = {series \in {{r \in rows : r.fiscal_year = year} : year \in years} :
                                 Cardinality(series) >= 3}
    BY <1>6, Zenon DEF CompleteYears
  <2> HIDE DEF full, years
  <2>4. \A s : s \in CompleteYears(rows) <=> \E i \in years : s = f[i] /\ Cardinality(s) >= 3
    <3> DEFINE of(i) == {r \in rows : r.fiscal_year = i}
               all == {of(i) : i \in years}
    <3>1. CompleteYears(rows) = {s \in all : Cardinality(s) >= 3}
      BY <2>3, Zenon
    <3>2. \A i \in years : f[i] = of(i)
      BY <2>1
    <3> HIDE DEF of
    <3>3. \A s : s \in all <=> \E i \in years : s = of(i)
      OBVIOUS
    <3> HIDE DEF all
    <3>4. \A s : s \in CompleteYears(rows) <=> s \in all /\ Cardinality(s) >= 3
      BY <3>1
    <3> QED BY <3>2, <3>3, <3>4
  <2>5. \A s : s \in CompleteYears(rows) <=> \E i \in full : s = f[i]
    BY <1>2, <2>2, <2>4 DEF years
  <2> QED BY <2>5
<1>8. {s \in CompleteYears(rows) : Rising(s)} = {f[i] : i \in risen}
  BY <1>2, <1>7
<1>9. full \subseteq DOMAIN f /\ risen \subseteq DOMAIN f
  BY <1>2
<1> HIDE DEF f, full, risen
<1>10. Cardinality({f[i] : i \in full}) = Cardinality(full)
  BY <1>2, <1>5, <1>9, ImageCount
<1>11. Cardinality({f[i] : i \in risen}) = Cardinality(risen)
  <2>1. \A i, j \in risen : f[i] = f[j] => i = j
    BY <1>2, <1>3, <1>5
  <2> QED BY <1>3, <1>9, <2>1, ImageCount
<1> QED BY <1>2, <1>7, <1>8, <1>10, <1>11 DEF rows, full, risen

\* Year-to-date flows that do not rise tell of a quarter that brought in nothing or less.
LEMMA FlatYears ==
  ASSUME IntakeOk, NEW done, "differenced" \notin done, NEW i \in DOMAIN feed.filed,
         ~Rising(RowsOf(i, done))
  PROVE  \E q \in DOMAIN feed.filed[i] : /\ feed.filed[i][q].flow <= 0
                                         /\ \E p \in DOMAIN feed.filed[i] : p < q
<1> DEFINE year == feed.filed[i]
           D == DOMAIN year
           flow == [p \in D |-> year[p].flow]
           UpTo(q) == {p \in D : p <= q}
<1>1. IsFiniteSet(D) /\ D \subseteq Int /\ \A q \in D : flow[q] \in Int /\ flow[q] = year[q].flow
  BY FiledFacts
<1>2. \A q \in D : /\ RowOf(i, q, done).fiscal_quarter = q
                   /\ RowOf(i, q, done).operating_cash_flow = SumFunctionOnSet(flow, UpTo(q))
  BY DEF RowOf, Flow
<1>3. PICK q \in D, p \in D : p < q /\ ~(SumFunctionOnSet(flow, UpTo(p)) < SumFunctionOnSet(flow, UpTo(q)))
  <2> HIDE DEF flow, UpTo
  <2>1. PICK r \in RowsOf(i, done), s \in RowsOf(i, done) :
           /\ r.fiscal_quarter < s.fiscal_quarter
           /\ ~(r.operating_cash_flow < s.operating_cash_flow)
    BY DEF Rising
  <2>2. PICK p \in D : r = RowOf(i, p, done)
    BY DEF RowsOf
  <2>3. PICK q \in D : s = RowOf(i, q, done)
    BY DEF RowsOf
  <2> QED BY <1>2, <2>1, <2>2, <2>3
<1> SUFFICES ASSUME \A k \in D : p < k => flow[k] > 0 PROVE FALSE
  <2>1. PICK k \in D : p < k /\ ~(flow[k] > 0)
    OBVIOUS
  <2>2. year[k].flow <= 0
    BY <1>1, <2>1
  <2> QED BY <2>1, <2>2
<1>4. /\ IsFiniteSet(UpTo(q)) /\ UpTo(p) \in SUBSET UpTo(q) /\ UpTo(p) # UpTo(q)
      /\ \A k \in UpTo(q) : flow[k] \in Int
      /\ \A k \in UpTo(q) \ UpTo(p) : flow[k] > 0
  <2>1. UpTo(q) \subseteq D
    OBVIOUS
  <2>2. IsFiniteSet(UpTo(q))
    <3> HIDE DEF UpTo, D
    <3> QED BY <1>1, <2>1, FS_Subset
  <2> HIDE DEF flow
  <2>3. \A k \in D : k \in Int
    BY <1>1
  <2>4. UpTo(p) \in SUBSET UpTo(q) /\ q \in UpTo(q) /\ q \notin UpTo(p)
    BY <1>3, <2>3
  <2>5. \A k \in UpTo(q) \ UpTo(p) : k \in D /\ p < k
    BY <2>3
  <2> HIDE DEF UpTo, D
  <2> QED BY <1>1, <2>1, <2>2, <2>4, <2>5
<1> HIDE DEF UpTo, flow
<1> QED BY <1>3, <1>4, SumGrows

\* Report dates that are all a month's last day betray themselves; no rows betray nothing.
LEMMA LagFacts ==
  ASSUME NEW rows
  PROVE  /\ rows = {} => FundamentalsLaggedToRdq(rows)
         /\ IsFiniteSet(rows) /\ rows # {} /\ (\A r \in rows : r.month_end)
              => ~FundamentalsLaggedToRdq(rows)
<1> DEFINE ends == {r \in rows : r.month_end}
<1>1. FundamentalsLaggedToRdq(rows) <=> 2 * Cardinality(ends) <= Cardinality(rows)
  BY Zenon DEF FundamentalsLaggedToRdq
<1>2. rows = {} => ends = {}
  OBVIOUS
<1>3. (\A r \in rows : r.month_end) => ends = rows
  BY Zenon
<1> HIDE DEF ends
<1>4. IsFiniteSet(rows) /\ rows # {} => Cardinality(rows) \in Nat /\ Cardinality(rows) # 0
  BY FS_CardinalityType, FS_EmptySet
<1>5. Cardinality({}) = 0
  BY FS_EmptySet
<1> QED BY <1>1, <1>2, <1>3, <1>4, <1>5

\* A clean certificate cannot be had with a step left out that the data needed.
LEMMA CertificateProves == DeskInv => CertificateIsEvidence
<1> SUFFICES ASSUME IntakeOk,
                    NEW done \in SUBSET {"absolute", "merged", "lagged", "differenced", "filtered"}
             PROVE
        LET full == {i \in DOMAIN feed.filed : Cardinality(DOMAIN feed.filed[i]) >= 3}
            flat == {i \in full : \E q \in DOMAIN feed.filed[i] :
                       /\ feed.filed[i][q].flow <= 0
                       /\ \E p \in DOMAIN feed.filed[i] : p < q}
        IN  /\ RequireClean(Certificate(done)) =>
                 /\ "merged" \in done
                 /\ "absolute" \in done \/ feed.prices \subseteq Nat
                 /\ "filtered" \in done \/ feed.links = <<>>
                 /\ feed.filed # <<>> => /\ "lagged" \in done
                                         /\ Cardinality(full) >= MIN_FIRM_YEARS
                                         /\ "differenced" \in done
                                            \/ 2 * Cardinality(flat) >= Cardinality(full)
            /\ {"absolute", "merged"} \subseteq done /\ feed.prices # {}
               /\ feed.filed = <<>> /\ feed.links = <<>> => RequireClean(Certificate(done))
  BY DEF CertificateIsEvidence, DeskInv
<1> DEFINE full == {i \in DOMAIN feed.filed : Cardinality(DOMAIN feed.filed[i]) >= 3}
           flat == {i \in full : \E q \in DOMAIN feed.filed[i] :
                       /\ feed.filed[i][q].flow <= 0
                       /\ \E p \in DOMAIN feed.filed[i] : p < q}
           risen == {i \in full : Rising(RowsOf(i, done))}
           rows == Fundamentals(done)
           usable == IF "filtered" \in done THEN Links(TRUE) ELSE Len(feed.links)
           rejected == IF "filtered" \in done THEN Links(FALSE) ELSE 0
<1>1. RequireClean(Certificate(done)) <=>
        /\ PricesAbsoluteValued(Prices(done)) /\ "merged" \in done
        /\ FundamentalsLaggedToRdq(rows) /\ YtdItemsDifferenced(rows)
        /\ CcmLinkFiltered(usable, rejected)
  <2>1. ("merged" \in done) \in BOOLEAN
    OBVIOUS
  <2> QED BY <2>1, CleanFacts, Zenon DEF Certificate
<1>2. /\ IsFiniteSet(full)
      /\ Cardinality(CompleteYears(rows)) = Cardinality(full)
      /\ Cardinality({s \in CompleteYears(rows) : Rising(s)}) = Cardinality(risen)
  BY CompleteFacts
<1>3. /\ feed.filed \in Seq(FirmYears) /\ feed.links \in Seq(BOOLEAN) /\ feed.prices \subseteq {5, -6}
  BY DEF IntakeOk
<1>4. ASSUME feed.filed # <<>> PROVE IsFiniteSet(rows) /\ rows # {}
  <2>1. 1 \in DOMAIN feed.filed
    BY <1>3, <1>4, EmptySeq, LenProperties
  <2>2. RowsOf(1, done) # {} /\ rows = UNION {RowsOf(i, done) : i \in DOMAIN feed.filed}
    BY <2>1, RowFacts
  <2>3. IsFiniteSet(rows)
    <3> DEFINE f == [i \in DOMAIN feed.filed |-> RowsOf(i, done)]
               series == {f[i] : i \in DOMAIN feed.filed}
    <3>0. \A i \in DOMAIN feed.filed :
            RowsOf(i, done) # {} /\ \A r \in RowsOf(i, done) : r.fiscal_year = i
      <4>1. \A i \in DOMAIN feed.filed : RowsOf(i, done) # {}
        BY RowFacts
      <4>2. \A i, q : RowOf(i, q, done).fiscal_year = i
        BY DEF RowOf
      <4>3. \A i \in DOMAIN feed.filed : \A r \in RowsOf(i, done) : r.fiscal_year = i
        BY <4>2 DEF RowsOf
      <4> QED BY <4>1, <4>3
    <3>1. \A i, j \in DOMAIN feed.filed : f[i] = f[j] => i = j
      <4>1. \A i \in DOMAIN feed.filed : f[i] # {} /\ \A r \in f[i] : r.fiscal_year = i
        BY <3>0
      <4> HIDE DEF f
      <4> QED BY <4>1
    <3>2. IsFiniteSet(DOMAIN feed.filed)
      BY FiledFacts
    <3>3. IsFiniteSet(series)
      <4>1. DOMAIN feed.filed \subseteq DOMAIN f
        OBVIOUS
      <4> HIDE DEF f
      <4> QED BY <3>1, <3>2, <4>1, ImageCount
    <3>4. \A s \in series : IsFiniteSet(s)
      BY RowFacts
    <3>5. rows = UNION series
      BY <2>2
    <3> HIDE DEF series, rows
    <3> QED BY <3>3, <3>4, <3>5, FS_UNION
  <2> QED BY <2>1, <2>2, <2>3
<1>5. ASSUME "lagged" \notin done, feed.filed # <<>> PROVE ~FundamentalsLaggedToRdq(rows)
  <2>1. \A r \in rows : r \in RowsOf(r.fiscal_year, done)
    BY RowFacts
  <2>2. \A i, q : RowOf(i, q, done).month_end = TRUE
    BY <1>5 DEF RowOf
  <2>3. \A r \in rows : r.month_end
    BY <2>1, <2>2 DEF RowsOf
  <2> QED BY <1>4, <1>5, <2>3, LagFacts
<1>6. ASSUME "differenced" \notin done, 2 * Cardinality(risen) <= Cardinality(full)
      PROVE  2 * Cardinality(flat) >= Cardinality(full)
  <2>1. risen \subseteq full /\ flat \subseteq full
    OBVIOUS
  <2>2. full \ risen \subseteq flat
    BY <1>6, FlatYears
  <2> HIDE DEF risen, flat, full
  <2>3. IsFiniteSet(flat) /\ IsFiniteSet(risen) /\ IsFiniteSet(full \ risen)
    BY <1>2, <2>1, FS_Subset
  <2>4. Cardinality(full \ risen) = Cardinality(full) - Cardinality(risen)
    <3>1. full \cap risen = risen
      BY <2>1
    <3> QED BY <1>2, <3>1, FS_Difference
  <2>5. Cardinality(full \ risen) <= Cardinality(flat)
    BY <2>2, <2>3, FS_Subset
  <2>6. /\ Cardinality(full) \in Nat /\ Cardinality(risen) \in Nat /\ Cardinality(flat) \in Nat
    BY <1>2, <2>3, FS_CardinalityType
  <2> QED BY <1>6, <2>4, <2>5, <2>6
<1>7. ASSUME "filtered" \notin done, CcmLinkFiltered(usable, rejected) PROVE feed.links = <<>>
  <2>1. Len(feed.links) \in Nat /\ (Len(feed.links) = 0 => feed.links = <<>>)
    BY <1>3, EmptySeq, LenProperties
  <2> QED BY <1>7, <2>1 DEF CcmLinkFiltered
<1>8. ASSUME {"absolute", "merged"} \subseteq done, feed.prices # {}, feed.filed = <<>>, feed.links = <<>>
      PROVE  /\ PricesAbsoluteValued(Prices(done)) /\ FundamentalsLaggedToRdq(rows)
             /\ YtdItemsDifferenced(rows) /\ CcmLinkFiltered(usable, rejected)
  <2>1. DOMAIN feed.filed = {} /\ DOMAIN feed.links = {} /\ Len(feed.links) = 0
    BY <1>8, EmptySeq
  <2>2. rows = {}
    BY <2>1, RowFacts
  <2>3. \A v : Links(v) = 0
    <3>1. \A v : {i \in DOMAIN feed.links : feed.links[i] = v} = {}
      BY <2>1
    <3> QED BY <3>1, FS_EmptySet DEF Links
  <2>4. PricesAbsoluteValued(Prices(done))
    BY <1>3, <1>8 DEF PricesAbsoluteValued, Prices
  <2>5. FundamentalsLaggedToRdq(rows) /\ YtdItemsDifferenced(rows)
    BY <2>2, LagFacts DEF YtdItemsDifferenced
  <2>6. CcmLinkFiltered(usable, rejected)
    <3>1. usable = 0 /\ rejected = 0
      BY <2>1, <2>3
    <3> HIDE DEF usable, rejected
    <3> QED BY <3>1 DEF CcmLinkFiltered
  <2> QED BY <2>4, <2>5, <2>6
<1>9. PricesAbsoluteValued(Prices(done)) => "absolute" \in done \/ feed.prices \subseteq Nat
  BY <1>3 DEF PricesAbsoluteValued, Prices
<1>10. YtdItemsDifferenced(rows) /\ feed.filed # <<>> =>
         Cardinality(full) >= MIN_FIRM_YEARS /\ 2 * Cardinality(risen) <= Cardinality(full)
  <2> HIDE DEF rows, full, risen
  <2> QED BY <1>2, <1>4 DEF YtdItemsDifferenced
<1> HIDE DEF rows, full, risen, usable, rejected
<1> QED BY <1>1, <1>5, <1>6, <1>7, <1>8, <1>9, <1>10 DEF full

\* Whatever a pipeline took in, the certificate is evidence of the steps that its data
\* needed, for any number of years required (hygiene.py certify).
THEOREM TheCertificateIsEvidence == Spec => []CertificateIsEvidence
BY DeskInvariant, CertificateProves, PTL



--------------------------------------------------------------------------------
(* Rank correlations: whole numbers, the same from either side                  *)

\* A sum depends only on what is summed.
LEMMA SameSum ==
  ASSUME NEW S, IsFiniteSet(S), NEW f, \A x \in S : f[x] \in Int,
         NEW g, \A x \in S : g[x] = f[x]
  PROVE  SumFunctionOnSet(g, S) = SumFunctionOnSet(f, S)
<1>1. S \in SUBSET S
  OBVIOUS
<1>2. Partial(g, S)[S] = Partial(f, S)[S]
  BY <1>1, PartialAgree
<1> QED BY <1>2, SumIsPartial

LEMMA SumOfFunction ==
  ASSUME NEW f, NEW S, DOMAIN f = S
  PROVE  SumFunction(f) = SumFunctionOnSet(f, S)
BY Zenon DEF SumFunction

LEMMA SumNotNegative ==
  ASSUME NEW S, IsFiniteSet(S), NEW f, \A x \in S : f[x] \in Int /\ f[x] >= 0
  PROVE  SumFunctionOnSet(f, S) \in Int /\ SumFunctionOnSet(f, S) >= 0
<1> DEFINE Sum(s) == SumFunctionOnSet(f, s)
           odd == {s \in SUBSET S : ~(Sum(s) >= 0)}
<1>1. \A s \in SUBSET S : /\ Sum(s) \in Int
                          /\ s = {} => Sum(s) = 0
                          /\ \A x \in s : Sum(s) = f[x] + Sum(s \ {x}) /\ Sum(s \ {x}) \in Int
  BY SubsetSum
<1>2. ASSUME odd # {} PROVE FALSE
  <2>1. PICK s \in odd : \A x \in s : s \ {x} \notin odd
    <3>1. odd \in SUBSET SUBSET S
      OBVIOUS
    <3> HIDE DEF odd
    <3> QED BY <1>2, <3>1, LeastSet
  <2>2. s # {}
    BY <1>1
  <2>3. PICK x \in s : TRUE
    BY <2>2
  <2>4. Sum(s \ {x}) >= 0
    BY <2>1, <2>3
  <2>5. Sum(s) = f[x] + Sum(s \ {x}) /\ Sum(s \ {x}) \in Int /\ f[x] \in Int /\ f[x] >= 0 /\ ~(Sum(s) >= 0)
    BY <1>1, <2>3
  <2> HIDE DEF Sum
  <2> QED BY <2>4, <2>5
<1>3. S \in SUBSET S
  OBVIOUS
<1> QED BY <1>1, <1>2, <1>3

\* Elements may be summed under other names.
LEMMA SumRenamed ==
  ASSUME NEW S, IsFiniteSet(S), NEW f, NEW g, NEW name, S \subseteq DOMAIN name,
         \A x \in S : f[x] \in Int /\ f[x] = g[name[x]],
         \A x, y \in S : name[x] = name[y] => x = y
  PROVE  SumFunctionOnSet(f, S) = SumFunctionOnSet(g, {name[x] : x \in S})
<1> DEFINE T == {name[x] : x \in S}
           Image(s) == {name[x] : x \in s}
           odd == {s \in SUBSET S : SumFunctionOnSet(f, s) # SumFunctionOnSet(g, Image(s))}
<1>1. IsFiniteSet(T)
  BY ImageCount
<1>2. \A v \in T : g[v] \in Int
  OBVIOUS
<1>3. \A s \in SUBSET S : Image(s) \in SUBSET T
  OBVIOUS
<1>4. \A s \in SUBSET S, x \in S : x \in s => name[x] \in Image(s) /\ Image(s \ {x}) = Image(s) \ {name[x]}
  OBVIOUS
<1>5. \A s \in SUBSET S : s = {} => Image(s) = {}
  OBVIOUS
<1>6. ASSUME odd # {} PROVE FALSE
  <2>1. PICK s \in odd : \A x \in s : s \ {x} \notin odd
    <3>1. odd \in SUBSET SUBSET S
      OBVIOUS
    <3> HIDE DEF odd
    <3> QED BY <1>6, <3>1, LeastSet
  <2> HIDE DEF T, Image
  <2>2. s # {}
    <3>1. SumFunctionOnSet(f, {}) = 0 /\ SumFunctionOnSet(g, {}) = 0
      BY FS_EmptySet, SumFacts
    <3> QED BY <1>5, <2>1, <3>1
  <2>3. PICK x \in s : TRUE
    BY <2>2
  <2>4. SumFunctionOnSet(f, s) = f[x] + SumFunctionOnSet(f, s \ {x})
    BY <2>3, SubsetSum
  <2>5. SumFunctionOnSet(g, Image(s)) = g[name[x]] + SumFunctionOnSet(g, Image(s) \ {name[x]})
    <3>1. Image(s) \in SUBSET T /\ name[x] \in Image(s)
      BY <1>3, <1>4, <2>3
    <3> QED BY <1>1, <1>2, <3>1, SubsetSum
  <2>6. SumFunctionOnSet(f, s \ {x}) = SumFunctionOnSet(g, Image(s \ {x}))
    BY <2>1, <2>3
  <2>7. Image(s \ {x}) = Image(s) \ {name[x]} /\ f[x] = g[name[x]]
    BY <1>4, <2>3
  <2> QED BY <2>1, <2>4, <2>5, <2>6, <2>7
<1>7. S \in SUBSET S
  OBVIOUS
<1>8. SumFunctionOnSet(f, S) = SumFunctionOnSet(g, Image(S))
  BY <1>6, <1>7
<1> QED BY <1>8

\* How many names are below one: from none to all but one, each number once if no two
\* names share a value.
Below(x, t) == Cardinality({u \in DOMAIN x : x[u] < x[t]})

LEMMA BelowFacts ==
  ASSUME NEW x, CrossSection(x), \A s, t \in DOMAIN x : x[s] = x[t] => s = t
  PROVE  /\ \A s, t \in DOMAIN x : Below(x, s) = Below(x, t) => s = t
         /\ {Below(x, t) : t \in DOMAIN x} = 0..(Cardinality(DOMAIN x) - 1)
<1> DEFINE D == DOMAIN x
           n == Cardinality(D)
           Under(t) == {u \in D : x[u] < x[t]}
           place == [t \in D |-> Cardinality(Under(t))]
<1>1. IsFiniteSet(D) /\ n \in Nat /\ \A t \in D : x[t] \in Int
  BY FS_CardinalityType DEF CrossSection
<1>2. \A t \in D : IsFiniteSet(Under(t)) /\ Cardinality(Under(t)) \in Nat
  BY <1>1, FS_Subset, FS_CardinalityType
<1>3. ASSUME NEW s \in D, NEW t \in D, x[s] < x[t] PROVE Cardinality(Under(s)) < Cardinality(Under(t))
  <2>1. Under(s) \subseteq Under(t) /\ s \in Under(t) /\ s \notin Under(s)
    BY <1>1, <1>3
  <2> HIDE DEF Under
  <2>2. /\ Cardinality(Under(s)) <= Cardinality(Under(t))
        /\ Cardinality(Under(s)) = Cardinality(Under(t)) => Under(s) = Under(t)
    BY <1>2, <2>1, FS_Subset
  <2> QED BY <1>2, <2>1, <2>2
<1>4. \A s, t \in D : place[s] = place[t] => s = t
  <2> SUFFICES ASSUME NEW s \in D, NEW t \in D, s # t PROVE Cardinality(Under(s)) # Cardinality(Under(t))
    OBVIOUS
  <2>1. x[s] < x[t] \/ x[t] < x[s]
    BY <1>1
  <2>2. Cardinality(Under(s)) < Cardinality(Under(t)) \/ Cardinality(Under(t)) < Cardinality(Under(s))
    BY <1>3, <2>1
  <2> HIDE DEF Under
  <2> QED BY <1>2, <2>2
<1>5. \A t \in D : Cardinality(Under(t)) \in 0..(n - 1)
  <2> SUFFICES ASSUME NEW t \in D PROVE Cardinality(Under(t)) \in 0..(n - 1)
    OBVIOUS
  <2>1. Under(t) \subseteq D /\ t \notin Under(t)
    BY <1>1
  <2> HIDE DEF Under
  <2>2. Cardinality(Under(t)) <= n /\ (n = Cardinality(Under(t)) => D = Under(t))
    BY <1>1, <2>1, FS_Subset
  <2> HIDE DEF D, n
  <2> QED BY <1>1, <1>2, <2>1, <2>2
<1> DEFINE image == {place[t] : t \in D}
<1>6. IsFiniteSet(0..(n - 1)) /\ Cardinality(0..(n - 1)) = n
  <2> HIDE DEF n
  <2>1. 0 \in Int /\ n - 1 \in Int /\ (0 > n - 1 => n = 0)
    BY <1>1
  <2>2. IsFiniteSet(0..(n - 1)) /\ Cardinality(0..(n - 1)) = IF 0 > n - 1 THEN 0 ELSE (n - 1) - 0 + 1
    BY <2>1, FS_Interval
  <2> QED BY <1>1, <2>1, <2>2
<1>7. image = 0..(n - 1)
  <2>1. image \in SUBSET (0..(n - 1))
    BY <1>5
  <2>2. Cardinality(image) = n
    <3>1. D \subseteq DOMAIN place
      OBVIOUS
    <3> HIDE DEF place
    <3> QED BY <1>1, <1>4, <3>1, ImageCount
  <2> HIDE DEF image
  <2> QED BY <1>6, <2>1, <2>2, FS_Subset
<1>8. \A t \in D : place[t] = Below(x, t)
  BY DEF Below
<1> HIDE DEF place
<1>9. image = {Below(x, t) : t \in D}
  BY <1>8
<1> QED BY <1>4, <1>7, <1>8, <1>9

LEMMA RankFacts ==
  ASSUME NEW x, CrossSection(x), NEW t \in DOMAIN x
  PROVE  /\ TwiceRanks(x)[t] \in Int
         /\ (\A s, u \in DOMAIN x : x[s] = x[u] => s = u) => TwiceRanks(x)[t] = 2 * Below(x, t) + 2
         /\ (\A s, u \in DOMAIN x : x[s] = x[u]) => TwiceRanks(x)[t] = Cardinality(DOMAIN x) + 1
<1> DEFINE D == DOMAIN x
           under == {u \in D : x[u] < x[t]}
           level == {u \in D : x[u] = x[t]}
<1>1. IsFiniteSet(D) /\ \A u \in D : x[u] \in Int
  BY DEF CrossSection
<1>2. under \in SUBSET D /\ level \in SUBSET D
  OBVIOUS
<1>3. TwiceRanks(x)[t] = 2 * Cardinality(under) + Cardinality(level) + 1
  BY DEF TwiceRanks
<1>4. (\A s, u \in D : x[s] = x[u] => s = u) => level = {t}
  OBVIOUS
<1>5. (\A s, u \in D : x[s] = x[u]) => level = D /\ under = {}
  BY <1>1
<1>6. Below(x, t) = Cardinality(under)
  BY DEF Below
<1> HIDE DEF under, level, D
<1>7. Cardinality(under) \in Nat /\ Cardinality(level) \in Nat /\ Cardinality(D) \in Nat
  BY <1>1, <1>2, FS_Subset, FS_CardinalityType
<1>8. Cardinality({t}) = 1 /\ Cardinality({}) = 0
  BY FS_Singleton, FS_EmptySet
<1>9. TwiceRanks(x)[t] \in Int
  BY <1>3, <1>7
<1>10. level = {t} => TwiceRanks(x)[t] = 2 * Below(x, t) + 2
  BY <1>3, <1>6, <1>7, <1>8
<1>11. level = D /\ under = {} => TwiceRanks(x)[t] = Cardinality(D) + 1
  BY <1>3, <1>7, <1>8
<1> QED BY <1>4, <1>5, <1>9, <1>10, <1>11 DEF D


\* The sum of the squared deviations of n different ranks.
Spread(n) == SumFunctionOnSet([k \in 0..(n - 1) |-> (2 * k + 1 - n) * (2 * k + 1 - n)], 0..(n - 1))

LEMMA MomentFacts ==
  ASSUME NEW x, CrossSection(x), NEW y, CrossSection(y), DOMAIN x = DOMAIN y
  PROVE  /\ CrossMoment(x, y) \in Int
         /\ CrossMoment(x, y) = CrossMoment(y, x)
         /\ CrossMoment(x, x) \in Int /\ CrossMoment(x, x) >= 0
<1> DEFINE D == DOMAIN x
           n == Cardinality(D)
           Dev(z, t) == TwiceRanks(z)[t] - (n + 1)
           Products(v, w) == [t \in D |-> Dev(v, t) * Dev(w, t)]
<1>1. IsFiniteSet(D) /\ n \in Nat
  BY FS_CardinalityType DEF CrossSection
<1>2. \A t \in D : TwiceRanks(x)[t] \in Int /\ TwiceRanks(y)[t] \in Int
  BY RankFacts
<1>3. \A t \in D : Dev(x, t) \in Int /\ Dev(y, t) \in Int
  <2> HIDE DEF n, D
  <2> QED BY <1>1, <1>2
<1>4. /\ CrossMoment(x, y) = SumFunction(Products(x, y))
      /\ CrossMoment(y, x) = SumFunction(Products(y, x))
      /\ CrossMoment(x, x) = SumFunction(Products(x, x))
  BY Zenon DEF CrossMoment
<1> HIDE DEF Dev
<1>5. Products(x, y) = Products(y, x)
  BY <1>3
<1>6. \A t \in D : /\ Products(x, y)[t] = Dev(x, t) * Dev(y, t)
                   /\ Products(x, x)[t] = Dev(x, t) * Dev(x, t)
  OBVIOUS
<1>7. DOMAIN Products(x, y) = D /\ DOMAIN Products(x, x) = D
  OBVIOUS
<1> HIDE DEF Products
<1>8. \A t \in D : Products(x, y)[t] \in Int
  BY <1>3, <1>6
<1>9. \A t \in D : Products(x, x)[t] \in Int /\ Products(x, x)[t] >= 0
  <2>1. \A i \in Int : i * i \in Int /\ i * i >= 0
    OBVIOUS
  <2> QED BY <1>3, <1>6, <2>1
<1>10. SumFunction(Products(x, y)) \in Int
  BY <1>1, <1>7, <1>8, SumFacts, SumOfFunction
<1>11. SumFunction(Products(x, x)) \in Int /\ SumFunction(Products(x, x)) >= 0
  BY <1>1, <1>7, <1>9, SumNotNegative, SumOfFunction
<1> QED BY <1>4, <1>5, <1>10, <1>11

LEMMA MomentSize ==
  ASSUME NEW x, CrossSection(x), CrossMoment(x, x) # 0
  PROVE  CrossMoment(x, x) = Spread(Cardinality(DOMAIN x))
<1> DEFINE D == DOMAIN x
           n == Cardinality(D)
           f == [t \in D |-> (TwiceRanks(x)[t] - (n + 1)) * (TwiceRanks(x)[t] - (n + 1))]
           g == [k \in 0..(n - 1) |-> (2 * k + 1 - n) * (2 * k + 1 - n)]
           place == [t \in D |-> Below(x, t)]
<1>1. IsFiniteSet(D) /\ n \in Nat
  BY FS_CardinalityType DEF CrossSection
<1>2. CrossMoment(x, x) = SumFunctionOnSet(f, D)
  <2>1. CrossMoment(x, x) = SumFunction(f)
    BY Zenon DEF CrossMoment
  <2>2. DOMAIN f = D
    OBVIOUS
  <2> HIDE DEF f
  <2> QED BY <2>1, <2>2, SumOfFunction
<1>3. CASE \A s, t \in D : x[s] = x[t]
  <2>1. \A t \in D : TwiceRanks(x)[t] = n + 1
    BY <1>3, RankFacts
  <2>2. \A t \in D : f[t] = 0
    <3> HIDE DEF n
    <3> QED BY <1>1, <2>1
  <2>3. f = [t \in D |-> 0]
    <3>1. f = [t \in D |-> f[t]]
      OBVIOUS
    <3> HIDE DEF f
    <3> QED BY <2>2, <3>1
  <2>4. SumFunction([t \in D |-> 0]) = 0 * n
    <3>1. \A c \in Int : SumFunction([t \in D |-> c]) = c * Cardinality(D)
      BY <1>1, ConstantSum
    <3>2. 0 \in Int
      OBVIOUS
    <3> QED BY <3>1, <3>2, Zenon
  <2>5. SumFunction(f) = SumFunctionOnSet(f, D)
    <3>1. DOMAIN f = D
      OBVIOUS
    <3> HIDE DEF f
    <3> QED BY <3>1, SumOfFunction
  <2> HIDE DEF f, n
  <2>6. 0 * n = 0
    <3>1. \A i \in Nat : 0 * i = 0
      OBVIOUS
    <3> QED BY <1>1, <3>1
  <2> QED BY <1>2, <2>3, <2>4, <2>5, <2>6
<1>4. CASE \A s, t \in D : x[s] = x[t] => s = t
  <2>1. \A t \in D : TwiceRanks(x)[t] = 2 * Below(x, t) + 2
    BY <1>4, RankFacts
  <2>2. /\ \A s, t \in D : place[s] = place[t] => s = t
        /\ {place[t] : t \in D} = 0..(n - 1)
    <3>1. /\ \A s, t \in D : Below(x, s) = Below(x, t) => s = t
          /\ {Below(x, t) : t \in D} = 0..(n - 1)
      BY <1>4, BelowFacts
    <3>2. {place[t] : t \in D} = {Below(x, t) : t \in D}
      OBVIOUS
    <3> QED BY <3>1, <3>2
  <2>3. \A t \in D : place[t] = Below(x, t) /\ place[t] \in 0..(n - 1)
    BY <2>2
  <2>4. \A t \in D : f[t] = (TwiceRanks(x)[t] - (n + 1)) * (TwiceRanks(x)[t] - (n + 1))
    OBVIOUS
  <2>5. \A k \in 0..(n - 1) : g[k] = (2 * k + 1 - n) * (2 * k + 1 - n)
    OBVIOUS
  <2>6. D \subseteq DOMAIN place
    OBVIOUS
  <2> HIDE DEF f, g, place, n
  <2>7. \A t \in D : f[t] \in Int /\ f[t] = g[place[t]]
    <3> SUFFICES ASSUME NEW t \in D PROVE f[t] \in Int /\ f[t] = g[place[t]]
      OBVIOUS
    <3>1. place[t] \in Int /\ TwiceRanks(x)[t] - (n + 1) = 2 * place[t] + 1 - n
      BY <1>1, <2>1, <2>3
    <3>2. f[t] = (2 * place[t] + 1 - n) * (2 * place[t] + 1 - n)
      BY <2>4, <3>1
    <3>3. g[place[t]] = (2 * place[t] + 1 - n) * (2 * place[t] + 1 - n)
      BY <2>3, <2>5
    <3>4. 2 * place[t] + 1 - n \in Int
      BY <1>1, <3>1
    <3> QED BY <3>2, <3>3, <3>4
  <2>8. SumFunctionOnSet(f, D) = SumFunctionOnSet(g, {place[t] : t \in D})
    BY <1>1, <2>2, <2>6, <2>7, SumRenamed
  <2> QED BY <1>2, <2>2, <2>8 DEF Spread, g, n
<1> QED BY <1>3, <1>4 DEF CrossSection

LEMMA SpearmanFacts ==
  ASSUME NEW x, CrossSection(x), NEW y, CrossSection(y), DOMAIN x = DOMAIN y
  PROVE  /\ SpearmanIc(x, y) = SpearmanIc(y, x)
         /\ SpearmanIc(x, y) # NoIc => SpearmanIc(x, y) \in Int
<1>1. /\ CrossMoment(x, y) \in Int /\ CrossMoment(x, y) = CrossMoment(y, x)
      /\ CrossMoment(x, x) \in Int /\ CrossMoment(x, x) >= 0
  BY MomentFacts
<1>2. CrossMoment(x, x) # 0 /\ CrossMoment(y, y) # 0 => CrossMoment(x, x) = CrossMoment(y, y)
  BY MomentSize
<1>3. CrossMoment(x, x) # 0 => (IcUnit * CrossMoment(x, y)) \div CrossMoment(x, x) \in Int
  <2>1. \A a, b \in Int : b > 0 => (IcUnit * a) \div b \in Int
    BY DEF IcUnit
  <2> QED BY <1>1, <2>1
<1> QED BY <1>1, <1>2, <1>3 DEF SpearmanIc

LEMMA DateIcFacts ==
  ASSUME NEW x, CrossSection(x), NEW y, CrossSection(y)
  PROVE  /\ DateIc(x, y) = DateIc(y, x)
         /\ DateIc(x, y) # NoIc => DateIc(x, y) \in Int
<1> DEFINE common == DOMAIN x \cap DOMAIN y
<1>1. \A z, s : CrossSection(z) /\ s \subseteq DOMAIN z
                  => CrossSection(Restrict(z, s)) /\ DOMAIN Restrict(z, s) = s
  <2> SUFFICES ASSUME NEW z, CrossSection(z), NEW s, s \subseteq DOMAIN z
               PROVE  CrossSection(Restrict(z, s)) /\ DOMAIN Restrict(z, s) = s
    OBVIOUS
  <2>1. IsFiniteSet(s)
    BY FS_Subset DEF CrossSection
  <2>2. DOMAIN Restrict(z, s) = s /\ \A t \in s : Restrict(z, s)[t] = z[t]
    BY DEF Restrict
  <2> QED BY <2>1, <2>2 DEF CrossSection
<1>2. common = DOMAIN y \cap DOMAIN x
  OBVIOUS
<1>3. /\ CrossSection(Restrict(x, common)) /\ CrossSection(Restrict(y, common))
      /\ DOMAIN Restrict(x, common) = DOMAIN Restrict(y, common)
  BY <1>1
<1>4. /\ DateIc(x, y) = IF Cardinality(common) < MinCrossSection THEN NoIc
                        ELSE SpearmanIc(Restrict(x, common), Restrict(y, common))
      /\ DateIc(y, x) = IF Cardinality(common) < MinCrossSection THEN NoIc
                        ELSE SpearmanIc(Restrict(y, common), Restrict(x, common))
  BY <1>2, Zenon DEF DateIc
<1> HIDE DEF common
<1> QED BY <1>3, <1>4, SpearmanFacts

\* What signals and labels are.
SignalOk(a) == IsFiniteSet(DOMAIN a) /\ \A day \in DOMAIN a : CrossSection(a[day])

LEMMA DailyFacts ==
  ASSUME NEW a, SignalOk(a), NEW b, SignalOk(b)
  PROVE  /\ IsFiniteSet(DOMAIN DailyIcs(a, b))
         /\ \A d \in DOMAIN DailyIcs(a, b) : DailyIcs(a, b)[d] \in Int
         /\ DailyIcs(a, b) = DailyIcs(b, a)
<1> DEFINE days == {d \in DOMAIN a \cap DOMAIN b : DateIc(a[d], b[d]) # NoIc}
           sayd == {d \in DOMAIN b \cap DOMAIN a : DateIc(b[d], a[d]) # NoIc}
<1>1. \A d \in DOMAIN a \cap DOMAIN b :
        /\ DateIc(a[d], b[d]) = DateIc(b[d], a[d])
        /\ DateIc(a[d], b[d]) # NoIc => DateIc(a[d], b[d]) \in Int
  BY DateIcFacts DEF SignalOk
<1>2. days = sayd
  BY <1>1
<1>3. DailyIcs(a, b) = [d \in days |-> DateIc(a[d], b[d])]
  BY Zenon DEF DailyIcs
<1>4. DailyIcs(b, a) = [d \in sayd |-> DateIc(b[d], a[d])]
  BY Zenon DEF DailyIcs
<1>5. IsFiniteSet(days)
  BY FS_Subset DEF SignalOk
<1>6. \A d \in days : DateIc(a[d], b[d]) = DateIc(b[d], a[d]) /\ DateIc(a[d], b[d]) \in Int
  BY <1>1
<1> HIDE DEF days, sayd
<1>7. [d \in days |-> DateIc(a[d], b[d])] = [d \in sayd |-> DateIc(b[d], a[d])]
  BY <1>2, <1>6
<1> QED BY <1>3, <1>4, <1>5, <1>6, <1>7

LEMMA SignalsAreOk ==
  ASSUME DeskInv, kind = "signals"
  PROVE  /\ \A i \in DOMAIN feed : SignalOk(feed[i])
         /\ SignalOk(Labels)
         /\ Len(feed) \in Nat /\ DOMAIN feed = 1..Len(feed)
<1>1. feed \in Seq(Signals)
  BY DEF DeskInv
<1>2. Len(feed) \in Nat /\ DOMAIN feed = 1..Len(feed) /\ \A i \in DOMAIN feed : feed[i] \in Signals
  BY <1>1, LenProperties, ElementOfSeq
<1> QED BY <1>2, SignalsAssumption DEF SignalOk



--------------------------------------------------------------------------------
(* The weights of two signals earn                                              *)

\* A square of a mixture is not negative, nor is a sum of such squares.
LEMMA MixedSquares ==
  ASSUME NEW S, IsFiniteSet(S), NEW a, NEW b, \A d \in S : a[d] \in Int /\ b[d] \in Int,
         NEW A \in Int, NEW B \in Int
  PROVE  LET Sum(f) == SumFunctionOnSet(f, S)
             aa == Sum([d \in S |-> a[d] * a[d]])
             ab == Sum([d \in S |-> a[d] * b[d]])
             bb == Sum([d \in S |-> b[d] * b[d]])
         IN  /\ aa \in Int /\ ab \in Int /\ bb \in Int
             /\ A * A * bb - 2 * (A * B * ab) + B * B * aa >= 0
<1> DEFINE fa == [d \in S |-> a[d] * a[d]]
           fb == [d \in S |-> b[d] * b[d]]
           fm == [d \in S |-> a[d] * b[d]]
           Sum(f, s) == SumFunctionOnSet(f, s)
           Mix(s) == A * A * Sum(fb, s) - 2 * (A * B * Sum(fm, s)) + B * B * Sum(fa, s)
           odd == {s \in SUBSET S : ~(Mix(s) >= 0)}
<1>1. \A d \in S : /\ fa[d] = a[d] * a[d] /\ fb[d] = b[d] * b[d] /\ fm[d] = a[d] * b[d]
  OBVIOUS
<1> HIDE DEF fa, fb, fm
<1>2. \A d \in S : fa[d] \in Int /\ fb[d] \in Int /\ fm[d] \in Int
  BY <1>1
<1>3. \A s \in SUBSET S : /\ Sum(fa, s) \in Int /\ Sum(fb, s) \in Int /\ Sum(fm, s) \in Int
                          /\ s = {} => Sum(fa, s) = 0 /\ Sum(fb, s) = 0 /\ Sum(fm, s) = 0
  BY <1>2, SubsetSum
<1>4. \A s \in SUBSET S : \A x \in s :
        /\ Sum(fa, s) = fa[x] + Sum(fa, s \ {x}) /\ Sum(fb, s) = fb[x] + Sum(fb, s \ {x})
        /\ Sum(fm, s) = fm[x] + Sum(fm, s \ {x})
        /\ s \ {x} \in SUBSET S
  <2>1. \A f, g : (f = fa \/ f = fb \/ f = fm) /\ g = f => \A d \in S : g[d] \in Int
    BY <1>2
  <2>2. ASSUME NEW f, f = fa \/ f = fb \/ f = fm, NEW s \in SUBSET S, NEW x \in s
        PROVE  SumFunctionOnSet(f, s) = f[x] + SumFunctionOnSet(f, s \ {x})
    BY <2>1, <2>2, SubsetSum
  <2> QED BY <2>2
<1>5. ASSUME odd # {} PROVE FALSE
  <2>1. PICK s \in odd : \A x \in s : s \ {x} \notin odd
    <3>1. odd \in SUBSET SUBSET S
      OBVIOUS
    <3> HIDE DEF odd
    <3> QED BY <1>5, <3>1, LeastSet
  <2> HIDE DEF Sum
  <2>2. s # {}
    <3> SUFFICES ASSUME s = {} PROVE FALSE
      OBVIOUS
    <3>1. Sum(fa, s) = 0 /\ Sum(fb, s) = 0 /\ Sum(fm, s) = 0
      BY <1>3, <2>1
    <3>2. Mix(s) = A * A * 0 - 2 * (A * B * 0) + B * B * 0
      BY <3>1
    <3>3. A * A * 0 = 0 /\ A * B * 0 = 0 /\ B * B * 0 = 0
      OBVIOUS
    <3>4. ~(Mix(s) >= 0)
      BY <2>1
    <3> HIDE DEF Mix
    <3> QED BY <3>2, <3>3, <3>4
  <2>3. PICK x \in s : TRUE
    BY <2>2
  <2> DEFINE r == s \ {x}
  <2>4. Mix(r) >= 0
    <3>1. r \in SUBSET S /\ r \notin odd
      BY <1>4, <2>1, <2>3
    <3> QED BY <3>1
  <2>5. /\ Sum(fa, s) = a[x] * a[x] + Sum(fa, r) /\ Sum(fb, s) = b[x] * b[x] + Sum(fb, r)
        /\ Sum(fm, s) = a[x] * b[x] + Sum(fm, r)
        /\ Sum(fa, r) \in Int /\ Sum(fb, r) \in Int /\ Sum(fm, r) \in Int
        /\ a[x] \in Int /\ b[x] \in Int
    BY <1>1, <1>3, <1>4, <2>1, <2>3
  <2> HIDE DEF r
  <2>6. \A p, q, u, v, w \in Int :
          A * A * (q * q + v) - 2 * (A * B * (p * q + w)) + B * B * (p * p + u)
            = (A * q - B * p) * (A * q - B * p) + (A * A * v - 2 * (A * B * w) + B * B * u)
    OBVIOUS
  <2>7. \A i, j \in Int : j >= 0 => i * i + j >= 0
    OBVIOUS
  <2>8. Mix(s) = (A * b[x] - B * a[x]) * (A * b[x] - B * a[x]) + Mix(r)
    BY <2>5, <2>6
  <2>9. A * b[x] - B * a[x] \in Int /\ Mix(r) \in Int
    BY <2>5
  <2>10. ~(Mix(s) >= 0)
    BY <2>1
  <2> HIDE DEF Mix
  <2> QED BY <2>4, <2>7, <2>8, <2>9, <2>10
<1>6. S \in SUBSET S
  OBVIOUS
<1>7. Mix(S) >= 0
  BY <1>5, <1>6
<1> QED BY <1>3, <1>6, <1>7 DEF fa, fb, fm

LEMMA WeightsPay ==
  ASSUME NEW a, NEW b, IsFiniteSet(DOMAIN a \cap DOMAIN b), Ridge \in Nat \ {0},
         \A d \in DOMAIN a \cap DOMAIN b : a[d] \in Int /\ b[d] \in Int,
         Cardinality(DOMAIN a \cap DOMAIN b) >= 2,
         SumFunctionOnSet(a, DOMAIN a \cap DOMAIN b) # 0
           \/ SumFunctionOnSet(b, DOMAIN a \cap DOMAIN b) # 0
  PROVE  OptimalWeights(a, b)[1] * SumFunctionOnSet(a, DOMAIN a \cap DOMAIN b)
           + OptimalWeights(a, b)[2] * SumFunctionOnSet(b, DOMAIN a \cap DOMAIN b) > 0
<1> DEFINE S == DOMAIN a \cap DOMAIN b
           m == Cardinality(S)
           A == SumFunctionOnSet(a, S)
           B == SumFunctionOnSet(b, S)
           aa == SumFunctionOnSet([d \in S |-> a[d] * a[d]], S)
           ab == SumFunctionOnSet([d \in S |-> a[d] * b[d]], S)
           bb == SumFunctionOnSet([d \in S |-> b[d] * b[d]], S)
           ridge == Ridge * m * (m - 1)
           first == (m * bb - B * B + ridge) * A - (m * ab - A * B) * B
           second == (m * aa - A * A + ridge) * B - (m * ab - A * B) * A
           mix == A * A * bb - 2 * (A * B * ab) + B * B * aa
<1>1. OptimalWeights(a, b) = IF m < 2 \/ <<first, second>> = <<0, 0>> THEN <<1, 1>>
                             ELSE <<first, second>>
  BY Zenon DEF OptimalWeights
<1>2. m \in Nat /\ m >= 2
  BY FS_CardinalityType
<1>3. A \in Int /\ B \in Int
  BY SumFacts
<1>4. aa \in Int /\ ab \in Int /\ bb \in Int /\ mix >= 0
  <2> HIDE DEF A, B, S
  <2>0. IsFiniteSet(S) /\ \A d \in S : a[d] \in Int /\ b[d] \in Int
    BY DEF S
  <2> QED BY <1>3, <2>0, MixedSquares
<1> HIDE DEF S, m, A, B, aa, ab, bb
<1>5. ridge \in Int /\ ridge > 0
  <2>1. Ridge \in Int /\ Ridge > 0 /\ m > 0 /\ m - 1 > 0 /\ m \in Int
    BY <1>2
  <2>2. \A i, j, k \in Int : i > 0 /\ j > 0 /\ k > 0 => i * j * k > 0 /\ i * j * k \in Int
    OBVIOUS
  <2> QED BY <2>1, <2>2
<1> HIDE DEF ridge
<1>6. first * A + second * B = m * mix + ridge * (A * A + B * B)
  <2>1. \A n, x, y, p, q, r, c \in Int :
          ((n * q - y * y + c) * x - (n * r - x * y) * y) * x
            + ((n * p - x * x + c) * y - (n * r - x * y) * x) * y
          = n * (x * x * q - 2 * (x * y * r) + y * y * p) + c * (x * x + y * y)
    OBVIOUS
  <2>2. m \in Int
    BY <1>2
  <2> QED BY <1>3, <1>4, <1>5, <2>1, <2>2
<1>7. first \in Int /\ second \in Int /\ mix \in Int
  BY <1>2, <1>3, <1>4, <1>5
<1>8. A * A + B * B > 0 /\ A * A + B * B \in Int
  <2>1. \A i, j \in Int : (i # 0 \/ j # 0) => i * i + j * j > 0 /\ i * i + j * j \in Int
    OBVIOUS
  <2>2. A # 0 \/ B # 0
    BY DEF A, B, S
  <2> QED BY <1>3, <2>1, <2>2
<1> HIDE DEF first, second, mix
<1>9. first * A + second * B > 0
  <2>1. \A n, x, c, y \in Int : n > 0 /\ x >= 0 /\ c > 0 /\ y > 0 => n * x + c * y > 0
    OBVIOUS
  <2> QED BY <1>2, <1>4, <1>5, <1>6, <1>7, <1>8, <2>1
<1>10. <<first, second>> # <<0, 0>>
  <2> SUFFICES ASSUME first = 0, second = 0 PROVE FALSE
    OBVIOUS
  <2>1. 0 * A = 0 /\ 0 * B = 0
    BY <1>3
  <2> QED BY <1>9, <2>1
<1>11. OptimalWeights(a, b) = <<first, second>>
  BY <1>1, <1>2, <1>10
<1> QED BY <1>9, <1>11 DEF A, B, S

LEMMA WeightsEarn == DeskInv => CombinationPays
<1> SUFFICES ASSUME DeskInv, kind = "signals", NEW i \in DOMAIN feed, NEW j \in DOMAIN feed
             PROVE
        LET a == DailyIcs(feed[i], Labels)
            b == DailyIcs(feed[j], Labels)
            common == DOMAIN a \cap DOMAIN b
            w == OptimalWeights(a, b)
            Mean(f) == SumFunctionOnSet(f, common)
        IN  Cardinality(common) >= 2 /\ (Mean(a) # 0 \/ Mean(b) # 0)
              => w[1] * Mean(a) + w[2] * Mean(b) > 0
  BY DEF CombinationPays
<1> DEFINE a == DailyIcs(feed[i], Labels)
           b == DailyIcs(feed[j], Labels)
<1>1. SignalOk(feed[i]) /\ SignalOk(feed[j]) /\ SignalOk(Labels)
  BY SignalsAreOk
<1>2. /\ IsFiniteSet(DOMAIN a) /\ \A d \in DOMAIN a : a[d] \in Int
      /\ IsFiniteSet(DOMAIN b) /\ \A d \in DOMAIN b : b[d] \in Int
  BY <1>1, DailyFacts
<1>3. Ridge \in Nat \ {0}
  BY SignalsAssumption
<1> HIDE DEF a, b
<1>4. IsFiniteSet(DOMAIN a \cap DOMAIN b)
  BY <1>2, FS_Subset
<1> SUFFICES ASSUME Cardinality(DOMAIN a \cap DOMAIN b) >= 2,
                    SumFunctionOnSet(a, DOMAIN a \cap DOMAIN b) # 0
                      \/ SumFunctionOnSet(b, DOMAIN a \cap DOMAIN b) # 0
             PROVE  OptimalWeights(a, b)[1] * SumFunctionOnSet(a, DOMAIN a \cap DOMAIN b)
                      + OptimalWeights(a, b)[2] * SumFunctionOnSet(b, DOMAIN a \cap DOMAIN b) > 0
  BY DEF a, b
<1> QED BY <1>2, <1>3, <1>4, WeightsPay



--------------------------------------------------------------------------------
(* What is kept is justified                                                    *)

Turns(priority) == Len(priority) + Len(feed)

\* The loop's results have a first and each is made from the one before.
LEMMA SelectionRuns ==
  ASSUME NEW priority, Turns(priority) \in Nat
  PROVE  \E done :
           /\ SelectSignals(feed, priority) = done[Turns(priority)]
           /\ done[0] = [kept |-> <<>>, dropped |-> <<>>]
           /\ \A k \in 1..Turns(priority) :
                done[k] = IF PassedOver(feed, priority, k) THEN done[k - 1]
                          ELSE Consider(feed, done[k - 1], Ordered(feed, priority)[k])
<1> DEFINE N == Turns(priority)
           Made(I, k) == IF k = 0 THEN [kept |-> <<>>, dropped |-> <<>>]
                         ELSE IF PassedOver(feed, priority, k) THEN I[k - 1]
                         ELSE Consider(feed, I[k - 1], Ordered(feed, priority)[k])
           P(n) == \E I : I = [k \in 0..n |-> Made(I, k)]
           Bad == {n \in Nat : ~P(n)}
<1>1. Bad = {}
  <2> SUFFICES ASSUME Bad # {} PROVE FALSE
    OBVIOUS
  <2> DEFINE m == Min(Bad)
  <2>1. m \in Bad /\ \A n \in Bad : m <= n
    <3> HIDE DEF Bad
    <3>1. Bad \in SUBSET Nat
      BY DEF Bad
    <3> QED BY <3>1, MinFacts
  <2> HIDE DEF m
  <2>2. m \in Nat /\ ~P(m)
    BY <2>1
  <2>3. CASE m = 0
    <3> DEFINE I == [k \in 0..0 |-> [kept |-> <<>>, dropped |-> <<>>]]
    <3>1. \A k \in 0..0 : k = 0
      OBVIOUS
    <3>2. \A k \in 0..0 : Made(I, k) = [kept |-> <<>>, dropped |-> <<>>]
      BY <3>1
    <3> HIDE DEF Made
    <3>3. [k \in 0..0 |-> Made(I, k)] = I
      BY <3>2
    <3>4. P(0)
      BY <3>3, Zenon
    <3> QED BY <2>2, <2>3, <3>4
  <2>4. CASE m # 0
    <3>0. m \in Nat
      <4> HIDE DEF P
      <4> QED BY <2>2
    <3>1. m - 1 \in Nat /\ P(m - 1)
      <4>1. m - 1 \in Nat /\ m - 1 \notin Bad
        <5> HIDE DEF Bad
        <5> QED BY <2>1, <2>2, <2>4
      <4> QED BY <4>1
    <3>2. PICK I : I = [k \in 0..(m - 1) |-> Made(I, k)]
      BY <3>1, Zenon
    <3> DEFINE J == [k \in 0..m |-> Made(I, k)]
    <3>3. \A k \in 0..m : J[k] = Made(I, k)
      OBVIOUS
    <3>4. \A k \in 0..(m - 1) : I[k] = Made(I, k)
      <4> HIDE DEF Made
      <4>1. \A F, f : F = [k \in 0..(m - 1) |-> Made(f, k)] => \A k \in 0..(m - 1) : F[k] = Made(f, k)
        OBVIOUS
      <4> QED BY <3>2, <4>1, Zenon
    <3>5. \A k \in 0..(m - 1) : J[k] = I[k]
      <4>1. \A k \in 0..(m - 1) : k \in 0..m
        BY <3>0
      <4> HIDE DEF Made, J
      <4> QED BY <3>3, <3>4, <4>1
    <3>6. \A k \in 0..m : k # 0 => k - 1 \in 0..(m - 1)
      BY <3>0
    <3> HIDE DEF J
    <3>7. \A k \in 0..m : Made(J, k) = Made(I, k)
      BY <3>5, <3>6
    <3> HIDE DEF Made
    <3>8. J = [k \in 0..m |-> Made(J, k)]
      BY <3>7 DEF J
    <3> QED BY <2>2, <3>8, Zenon
  <2> QED BY <2>3, <2>4
<1>2. P(N)
  BY <1>1
<1> DEFINE done == CHOOSE I : I = [k \in 0..N |-> Made(I, k)]
<1>3. done = [k \in 0..N |-> Made(done, k)]
  BY <1>2, Zenon
<1>4. SelectSignals(feed, priority) = done[N]
  BY Zenon DEF SelectSignals, Turns
<1> HIDE DEF done
<1>5. \A k \in 0..N : done[k] = Made(done, k)
  <2> HIDE DEF Made, N
  <2>1. \A F, f : F = [k \in 0..N |-> Made(f, k)] => \A k \in 0..N : F[k] = Made(f, k)
    OBVIOUS
  <2> QED BY <1>3, <2>1, Zenon
<1>6. 0 \in 0..N /\ \A k \in 1..N : k \in 0..N /\ k # 0
  OBVIOUS
<1>7. done[0] = [kept |-> <<>>, dropped |-> <<>>]
  BY <1>5, <1>6
<1>8. \A k \in 1..N : done[k] = IF PassedOver(feed, priority, k) THEN done[k - 1]
                                ELSE Consider(feed, done[k - 1], Ordered(feed, priority)[k])
  BY <1>5, <1>6
<1> QED BY <1>4, <1>7, <1>8

\* Every signal has one turn, and it is not passed over in it.
LEMMA TurnFacts ==
  ASSUME DeskInv, kind = "signals", NEW priority \in Seq(Nat), IsInjective(priority)
  PROVE  /\ Turns(priority) \in Nat
         /\ \A n \in DOMAIN feed :
              /\ Turn(priority, n) \in 1..Turns(priority)
              /\ Ordered(feed, priority)[Turn(priority, n)] = n
              /\ ~PassedOver(feed, priority, Turn(priority, n))
         /\ \A k \in 1..Turns(priority) : ~PassedOver(feed, priority, k)
              => /\ Ordered(feed, priority)[k] \in DOMAIN feed
                 /\ Turn(priority, Ordered(feed, priority)[k]) = k
<1> DEFINE rest == [i \in DOMAIN feed |-> i]
           p == Len(priority)
           ordered == Ordered(feed, priority)
           first == ToSet(priority)
<1>1. p \in Nat /\ DOMAIN priority = 1..p /\ \A i \in 1..p : priority[i] \in Nat
  BY LenProperties, ElementOfSeq
<1>2. Len(feed) \in Nat /\ DOMAIN feed = 1..Len(feed)
  BY SignalsAreOk
<1>3. rest \in Seq(Nat) /\ Len(rest) = Len(feed) /\ \A i \in 1..Len(feed) : rest[i] = i
  BY <1>2
<1>4. /\ \A k \in 1..p : ordered[k] = priority[k]
      /\ \A k \in (p + 1)..(p + Len(feed)) : ordered[k] = k - p
  <2>1. ordered = priority \o rest
    BY DEF Ordered
  <2> HIDE DEF rest, ordered
  <2>2. /\ \A k \in 1..p : ordered[k] = priority[k]
        /\ \A k \in (p + 1)..(p + Len(feed)) : ordered[k] = rest[k - p]
    BY <1>3, <2>1, ConcatProperties
  <2>3. \A k \in (p + 1)..(p + Len(feed)) : k - p \in 1..Len(feed)
    BY <1>1, <1>2
  <2> QED BY <1>3, <2>2, <2>3
<1>5. \A n \in first : \E i \in 1..p : priority[i] = n
  BY <1>1 DEF ToSet
<1>6. \A i \in 1..p : priority[i] \in first
  BY <1>1 DEF ToSet
<1>7. \A n \in first : Turn(priority, n) \in 1..p /\ priority[Turn(priority, n)] = n
  BY <1>1, <1>5 DEF Turn
<1>8. \A n : n \notin first => Turn(priority, n) = p + n
  BY DEF Turn
<1>9. \A i, j \in 1..p : priority[i] = priority[j] => i = j
  BY <1>1 DEF IsInjective
<1>10. \A k : PassedOver(feed, priority, k) <=> ordered[k] \notin DOMAIN feed \/ (k > p /\ ordered[k] \in first)
  BY DEF PassedOver
<1>11. Turns(priority) = p + Len(feed)
  BY DEF Turns
<1> HIDE DEF p, ordered, first, rest
<1>12. ASSUME NEW n \in DOMAIN feed
       PROVE  /\ Turn(priority, n) \in 1..(p + Len(feed))
              /\ ordered[Turn(priority, n)] = n
              /\ Turn(priority, n) > p => n \notin first
  <2>1. CASE n \in first
    <3>1. Turn(priority, n) \in 1..p /\ priority[Turn(priority, n)] = n
      BY <1>7, <2>1
    <3> QED BY <1>1, <1>2, <1>4, <3>1
  <2>2. CASE n \notin first
    <3>1. Turn(priority, n) = p + n /\ n \in 1..Len(feed)
      BY <1>2, <1>8, <2>2
    <3>2. p + n \in (p + 1)..(p + Len(feed)) /\ (p + n) - p = n
      BY <1>1, <1>2, <3>1
    <3>3. ordered[p + n] = n
      BY <1>4, <3>2
    <3> QED BY <1>1, <1>2, <2>2, <3>1, <3>2, <3>3
  <2> QED BY <2>1, <2>2
<1>13. ASSUME NEW k \in 1..(p + Len(feed)), ~PassedOver(feed, priority, k)
       PROVE  ordered[k] \in DOMAIN feed /\ Turn(priority, ordered[k]) = k
  <2>1. ordered[k] \in DOMAIN feed /\ ~(k > p /\ ordered[k] \in first)
    BY <1>10, <1>13
  <2>2. CASE k <= p
    <3>1. k \in 1..p /\ ordered[k] = priority[k] /\ priority[k] \in first
      BY <1>1, <1>4, <1>6, <2>2
    <3>2. Turn(priority, priority[k]) \in 1..p /\ priority[Turn(priority, priority[k])] = priority[k]
      BY <1>7, <3>1
    <3> QED BY <1>9, <2>1, <3>1, <3>2
  <2>3. CASE k > p
    <3>1. k \in (p + 1)..(p + Len(feed))
      BY <1>1, <1>2, <2>3
    <3>2. ordered[k] = k - p /\ ordered[k] \notin first
      BY <1>4, <2>1, <2>3, <3>1
    <3>3. Turn(priority, ordered[k]) = p + (k - p)
      BY <1>8, <3>2
    <3> QED BY <1>1, <2>1, <3>1, <3>3
  <2> QED BY <1>1, <1>2, <2>2, <2>3
<1>14. p + Len(feed) \in Nat
  BY <1>1, <1>2
<1> QED BY <1>10, <1>11, <1>12, <1>13, <1>14 DEF ordered


\* What has been decided after k turns.
Decided(d, priority, k) ==
    /\ d = [kept |-> d.kept, dropped |-> d.dropped]
    /\ d.kept \in Seq(DOMAIN feed)
    /\ ToSet(d.kept) \cup DOMAIN d.dropped = {n \in DOMAIN feed : Turn(priority, n) <= k}
    /\ ToSet(d.kept) \cap DOMAIN d.dropped = {}
    /\ \A i, j \in DOMAIN d.kept : i < j =>
          /\ Turn(priority, d.kept[i]) < Turn(priority, d.kept[j])
          /\ ~Conflicting(feed[d.kept[j]], feed[d.kept[i]])
    /\ \A n \in DOMAIN d.dropped :
          /\ d.dropped[n] \in ToSet(d.kept)
          /\ Turn(priority, d.dropped[n]) < Turn(priority, n)
          /\ Conflicting(feed[n], feed[d.dropped[n]])

LEMMA KeptFacts ==
  ASSUME NEW S, NEW s \in Seq(S), NEW e \in S
  PROVE  /\ Len(s) \in Nat /\ DOMAIN s = 1..Len(s)
         /\ Append(s, e) \in Seq(S)
         /\ DOMAIN Append(s, e) = 1..(Len(s) + 1)
         /\ Append(s, e)[Len(s) + 1] = e
         /\ \A i \in 1..Len(s) : Append(s, e)[i] = s[i] /\ s[i] \in S
         /\ ToSet(Append(s, e)) = ToSet(s) \cup {e}
<1>1. Len(s) \in Nat /\ DOMAIN s = 1..Len(s) /\ \A i \in 1..Len(s) : s[i] \in S
  BY LenProperties, ElementOfSeq
<1>2. /\ Append(s, e) \in Seq(S) /\ Len(Append(s, e)) = Len(s) + 1
      /\ \A i \in 1..Len(s) : Append(s, e)[i] = s[i]
      /\ Append(s, e)[Len(s) + 1] = e
  BY AppendProperties
<1>3. DOMAIN Append(s, e) = 1..(Len(s) + 1)
  BY <1>2, LenProperties
<1>4. \A i \in 1..(Len(s) + 1) : i \in 1..Len(s) \/ i = Len(s) + 1
  BY <1>1
<1>5. Len(s) + 1 \in 1..(Len(s) + 1) /\ \A i \in 1..Len(s) : i \in 1..(Len(s) + 1)
  BY <1>1
<1>6. ToSet(Append(s, e)) = ToSet(s) \cup {e}
  <2> DEFINE t == Append(s, e)
  <2>1. \A x : x \in ToSet(t) <=> \E i \in 1..(Len(s) + 1) : x = t[i]
    BY <1>3 DEF ToSet
  <2>2. \A x : x \in ToSet(s) <=> \E i \in 1..Len(s) : x = s[i]
    BY <1>1 DEF ToSet
  <2>3. \A i \in 1..Len(s) : t[i] = s[i]
    BY <1>2
  <2>4. t[Len(s) + 1] = e
    BY <1>2
  <2> HIDE DEF t
  <2>5. \A x : x \in ToSet(t) <=> x \in ToSet(s) \/ x = e
    BY <1>4, <1>5, <2>1, <2>2, <2>3, <2>4
  <2>6. ToSet(t) = ToSet(s) \cup {e}
    BY <2>5
  <2> QED BY <2>6 DEF t
<1> QED BY <1>1, <1>2, <1>3, <1>6

LEMMA ConsiderDecides ==
  ASSUME NEW priority, NEW k \in Nat, NEW d, Decided(d, priority, k - 1),
         DOMAIN feed \subseteq Nat, \A n \in DOMAIN feed : Turn(priority, n) \in Nat,
         NEW name \in DOMAIN feed, Turn(priority, name) = k,
         \A n \in DOMAIN feed : Turn(priority, n) = k => n = name
  PROVE  Decided(Consider(feed, d, name), priority, k)
<1> DEFINE conflicts == {i \in DOMAIN d.kept : Conflicting(feed[name], feed[d.kept[i]])}
           next == Consider(feed, d, name)
           more == [n \in DOMAIN d.dropped \cup {name} |->
                      IF n = name THEN d.kept[Min(conflicts)] ELSE d.dropped[n]]
<1>1. d = [kept |-> d.kept, dropped |-> d.dropped] /\ d.kept \in Seq(DOMAIN feed)
  BY DEF Decided
<1>2. ToSet(d.kept) \cup DOMAIN d.dropped = {n \in DOMAIN feed : Turn(priority, n) <= k - 1}
  BY DEF Decided
<1>3. ToSet(d.kept) \cap DOMAIN d.dropped = {}
  BY DEF Decided
<1>4. \A i, j \in DOMAIN d.kept : i < j =>
          /\ Turn(priority, d.kept[i]) < Turn(priority, d.kept[j])
          /\ ~Conflicting(feed[d.kept[j]], feed[d.kept[i]])
  BY DEF Decided
<1>5. \A n \in DOMAIN d.dropped :
          /\ d.dropped[n] \in ToSet(d.kept)
          /\ Turn(priority, d.dropped[n]) < Turn(priority, n)
          /\ Conflicting(feed[n], feed[d.dropped[n]])
  BY DEF Decided
<1>6. /\ Len(d.kept) \in Nat /\ DOMAIN d.kept = 1..Len(d.kept)
      /\ Append(d.kept, name) \in Seq(DOMAIN feed)
      /\ DOMAIN Append(d.kept, name) = 1..(Len(d.kept) + 1)
      /\ Append(d.kept, name)[Len(d.kept) + 1] = name
      /\ \A i \in 1..Len(d.kept) : Append(d.kept, name)[i] = d.kept[i] /\ d.kept[i] \in DOMAIN feed
      /\ ToSet(Append(d.kept, name)) = ToSet(d.kept) \cup {name}
  BY <1>1, KeptFacts
<1>7. {n \in DOMAIN feed : Turn(priority, n) <= k}
        = {n \in DOMAIN feed : Turn(priority, n) <= k - 1} \cup {name}
  <2>1. \A n \in DOMAIN feed : Turn(priority, n) <= k <=> Turn(priority, n) <= k - 1 \/ Turn(priority, n) = k
    OBVIOUS
  <2> QED BY <2>1
<1>8. name \notin ToSet(d.kept) /\ name \notin DOMAIN d.dropped
  <2>1. ~(Turn(priority, name) <= k - 1)
    OBVIOUS
  <2> QED BY <1>2, <2>1
<1>9. \A i \in DOMAIN d.kept : d.kept[i] \in ToSet(d.kept) /\ Turn(priority, d.kept[i]) < k
  <2>1. \A i \in DOMAIN d.kept : d.kept[i] \in ToSet(d.kept)
    BY DEF ToSet
  <2>2. \A n \in ToSet(d.kept) : n \in DOMAIN feed /\ Turn(priority, n) <= k - 1
    BY <1>2
  <2>3. \A n \in ToSet(d.kept) : Turn(priority, n) < k
    BY <2>2
  <2> QED BY <2>1, <2>3
<1>10. CASE conflicts = {}
  <2>1. next = [d EXCEPT !.kept = Append(@, name)]
    BY <1>10 DEF Consider
  <2>2. next = [kept |-> Append(d.kept, name), dropped |-> d.dropped]
    BY <1>1, <2>1
  <2> DEFINE kept == Append(d.kept, name)
  <2>3. next.kept = kept /\ next.dropped = d.dropped
    <3> HIDE DEF next
    <3> QED BY <2>2
  <2>4. \A i, j \in 1..(Len(d.kept) + 1) : i < j =>
          i \in 1..Len(d.kept) /\ (j \in 1..Len(d.kept) \/ j = Len(d.kept) + 1)
    <3>1. \A m \in Nat : \A i, j \in 1..(m + 1) : i < j =>
            i \in 1..m /\ (j \in 1..m \/ j = m + 1)
      OBVIOUS
    <3>2. Len(d.kept) \in Nat
      BY <1>6
    <3> QED BY <3>1, <3>2, Zenon
  <2>5. \A i \in 1..Len(d.kept) : ~Conflicting(feed[name], feed[d.kept[i]])
    BY <1>6, <1>10
  <2> HIDE DEF next, conflicts, kept
  <2>6. \A i, j \in DOMAIN kept : i < j =>
          Turn(priority, kept[i]) < Turn(priority, kept[j]) /\ ~Conflicting(feed[kept[j]], feed[kept[i]])
    <3> SUFFICES ASSUME NEW i \in 1..(Len(d.kept) + 1), NEW j \in 1..(Len(d.kept) + 1), i < j
                 PROVE  /\ Turn(priority, kept[i]) < Turn(priority, kept[j])
                        /\ ~Conflicting(feed[kept[j]], feed[kept[i]])
      BY <1>6 DEF kept
    <3>1. i \in 1..Len(d.kept) /\ kept[i] = d.kept[i]
      BY <1>6, <2>4 DEF kept
    <3>2. CASE j \in 1..Len(d.kept)
      <4>1. kept[j] = d.kept[j]
        BY <1>6, <3>2 DEF kept
      <4> QED BY <1>4, <1>6, <3>1, <3>2, <4>1
    <3>3. CASE j = Len(d.kept) + 1
      <4>1. kept[j] = name
        BY <1>6, <3>3 DEF kept
      <4> QED BY <1>6, <1>9, <2>5, <3>1, <4>1
    <3> QED BY <2>4, <3>2, <3>3
  <2>7. ToSet(kept) \cup DOMAIN d.dropped = {n \in DOMAIN feed : Turn(priority, n) <= k}
    BY <1>2, <1>6, <1>7 DEF kept
  <2>8. ToSet(kept) \cap DOMAIN d.dropped = {} /\ ToSet(d.kept) \subseteq ToSet(kept)
    BY <1>3, <1>6, <1>8 DEF kept
  <2>9. kept \in Seq(DOMAIN feed)
    BY <1>6 DEF kept
  <2>10. next = [kept |-> next.kept, dropped |-> next.dropped]
    BY <2>2, <2>3 DEF kept
  <2>11. Decided(next, priority, k)
    BY <1>5, <2>3, <2>6, <2>7, <2>8, <2>9, <2>10 DEF Decided
  <2> QED BY <2>11 DEF next
<1>11. CASE conflicts # {}
  <2> DEFINE i == Min(conflicts)
  <2>1. i \in conflicts
    <3>1. conflicts \in SUBSET Nat
      BY <1>6
    <3> HIDE DEF conflicts
    <3> QED BY <1>11, <3>1, MinFacts
  <2>2. i \in DOMAIN d.kept /\ Conflicting(feed[name], feed[d.kept[i]])
    BY <2>1
  <2>3. next = [d EXCEPT !.dropped = more]
    BY <1>11 DEF Consider
  <2>4. next = [kept |-> d.kept, dropped |-> more]
    BY <1>1, <2>3
  <2>5. DOMAIN more = DOMAIN d.dropped \cup {name} /\ more[name] = d.kept[i]
    OBVIOUS
  <2>6. \A n \in DOMAIN d.dropped : more[n] = d.dropped[n]
    BY <1>8
  <2>7. next.kept = d.kept /\ next.dropped = more
    <3> HIDE DEF next, more
    <3> QED BY <2>4
  <2> HIDE DEF next, more, i, conflicts
  <2>8. \A n \in DOMAIN more :
          /\ more[n] \in ToSet(d.kept)
          /\ Turn(priority, more[n]) < Turn(priority, n)
          /\ Conflicting(feed[n], feed[more[n]])
    <3> SUFFICES ASSUME NEW n \in DOMAIN more
                 PROVE  /\ more[n] \in ToSet(d.kept)
                        /\ Turn(priority, more[n]) < Turn(priority, n)
                        /\ Conflicting(feed[n], feed[more[n]])
      OBVIOUS
    <3>1. CASE n \in DOMAIN d.dropped
      BY <1>5, <2>6, <3>1
    <3>2. CASE n = name
      BY <1>9, <2>2, <2>5, <3>2
    <3> QED BY <2>5, <3>1, <3>2
  <2>9. ToSet(d.kept) \cup DOMAIN more = {n \in DOMAIN feed : Turn(priority, n) <= k}
    BY <1>2, <1>7, <2>5
  <2>10. ToSet(d.kept) \cap DOMAIN more = {}
    BY <1>3, <1>8, <2>5
  <2>11. next = [kept |-> next.kept, dropped |-> next.dropped]
    BY <2>4, <2>7
  <2>12. Decided(next, priority, k)
    BY <1>1, <1>4, <2>7, <2>8, <2>9, <2>10, <2>11 DEF Decided
  <2> QED BY <2>12 DEF next
<1> QED BY <1>10, <1>11


LEMMA AbsoluteSum ==
  ASSUME NEW S, IsFiniteSet(S), NEW f, \A x \in S : f[x] \in Int
  PROVE  LET g == [x \in S |-> Size(f[x])]
         IN  /\ SumFunctionOnSet(g, S) \in Int
             /\ Size(SumFunctionOnSet(f, S)) <= SumFunctionOnSet(g, S)
<1> DEFINE g == [x \in S |-> Size(f[x])]
           F(s) == SumFunctionOnSet(f, s)
           G(s) == SumFunctionOnSet(g, s)
           odd == {s \in SUBSET S : ~(Size(F(s)) <= G(s))}
<1>1. \A x \in S : g[x] = Size(f[x])
  OBVIOUS
<1> HIDE DEF g
<1>2. \A x \in S : g[x] \in Int
  BY <1>1 DEF Size
<1>3. \A s \in SUBSET S : /\ F(s) \in Int
                          /\ s = {} => F(s) = 0
                          /\ \A x \in s : F(s) = f[x] + F(s \ {x}) /\ F(s \ {x}) \in Int
  BY SubsetSum
<1>4. \A s \in SUBSET S : /\ G(s) \in Int
                          /\ s = {} => G(s) = 0
                          /\ \A x \in s : G(s) = g[x] + G(s \ {x}) /\ G(s \ {x}) \in Int
  BY <1>2, SubsetSum
<1> HIDE DEF F, G
<1>5. ASSUME odd # {} PROVE FALSE
  <2>1. PICK s \in odd : \A x \in s : s \ {x} \notin odd
    <3>1. odd \in SUBSET SUBSET S
      OBVIOUS
    <3> HIDE DEF odd
    <3> QED BY <1>5, <3>1, LeastSet
  <2>2. s # {}
    <3>1. Size(0) = 0
      BY DEF Size
    <3> QED BY <1>3, <1>4, <2>1, <3>1
  <2>3. PICK x \in s : TRUE
    BY <2>2
  <2>4. Size(F(s \ {x})) <= G(s \ {x})
    BY <2>1, <2>3
  <2>5. /\ F(s) = f[x] + F(s \ {x}) /\ F(s \ {x}) \in Int /\ f[x] \in Int
        /\ G(s) = Size(f[x]) + G(s \ {x}) /\ G(s \ {x}) \in Int
        /\ ~(Size(F(s)) <= G(s))
    BY <1>1, <1>3, <1>4, <2>1, <2>3
  <2> QED BY <2>4, <2>5 DEF Size
<1>6. S \in SUBSET S
  OBVIOUS
<1>7. G(S) \in Int /\ Size(F(S)) <= G(S)
  BY <1>4, <1>5, <1>6
<1> QED BY <1>7 DEF F, G, g

LEMMA ConflictFacts ==
  ASSUME NEW a, SignalOk(a), NEW b, SignalOk(b), MaxCorrelation \in Int
  PROVE  /\ Conflicting(a, b) <=> Conflicting(b, a)
         /\ \A existing : b \in existing /\ Conflicting(a, b) => FailsTest6(a, existing)
<1> DEFINE rhos == DailyIcs(a, b)
           days == DOMAIN rhos
           sizes == [d \in days |-> Size(rhos[d])]
<1>1. rhos = DailyIcs(b, a) /\ IsFiniteSet(days) /\ \A d \in days : rhos[d] \in Int
  BY DailyFacts
<1>2. Conflicting(a, b) <=> /\ DOMAIN rhos # {}
                            /\ Size(SumFunction(rhos)) >= MaxCorrelation * Cardinality(DOMAIN rhos)
  BY Zenon DEF Conflicting
<1>3. Conflicting(a, b) <=> Conflicting(b, a)
  BY <1>1, Zenon DEF Conflicting
<1>4. DOMAIN sizes = days
  OBVIOUS
<1>5. \A existing : b \in existing /\ DOMAIN rhos # {}
            /\ SumFunction(sizes) >= MaxCorrelation * Cardinality(DOMAIN rhos) => FailsTest6(a, existing)
  BY Zenon DEF FailsTest6
<1>6. SumFunctionOnSet(sizes, days) \in Int /\ Size(SumFunctionOnSet(rhos, days)) <= SumFunctionOnSet(sizes, days)
  <2> HIDE DEF rhos
  <2> QED BY <1>1, AbsoluteSum
<1> HIDE DEF rhos, sizes
<1>7. SumFunction(sizes) = SumFunctionOnSet(sizes, days) /\ SumFunction(rhos) = SumFunctionOnSet(rhos, days)
  BY <1>4, SumOfFunction
<1>8. SumFunctionOnSet(rhos, days) \in Int /\ Cardinality(days) \in Nat
  BY <1>1, SumFacts, FS_CardinalityType
<1>9. Size(SumFunction(rhos)) >= MaxCorrelation * Cardinality(DOMAIN rhos)
        => SumFunction(sizes) >= MaxCorrelation * Cardinality(DOMAIN rhos)
  <2>1. MaxCorrelation * Cardinality(days) \in Int
    BY <1>8
  <2> HIDE DEF days
  <2>2. Size(SumFunctionOnSet(rhos, days)) \in Int
    BY <1>8 DEF Size
  <2> QED BY <1>6, <1>7, <2>1, <2>2 DEF days
<1> QED BY <1>2, <1>3, <1>5, <1>9

LEMMA PrioritiesAreNumbers == \A priority \in Priorities : priority \in Seq(Nat)
<1> SUFFICES ASSUME NEW priority \in Priorities PROVE priority \in Seq(Nat)
  OBVIOUS
<1>1. PICK m \in 0..2 : priority \in [1..m -> 1..MaxRecords["signals"]]
  BY DEF Priorities, BoundedSeq, SeqOf
<1>2. \A i \in 1..m : priority[i] \in Nat
  <2>1. \A x, n : n \in 1..x => n \in Nat
    OBVIOUS
  <2>2. \A i \in 1..m : priority[i] \in 1..MaxRecords["signals"]
    BY <1>1
  <2> QED BY <2>1, <2>2
<1>3. priority \in [1..m -> Nat] /\ m \in Nat
  BY <1>1, <1>2
<1> QED BY <1>3

Justified(chosen, priority) ==
    LET kept    == ToSet(chosen.kept)
        dropped == DOMAIN chosen.dropped
    IN  /\ kept \cup dropped = DOMAIN feed /\ kept \cap dropped = {}
        /\ \A i, j \in DOMAIN chosen.kept : i < j =>
              /\ Turn(priority, chosen.kept[i]) < Turn(priority, chosen.kept[j])
              /\ ~Conflicting(feed[chosen.kept[i]], feed[chosen.kept[j]])
        /\ \A n \in dropped :
              /\ chosen.dropped[n] \in kept
              /\ Turn(priority, chosen.dropped[n]) < Turn(priority, n)
              /\ Conflicting(feed[n], feed[chosen.dropped[n]])
              /\ FailsTest6(feed[n], {feed[k] : k \in kept})

LEMMA SelectionJustified == DeskInv => SelectionIsJustified
<1>0. (kind = "signals" =>
         \A priority \in Priorities : IsInjective(priority)
            => Justified(SelectSignals(feed, priority), priority))
      => SelectionIsJustified
  BY DEF SelectionIsJustified, Justified
<1> SUFFICES ASSUME DeskInv, kind = "signals",
                    NEW priority \in Priorities, IsInjective(priority)
             PROVE  Justified(SelectSignals(feed, priority), priority)
  BY <1>0
<1>1. priority \in Seq(Nat)
  BY PrioritiesAreNumbers
<1> DEFINE N == Turns(priority)
<1>2. /\ N \in Nat
      /\ \A n \in DOMAIN feed :
           /\ Turn(priority, n) \in 1..N
           /\ Ordered(feed, priority)[Turn(priority, n)] = n
           /\ ~PassedOver(feed, priority, Turn(priority, n))
      /\ \A k \in 1..N : ~PassedOver(feed, priority, k)
           => /\ Ordered(feed, priority)[k] \in DOMAIN feed
              /\ Turn(priority, Ordered(feed, priority)[k]) = k
  BY <1>1, TurnFacts
<1>3. PICK done :
           /\ SelectSignals(feed, priority) = done[N]
           /\ done[0] = [kept |-> <<>>, dropped |-> <<>>]
           /\ \A k \in 1..N :
                done[k] = IF PassedOver(feed, priority, k) THEN done[k - 1]
                          ELSE Consider(feed, done[k - 1], Ordered(feed, priority)[k])
  BY <1>2, SelectionRuns
<1> HIDE DEF N
<1>4. /\ \A i \in DOMAIN feed : SignalOk(feed[i])
      /\ Len(feed) \in Nat /\ DOMAIN feed = 1..Len(feed)
      /\ MaxCorrelation \in Int
  BY SignalsAreOk, SignalsAssumption
<1>5. Decided(done[0], priority, 0)
  <2> DEFINE d == done[0]
  <2>1. d.kept = <<>> /\ d.dropped = <<>> /\ d = [kept |-> d.kept, dropped |-> d.dropped]
    BY <1>3
  <2>2. DOMAIN d.kept = {} /\ DOMAIN d.dropped = {}
    BY <2>1
  <2>3. ToSet(d.kept) = {}
    BY <2>2 DEF ToSet
  <2>4. \A n \in DOMAIN feed : ~(Turn(priority, n) <= 0)
    <3>1. \A m \in Nat : \A i \in 1..m : ~(i <= 0)
      OBVIOUS
    <3> QED BY <1>2, <3>1, Zenon
  <2>5. d.kept \in Seq(DOMAIN feed)
    BY <2>1, EmptySeq
  <2> HIDE DEF d
  <2>6. Decided(d, priority, 0)
    BY <2>1, <2>2, <2>3, <2>4, <2>5 DEF Decided
  <2> QED BY <2>6 DEF d
<1>6. ASSUME NEW k \in 1..N, Decided(done[k - 1], priority, k - 1)
      PROVE  Decided(done[k], priority, k)
  <2>1. CASE PassedOver(feed, priority, k)
    <3>1. \A n \in DOMAIN feed : Turn(priority, n) # k /\ Turn(priority, n) \in Int
      BY <1>2, <2>1
    <3>2. \A n \in DOMAIN feed : Turn(priority, n) <= k <=> Turn(priority, n) <= k - 1
      BY <3>1
    <3>3. {n \in DOMAIN feed : Turn(priority, n) <= k} = {n \in DOMAIN feed : Turn(priority, n) <= k - 1}
      BY <3>2
    <3>4. done[k] = done[k - 1]
      BY <1>3, <2>1
    <3> QED BY <1>6, <3>3, <3>4, Zenon DEF Decided
  <2>2. CASE ~PassedOver(feed, priority, k)
    <3> DEFINE name == Ordered(feed, priority)[k]
    <3>1. done[k] = Consider(feed, done[k - 1], name)
      BY <1>3, <2>2
    <3>2. name \in DOMAIN feed /\ Turn(priority, name) = k
      BY <1>2, <2>2
    <3>3. \A n \in DOMAIN feed : Turn(priority, n) = k => n = name
      BY <1>2
    <3>4. DOMAIN feed \subseteq Nat /\ \A n \in DOMAIN feed : Turn(priority, n) \in Nat
      BY <1>2, <1>4
    <3>5. k \in Nat
      OBVIOUS
    <3> HIDE DEF name
    <3> QED BY <1>6, <3>1, <3>2, <3>3, <3>4, <3>5, ConsiderDecides
  <2> QED BY <2>1, <2>2
<1>7. \A k \in 0..N : Decided(done[k], priority, k)
  <2> DEFINE Bad == {k \in 0..N : ~Decided(done[k], priority, k)}
  <2> SUFFICES ASSUME Bad # {} PROVE FALSE
    OBVIOUS
  <2>1. Bad \in SUBSET Nat
    OBVIOUS
  <2>2. Min(Bad) \in Bad /\ \A k \in Bad : Min(Bad) <= k
    <3> HIDE DEF Bad
    <3> QED BY <2>1, MinFacts
  <2> DEFINE k == Min(Bad)
  <2> HIDE DEF k
  <2>3. k \in 0..N /\ ~Decided(done[k], priority, k) /\ \A j \in Bad : k <= j
    BY <2>2 DEF k
  <2>4. k # 0
    BY <1>5, <2>3
  <2>5. k \in 1..N /\ k - 1 \in 0..N
    BY <1>2, <2>3, <2>4
  <2>6. k - 1 \notin Bad
    <3> HIDE DEF Bad
    <3> QED BY <1>2, <2>3, <2>5
  <2> QED BY <1>6, <2>3, <2>5, <2>6
<1> DEFINE chosen == SelectSignals(feed, priority)
<1>8. Decided(chosen, priority, N)
  BY <1>2, <1>3, <1>7
<1> HIDE DEF chosen
<1>9. \A n \in DOMAIN feed : Turn(priority, n) <= N
  <2>1. \A m \in Nat : \A i \in 1..m : i <= m
    OBVIOUS
  <2> QED BY <1>2, <2>1, Zenon
<1>10. ToSet(chosen.kept) \cup DOMAIN chosen.dropped = DOMAIN feed
  BY <1>8, <1>9 DEF Decided
<1>11. \A i \in DOMAIN chosen.kept : chosen.kept[i] \in DOMAIN feed
  BY <1>10 DEF ToSet
<1>12. \A i, j \in DOMAIN chosen.kept : i < j =>
          /\ Turn(priority, chosen.kept[i]) < Turn(priority, chosen.kept[j])
          /\ ~Conflicting(feed[chosen.kept[i]], feed[chosen.kept[j]])
  <2> SUFFICES ASSUME NEW i \in DOMAIN chosen.kept, NEW j \in DOMAIN chosen.kept, i < j
               PROVE  /\ Turn(priority, chosen.kept[i]) < Turn(priority, chosen.kept[j])
                      /\ ~Conflicting(feed[chosen.kept[i]], feed[chosen.kept[j]])
    OBVIOUS
  <2>1. /\ Turn(priority, chosen.kept[i]) < Turn(priority, chosen.kept[j])
        /\ ~Conflicting(feed[chosen.kept[j]], feed[chosen.kept[i]])
    BY <1>8 DEF Decided
  <2>2. SignalOk(feed[chosen.kept[i]]) /\ SignalOk(feed[chosen.kept[j]])
    BY <1>4, <1>11
  <2> QED BY <1>4, <2>1, <2>2, ConflictFacts
<1>13. \A n \in DOMAIN chosen.dropped :
          /\ chosen.dropped[n] \in ToSet(chosen.kept)
          /\ Turn(priority, chosen.dropped[n]) < Turn(priority, n)
          /\ Conflicting(feed[n], feed[chosen.dropped[n]])
  BY <1>8 DEF Decided
<1>14. \A n \in DOMAIN chosen.dropped :
          FailsTest6(feed[n], {feed[k] : k \in ToSet(chosen.kept)})
  <2> SUFFICES ASSUME NEW n \in DOMAIN chosen.dropped
               PROVE  FailsTest6(feed[n], {feed[k] : k \in ToSet(chosen.kept)})
    OBVIOUS
  <2>1. n \in DOMAIN feed /\ chosen.dropped[n] \in DOMAIN feed
    BY <1>10, <1>13
  <2>2. feed[chosen.dropped[n]] \in {feed[k] : k \in ToSet(chosen.kept)}
    BY <1>13
  <2>3. SignalOk(feed[n]) /\ SignalOk(feed[chosen.dropped[n]])
    BY <1>4, <2>1
  <2> QED BY <1>4, <1>13, <2>2, <2>3, ConflictFacts
<1>15. ToSet(chosen.kept) \cap DOMAIN chosen.dropped = {}
  BY <1>8 DEF Decided
<1>16. Justified(chosen, priority)
  BY <1>10, <1>12, <1>13, <1>14, <1>15, Zenon DEF Justified
<1> QED BY <1>16 DEF chosen



--------------------------------------------------------------------------------
(* A blend is centred, and follows votes that agree                             *)

LEMMA SumAdded ==
  ASSUME NEW S, IsFiniteSet(S), NEW f, NEW g, NEW e,
         \A x \in S : f[x] \in Int /\ g[x] \in Int /\ e[x] = f[x] + g[x]
  PROVE  SumFunctionOnSet(e, S) = SumFunctionOnSet(f, S) + SumFunctionOnSet(g, S)
<1> DEFINE odd == {s \in SUBSET S : SumFunctionOnSet(e, s)
                                      # SumFunctionOnSet(f, s) + SumFunctionOnSet(g, s)}
<1>1. \A x \in S : f[x] \in Int
  OBVIOUS
<1>2. \A x \in S : g[x] \in Int
  OBVIOUS
<1>3. \A x \in S : e[x] \in Int
  OBVIOUS
<1>4. ASSUME odd # {} PROVE FALSE
  <2>1. PICK s \in odd : \A x \in s : s \ {x} \notin odd
    <3>1. odd \in SUBSET SUBSET S
      OBVIOUS
    <3> HIDE DEF odd
    <3> QED BY <1>4, <3>1, LeastSet
  <2>2. s # {}
    <3>1. SumFunctionOnSet(e, {}) = 0 /\ SumFunctionOnSet(f, {}) = 0 /\ SumFunctionOnSet(g, {}) = 0
      BY FS_EmptySet, SumFacts
    <3> QED BY <2>1, <3>1
  <2>3. PICK x \in s : TRUE
    BY <2>2
  <2>10. s \in SUBSET S
    BY <2>1
  <2>4. SumFunctionOnSet(e, s \ {x}) = SumFunctionOnSet(f, s \ {x}) + SumFunctionOnSet(g, s \ {x})
    <3>1. s \ {x} \in SUBSET S /\ s \ {x} \notin odd
      <4> HIDE DEF odd
      <4>1. odd \subseteq SUBSET S
        BY DEF odd
      <4> QED BY <2>1, <2>3, <4>1
    <3> QED BY <3>1, Zenon
  <2>5. SumFunctionOnSet(e, s) = e[x] + SumFunctionOnSet(e, s \ {x})
    <3> HIDE DEF odd
    <3> QED BY <1>3, <2>3, <2>10, SubsetSum
  <2>6. SumFunctionOnSet(f, s) = f[x] + SumFunctionOnSet(f, s \ {x}) /\ SumFunctionOnSet(f, s \ {x}) \in Int
    <3> HIDE DEF odd
    <3> QED BY <1>1, <2>3, <2>10, SubsetSum
  <2>7. SumFunctionOnSet(g, s) = g[x] + SumFunctionOnSet(g, s \ {x}) /\ SumFunctionOnSet(g, s \ {x}) \in Int
    <3> HIDE DEF odd
    <3> QED BY <1>2, <2>3, <2>10, SubsetSum
  <2>8. SumFunctionOnSet(e, s) # SumFunctionOnSet(f, s) + SumFunctionOnSet(g, s)
    BY <2>1
  <2>9. f[x] \in Int /\ g[x] \in Int /\ e[x] = f[x] + g[x]
    BY <2>1, <2>3
  <2> QED BY <2>4, <2>5, <2>6, <2>7, <2>8, <2>9
<1>5. S \in SUBSET S
  OBVIOUS
<1> QED BY <1>4, <1>5

LEMMA SumScaled ==
  ASSUME NEW S, IsFiniteSet(S), NEW c \in Int, NEW f, NEW g,
         \A x \in S : f[x] \in Int /\ g[x] = c * f[x]
  PROVE  SumFunctionOnSet(g, S) = c * SumFunctionOnSet(f, S)
<1> DEFINE odd == {s \in SUBSET S : SumFunctionOnSet(g, s) # c * SumFunctionOnSet(f, s)}
<1>1. \A x \in S : f[x] \in Int
  OBVIOUS
<1>2. \A x \in S : g[x] \in Int
  OBVIOUS
<1>3. ASSUME odd # {} PROVE FALSE
  <2>1. PICK s \in odd : \A x \in s : s \ {x} \notin odd
    <3>1. odd \in SUBSET SUBSET S
      OBVIOUS
    <3> HIDE DEF odd
    <3> QED BY <1>3, <3>1, LeastSet
  <2>2. s # {}
    <3>1. SumFunctionOnSet(f, {}) = 0 /\ SumFunctionOnSet(g, {}) = 0
      BY FS_EmptySet, SumFacts
    <3>2. c * 0 = 0
      OBVIOUS
    <3> QED BY <2>1, <3>1, <3>2
  <2>3. PICK x \in s : TRUE
    BY <2>2
  <2>10. s \in SUBSET S
    BY <2>1
  <2>4. SumFunctionOnSet(g, s \ {x}) = c * SumFunctionOnSet(f, s \ {x})
    <3>1. s \ {x} \in SUBSET S /\ s \ {x} \notin odd
      <4> HIDE DEF odd
      <4>1. odd \subseteq SUBSET S
        BY DEF odd
      <4> QED BY <2>1, <2>3, <4>1
    <3> QED BY <3>1, Zenon
  <2>5. SumFunctionOnSet(f, s) = f[x] + SumFunctionOnSet(f, s \ {x}) /\ SumFunctionOnSet(f, s \ {x}) \in Int
    <3> HIDE DEF odd
    <3> QED BY <1>1, <2>3, <2>10, SubsetSum
  <2>6. SumFunctionOnSet(g, s) = g[x] + SumFunctionOnSet(g, s \ {x})
    <3> HIDE DEF odd
    <3> QED BY <1>2, <2>3, <2>10, SubsetSum
  <2>7. \A i, j \in Int : c * i + c * j = c * (i + j)
    OBVIOUS
  <2>8. f[x] \in Int /\ g[x] = c * f[x]
    BY <2>1, <2>3
  <2>9. SumFunctionOnSet(g, s) = c * SumFunctionOnSet(f, s)
    BY <2>4, <2>5, <2>6, <2>7, <2>8
  <2> QED BY <2>1, <2>9
<1>4. S \in SUBSET S
  OBVIOUS
<1> QED BY <1>3, <1>4

\* What adds nothing may be left out.
LEMMA SumSupport ==
  ASSUME NEW S, IsFiniteSet(S), NEW T \in SUBSET S, NEW f, \A x \in S : f[x] \in Int,
         \A x \in S \ T : f[x] = 0
  PROVE  SumFunctionOnSet(f, S) = SumFunctionOnSet(f, T)
<1> DEFINE odd == {s \in SUBSET S : T \subseteq s /\ SumFunctionOnSet(f, s) # SumFunctionOnSet(f, T)}
<1>1. ASSUME odd # {} PROVE FALSE
  <2>1. PICK s \in odd : \A x \in s : s \ {x} \notin odd
    <3>1. odd \in SUBSET SUBSET S
      OBVIOUS
    <3> HIDE DEF odd
    <3> QED BY <1>1, <3>1, LeastSet
  <2>2. PICK x \in s : x \notin T
    BY <2>1
  <2>3. SumFunctionOnSet(f, s \ {x}) = SumFunctionOnSet(f, T)
    BY <2>1, <2>2
  <2>4. SumFunctionOnSet(f, s) = f[x] + SumFunctionOnSet(f, s \ {x}) /\ SumFunctionOnSet(f, s \ {x}) \in Int
    BY <2>1, <2>2, SubsetSum
  <2>5. f[x] = 0
    BY <2>1, <2>2
  <2> QED BY <2>1, <2>3, <2>4, <2>5
<1> QED BY <1>1

\* Rows first or columns first.
LEMMA SumSwapped ==
  ASSUME NEW S, IsFiniteSet(S), NEW K, IsFiniteSet(K), NEW h,
         \A t \in S, k \in K : h[t][k] \in Int
  PROVE  SumFunctionOnSet([t \in S |-> SumFunctionOnSet(h[t], K)], S)
           = SumFunctionOnSet([k \in K |-> SumFunctionOnSet([t \in S |-> h[t][k]], S)], K)
<1> DEFINE Row(s) == [t \in S |-> SumFunctionOnSet(h[t], s)]
           col == [k \in K |-> SumFunctionOnSet([t \in S |-> h[t][k]], S)]
           odd == {s \in SUBSET K : SumFunctionOnSet(Row(s), S) # SumFunctionOnSet(col, s)}
<1>1. \A k \in K : col[k] \in Int
  <2> SUFFICES ASSUME NEW k \in K PROVE SumFunctionOnSet([t \in S |-> h[t][k]], S) \in Int
    OBVIOUS
  <2>1. \A t \in S : [u \in S |-> h[u][k]][t] \in Int
    OBVIOUS
  <2> QED BY <2>1, SumFacts
<1>2. \A t \in S, s \in SUBSET K :
        /\ SumFunctionOnSet(h[t], s) \in Int
        /\ s = {} => SumFunctionOnSet(h[t], s) = 0
        /\ \A k \in s : SumFunctionOnSet(h[t], s) = h[t][k] + SumFunctionOnSet(h[t], s \ {k})
  <2> SUFFICES ASSUME NEW t \in S PROVE \A s \in SUBSET K :
        /\ SumFunctionOnSet(h[t], s) \in Int
        /\ s = {} => SumFunctionOnSet(h[t], s) = 0
        /\ \A k \in s : SumFunctionOnSet(h[t], s) = h[t][k] + SumFunctionOnSet(h[t], s \ {k})
    OBVIOUS
  <2>1. \A k \in K : h[t][k] \in Int
    OBVIOUS
  <2> QED BY <2>1, SubsetSum
<1>3. ASSUME odd # {} PROVE FALSE
  <2>1. PICK s \in odd : \A k \in s : s \ {k} \notin odd
    <3>1. odd \in SUBSET SUBSET K
      OBVIOUS
    <3> HIDE DEF odd
    <3> QED BY <1>3, <3>1, LeastSet
  <2>2. s # {}
    <3> SUFFICES ASSUME s = {} PROVE FALSE
      OBVIOUS
    <3>1. \A t \in S : Row(s)[t] = 0
      BY <1>2, <2>1
    <3>2. SumFunctionOnSet(Row(s), S) = SumFunctionOnSet(Row(s), {})
      <4> HIDE DEF Row
      <4> QED BY <3>1, SumSupport
    <3>3. SumFunctionOnSet(Row(s), {}) = 0 /\ SumFunctionOnSet(col, {}) = 0
      <4> HIDE DEF Row, col
      <4> QED BY FS_EmptySet, SumFacts
    <3> HIDE DEF Row, col
    <3> QED BY <2>1, <3>2, <3>3
  <2>3. PICK k \in s : TRUE
    BY <2>2
  <2> DEFINE column == [t \in S |-> h[t][k]]
  <2>4. k \in K /\ s \in SUBSET K /\ s \ {k} \in SUBSET K
    BY <2>1, <2>3
  <2>5. \A t \in S : /\ column[t] = h[t][k] /\ column[t] \in Int
                     /\ Row(s)[t] = SumFunctionOnSet(h[t], s)
                     /\ Row(s \ {k})[t] = SumFunctionOnSet(h[t], s \ {k})
    BY <2>4
  <2>6. SumFunctionOnSet(column, S) = col[k]
    BY <2>4
  <2> HIDE DEF Row, col, column
  <2>7. \A t \in S : /\ column[t] \in Int /\ Row(s \ {k})[t] \in Int
                     /\ Row(s)[t] = column[t] + Row(s \ {k})[t]
    BY <1>2, <2>3, <2>4, <2>5
  <2>8. SumFunctionOnSet(Row(s), S) = SumFunctionOnSet(column, S) + SumFunctionOnSet(Row(s \ {k}), S)
    BY <2>7, SumAdded
  <2>9. SumFunctionOnSet(col, s) = col[k] + SumFunctionOnSet(col, s \ {k})
    BY <1>1, <2>3, <2>4, SubsetSum
  <2>10. SumFunctionOnSet(Row(s \ {k}), S) = SumFunctionOnSet(col, s \ {k})
    BY <2>1, <2>3, <2>4
  <2> QED BY <2>1, <2>6, <2>8, <2>9, <2>10
<1>4. K \in SUBSET K
  OBVIOUS
<1> HIDE DEF col
<1>5. SumFunctionOnSet(Row(K), S) = SumFunctionOnSet(col, K)
  BY <1>3, <1>4
<1> QED BY <1>5 DEF col

LEMMA CentredFacts ==
  ASSUME NEW x, CrossSection(x)
  PROVE  /\ \A t \in DOMAIN x : /\ Centred(x)[t] \in Int
                                /\ Centred(x)[t] = Cardinality(DOMAIN x) * x[t] - SumFunction(x)
         /\ SumFunctionOnSet(Centred(x), DOMAIN x) = 0
         /\ Cardinality(DOMAIN x) \in Nat /\ SumFunction(x) \in Int
<1> DEFINE D == DOMAIN x
           n == Cardinality(D)
           V == SumFunction(x)
           up == [t \in D |-> n * x[t]]
           down == [t \in D |-> -V]
           c == Centred(x)
<1>1. IsFiniteSet(D) /\ n \in Nat /\ \A t \in D : x[t] \in Int
  BY FS_CardinalityType DEF CrossSection
<1>2. V = SumFunctionOnSet(x, D) /\ V \in Int
  BY <1>1, SumOfFunction, SumFacts
<1>3. \A t \in D : c[t] = n * x[t] - V /\ up[t] = n * x[t] /\ down[t] = -V
  BY DEF Centred
<1>4. SumFunctionOnSet(down, D) = (-V) * n
  <2>1. \A i \in Int : SumFunction([t \in D |-> i]) = i * Cardinality(D)
    BY <1>1, ConstantSum
  <2>2. -V \in Int
    BY <1>2
  <2>3. SumFunction(down) = (-V) * n
    BY <2>1, <2>2, Zenon
  <2>4. DOMAIN down = D
    OBVIOUS
  <2> HIDE DEF down
  <2> QED BY <2>3, <2>4, SumOfFunction
<1> HIDE DEF up, down, c, n, V
<1>5. SumFunctionOnSet(up, D) = n * V
  <2>1. n \in Int /\ \A t \in D : x[t] \in Int /\ up[t] = n * x[t]
    BY <1>1, <1>3
  <2> QED BY <1>1, <1>2, <2>1, SumScaled
<1>6. \A t \in D : up[t] \in Int /\ down[t] \in Int /\ c[t] = up[t] + down[t]
  BY <1>1, <1>2, <1>3
<1>7. SumFunctionOnSet(c, D) = n * V + (-V) * n
  BY <1>1, <1>4, <1>5, <1>6, SumAdded
<1>8. n * V + (-V) * n = 0
  BY <1>1, <1>2
<1>9. \A t \in D : c[t] \in Int
  BY <1>1, <1>2, <1>3
<1> QED BY <1>1, <1>2, <1>3, <1>7, <1>8, <1>9 DEF c, n, V


\* The parts of combine_signals by name: who scores a day, and what a name gets from one.
Scoring(signals, day) == {k \in DOMAIN signals : day \in DOMAIN signals[k]}
Share(signals, weights, day, k, t) ==
    IF t \in DOMAIN signals[k][day] THEN weights[k] * Centred(signals[k][day])[t] ELSE 0
Blended(signals, weights, day) ==
    [t \in UNION {DOMAIN signals[k][day] : k \in Scoring(signals, day)} |->
       SumFunction([k \in Scoring(signals, day) |-> Share(signals, weights, day, k, t)])]

LEMMA BlendIsBlended ==
  ASSUME NEW signals, NEW weights
  PROVE  /\ DOMAIN CombineSignals(signals, weights)
              = UNION {DOMAIN signals[k] : k \in DOMAIN signals}
         /\ \A day \in UNION {DOMAIN signals[k] : k \in DOMAIN signals} :
              CombineSignals(signals, weights)[day] = Blended(signals, weights, day)
BY DEF CombineSignals, Blended, Scoring, Share

LEMMA ShareFacts ==
  ASSUME NEW signals, \A k \in DOMAIN signals : SignalOk(signals[k]),
         NEW weights, \A k \in DOMAIN signals : weights[k] \in Int,
         NEW day, NEW k \in Scoring(signals, day)
  PROVE  /\ CrossSection(signals[k][day]) /\ IsFiniteSet(DOMAIN signals[k][day])
         /\ \A t : Share(signals, weights, day, k, t) \in Int
<1>1. k \in DOMAIN signals /\ day \in DOMAIN signals[k]
  BY DEF Scoring
<1>2. CrossSection(signals[k][day]) /\ IsFiniteSet(DOMAIN signals[k][day])
  BY <1>1 DEF SignalOk, CrossSection
<1>3. SUFFICES ASSUME NEW t PROVE Share(signals, weights, day, k, t) \in Int
  BY <1>2
<1>4. weights[k] \in Int
  BY <1>1
<1>5. CASE t \in DOMAIN signals[k][day]
  <2>1. Centred(signals[k][day])[t] \in Int
    BY <1>2, <1>5, CentredFacts
  <2>2. Share(signals, weights, day, k, t) = weights[k] * Centred(signals[k][day])[t]
    BY <1>5, Zenon DEF Share
  <2>3. \A i, j \in Int : i * j \in Int
    OBVIOUS
  <2> QED BY <1>4, <2>1, <2>2, <2>3
<1>6. CASE t \notin DOMAIN signals[k][day]
  BY <1>6 DEF Share
<1> QED BY <1>5, <1>6

LEMMA BlendIsCentred ==
  ASSUME NEW signals, IsFiniteSet(DOMAIN signals),
         \A k \in DOMAIN signals : SignalOk(signals[k]),
         NEW weights, \A k \in DOMAIN signals : weights[k] \in Int, NEW day
  PROVE  SumFunction(Blended(signals, weights, day)) = 0
<1> DEFINE K == Scoring(signals, day)
           of(k) == DOMAIN signals[k][day]
           names == UNION {of(k) : k \in K}
           row(t) == [k \in K |-> Share(signals, weights, day, k, t)]
           h == [t \in names |-> row(t)]
           down(k) == [t \in names |-> h[t][k]]
           col == [k \in K |-> SumFunctionOnSet(down(k), names)]
           across == [t \in names |-> SumFunctionOnSet(h[t], K)]
           blend == Blended(signals, weights, day)
<1>1. IsFiniteSet(K)
  <2>1. K \subseteq DOMAIN signals
    BY DEF Scoring
  <2> QED BY <2>1, FS_Subset
<1>2. \A k \in K : /\ CrossSection(signals[k][day]) /\ IsFiniteSet(of(k)) /\ weights[k] \in Int
                   /\ \A t : Share(signals, weights, day, k, t) \in Int
  BY ShareFacts DEF Scoring
<1>3. IsFiniteSet(names)
  <2> HIDE DEF K, of
  <2> DEFINE of_k == [k \in K |-> of(k)]
  <2>1. IsFiniteSet({of_k[k] : k \in K})
    <3>1. of_k \in Surjection(K, {of_k[k] : k \in K})
      BY DEF Surjection
    <3> HIDE DEF of_k
    <3> QED BY <1>1, <3>1, FS_Surjection
  <2>2. {of_k[k] : k \in K} = {of(k) : k \in K} /\ \A s \in {of(k) : k \in K} : IsFiniteSet(s)
    BY <1>2
  <2> HIDE DEF of_k
  <2> QED BY <2>1, <2>2, FS_UNION
<1>4. \A t \in names, k \in K : h[t][k] = Share(signals, weights, day, k, t) /\ h[t][k] \in Int
  <2> HIDE DEF K, names
  <2> QED BY <1>2
<1>5. \A t \in names : SumFunction(row(t)) = SumFunctionOnSet(h[t], K)
  <2> SUFFICES ASSUME NEW t \in names PROVE SumFunction(row(t)) = SumFunctionOnSet(h[t], K)
    OBVIOUS
  <2>1. h[t] = row(t) /\ DOMAIN row(t) = K
    <3> HIDE DEF K, names
    <3> QED OBVIOUS
  <2> HIDE DEF row, h
  <2> QED BY <2>1, SumOfFunction
<1>6. blend = [t \in names |-> SumFunction(row(t))]
  BY DEF Blended
<1>7. blend = across
  <2> HIDE DEF row, h, K, names, blend
  <2> QED BY <1>5, <1>6
<1>8. DOMAIN across = names
  <2> HIDE DEF names, h, K
  <2> QED OBVIOUS
<1>9. SumFunction(blend) = SumFunctionOnSet(across, names)
  <2> HIDE DEF blend, across, names
  <2> QED BY <1>7, <1>8, SumOfFunction
<1>10. SumFunctionOnSet(across, names) = SumFunctionOnSet(col, K)
  <2> HIDE DEF h, K, names
  <2> QED BY <1>1, <1>3, <1>4, SumSwapped
<1>11. \A k \in K : SumFunctionOnSet(down(k), names) = 0
  <2> SUFFICES ASSUME NEW k \in K PROVE SumFunctionOnSet(down(k), names) = 0
    OBVIOUS
  <2> DEFINE d == down(k)
             c == Centred(signals[k][day])
  <2>1. of(k) \in SUBSET names
    OBVIOUS
  <2>2. \A t \in names : d[t] = Share(signals, weights, day, k, t) /\ d[t] \in Int
    <3> HIDE DEF h, K, names
    <3> QED BY <1>4
  <2>3. \A t \in names \ of(k) : d[t] = 0
    <3> HIDE DEF d, K, names
    <3> QED BY <2>2 DEF Share
  <2>4. \A t \in of(k) : d[t] = weights[k] * c[t]
    <3> HIDE DEF d, K, names, c
    <3> QED BY <2>1, <2>2 DEF Share, c
  <2>5. /\ \A t \in of(k) : c[t] \in Int
        /\ SumFunctionOnSet(c, of(k)) = 0
    <3>1. CrossSection(signals[k][day])
      BY <1>2
    <3> QED BY <3>1, CentredFacts
  <2>6. IsFiniteSet(of(k)) /\ weights[k] \in Int
    BY <1>2
  <2> HIDE DEF d, c, K, names, of
  <2>7. SumFunctionOnSet(d, names) = SumFunctionOnSet(d, of(k))
    BY <1>3, <2>1, <2>2, <2>3, SumSupport
  <2>8. SumFunctionOnSet(d, of(k)) = weights[k] * SumFunctionOnSet(c, of(k))
    BY <2>4, <2>5, <2>6, SumScaled
  <2>9. weights[k] * 0 = 0
    BY <2>6
  <2>10. SumFunctionOnSet(d, names) = 0
    BY <2>5, <2>7, <2>8, <2>9
  <2> QED BY <2>10 DEF d
<1>12. SumFunctionOnSet(col, K) = 0
  <2>1. \A k \in K : col[k] = 0
    <3> HIDE DEF down, K, names
    <3> QED BY <1>11
  <2> HIDE DEF col, K
  <2>2. SumFunctionOnSet(col, K) = SumFunctionOnSet(col, {})
    BY <1>1, <2>1, SumSupport
  <2>3. SumFunctionOnSet(col, {}) = 0
    BY FS_EmptySet, SumFacts
  <2> QED BY <2>2, <2>3
<1> QED BY <1>9, <1>10, <1>12

\* Votes that agree on a pair of names are followed.
LEMMA BlendFollows ==
  ASSUME NEW a, SignalOk(a), NEW b, SignalOk(b), NEW w, w[1] \in Int, w[2] \in Int,
         NEW day \in DOMAIN a \cap DOMAIN b, DOMAIN a[day] = DOMAIN b[day],
         NEW x \in DOMAIN a[day], NEW y \in DOMAIN a[day],
         w[1] * (a[day][x] - a[day][y]) \in Nat, w[2] * (b[day][x] - b[day][y]) \in Nat
  PROVE  Blended(<<a, b>>, w, day)[x] >= Blended(<<a, b>>, w, day)[y]
<1> DEFINE D == DOMAIN a[day]
           signals == <<a, b>>
           row(t) == [k \in {1, 2} |-> Share(signals, w, day, k, t)]
           n == Cardinality(D)
           A == SumFunction(a[day])
           B == SumFunction(b[day])
<1>1. DOMAIN signals = {1, 2} /\ signals[1] = a /\ signals[2] = b
  OBVIOUS
<1>2. Scoring(signals, day) = {1, 2}
  BY DEF Scoring
<1>3. UNION {DOMAIN signals[k][day] : k \in Scoring(signals, day)} = D
  BY <1>1, <1>2
<1>4. \A t \in D : Blended(signals, w, day)[t] = SumFunction(row(t))
  <2>1. Blended(signals, w, day) = [t \in D |-> SumFunction([k \in {1, 2} |->
                                                  Share(signals, w, day, k, t)])]
    <3> HIDE DEF signals, D
    <3> QED BY <1>2, <1>3 DEF Blended
  <2> HIDE DEF signals, D
  <2> QED BY <2>1
<1>5. CrossSection(a[day]) /\ CrossSection(b[day])
  BY DEF SignalOk
<1>6. /\ n \in Nat /\ A \in Int /\ B \in Int
      /\ \A t \in D : /\ a[day][t] \in Int /\ b[day][t] \in Int
                      /\ Centred(a[day])[t] = n * a[day][t] - A
                      /\ Centred(b[day])[t] = n * b[day][t] - B
  <2>1. \A t \in D : a[day][t] \in Int /\ b[day][t] \in Int
    BY <1>5 DEF CrossSection
  <2> QED BY <1>5, <2>1, CentredFacts
<1>7. \A t \in D : /\ Share(signals, w, day, 1, t) = w[1] * (n * a[day][t] - A)
                   /\ Share(signals, w, day, 2, t) = w[2] * (n * b[day][t] - B)
  <2> HIDE DEF signals, D, n, A, B
  <2>1. \A t \in D : t \in DOMAIN a[day] /\ t \in DOMAIN b[day]
    BY DEF D
  <2> QED BY <1>1, <1>6, <2>1 DEF Share
<1>8. \A c, m, v, u, s \in Int : c * (m * v - s) \in Int /\ c * (m * v - s) - c * (m * u - s)
                                                          = m * (c * (v - u))
  OBVIOUS
<1>9. \A m, v \in Nat : m * v >= 0
  OBVIOUS
<1>10. x \in D /\ y \in D /\ n \in Int
  BY <1>6
<1> DEFINE Sx == w[1] * (n * a[day][x] - A)
           Sy == w[1] * (n * a[day][y] - A)
           Tx == w[2] * (n * b[day][x] - B)
           Ty == w[2] * (n * b[day][y] - B)
<1>11. \A t \in D : Share(signals, w, day, 1, t) \in Int /\ Share(signals, w, day, 2, t) \in Int
  <2>1. \A t \in D : w[1] * (n * a[day][t] - A) \in Int /\ w[2] * (n * b[day][t] - B) \in Int
    <3> HIDE DEF D, n, A, B
    <3> QED BY <1>6, <1>8, <1>10
  <2> HIDE DEF D, n, A, B, signals
  <2> QED BY <1>7, <2>1
<1>12. \A t \in D : SumFunction(row(t)) = Share(signals, w, day, 1, t) + Share(signals, w, day, 2, t)
  <2> SUFFICES ASSUME NEW t \in D
               PROVE  SumFunction(row(t)) = Share(signals, w, day, 1, t)
                                             + Share(signals, w, day, 2, t)
    OBVIOUS
  <2> DEFINE f == row(t)
  <2>1. /\ DOMAIN f = {1, 2} /\ f[1] = Share(signals, w, day, 1, t)
        /\ f[2] = Share(signals, w, day, 2, t) /\ f[1] \in Int /\ f[2] \in Int
    <3> HIDE DEF D, signals
    <3> QED BY <1>11
  <2> HIDE DEF f
  <2>2. SumFunction(f) = f[1] + f[2]
    <3>1. 1 # 2
      OBVIOUS
    <3> QED BY <2>1, <3>1, PairSum
  <2> HIDE DEF D, signals
  <2> QED BY <2>1, <2>2 DEF f
<1>13. /\ Blended(signals, w, day)[x] = Sx + Tx
       /\ Blended(signals, w, day)[y] = Sy + Ty
  <2> HIDE DEF D, signals, n, A, B, row
  <2> QED BY <1>4, <1>7, <1>10, <1>12
<1>14. Sx \in Int /\ Sx - Sy = n * (w[1] * (a[day][x] - a[day][y])) /\ Sy \in Int
  <2> HIDE DEF D, n, A
  <2> QED BY <1>6, <1>8, <1>10
<1>15. Tx \in Int /\ Tx - Ty = n * (w[2] * (b[day][x] - b[day][y])) /\ Ty \in Int
  <2> HIDE DEF D, n, B
  <2> QED BY <1>6, <1>8, <1>10
<1>16. n * (w[1] * (a[day][x] - a[day][y])) >= 0 /\ n * (w[2] * (b[day][x] - b[day][y])) >= 0
  BY <1>6, <1>9
<1> HIDE DEF Sx, Sy, Tx, Ty, signals, n
<1>17. Sx - Sy >= 0 /\ Tx - Ty >= 0
  BY <1>14, <1>15, <1>16
<1>18. Sx + Tx >= Sy + Ty
  BY <1>14, <1>15, <1>17
<1>19. Blended(signals, w, day)[x] >= Blended(signals, w, day)[y]
  BY <1>13, <1>18
<1> QED BY <1>19 DEF signals


LEMMA BlendsAreFair == DeskInv => BlendIsFair
<1> SUFFICES ASSUME DeskInv, kind = "signals", NEW i \in DOMAIN feed, NEW j \in DOMAIN feed, i # j,
                    NEW w \in (-1..2) \X {1}
             PROVE
        LET blend == CombineSignals(<<feed[i], feed[j]>>, w)
            Scored(n, day) == IF day \in DOMAIN feed[n] THEN DOMAIN feed[n][day] ELSE {}
            Votes(day, x, y) ==
                {w[k] * (feed[<<i, j>>[k]][day][x] - feed[<<i, j>>[k]][day][y]) : k \in 1..2}
        IN  \A day \in DOMAIN blend :
              LET both == Scored(i, day) \cap Scored(j, day)
              IN  /\ DOMAIN blend[day] = Scored(i, day) \cup Scored(j, day)
                  /\ SumFunction(blend[day]) = 0
                  /\ both = DOMAIN blend[day] =>
                       \A x, y \in both :
                          Votes(day, x, y) \subseteq Nat => blend[day][x] >= blend[day][y]
  BY DEF BlendIsFair
<1> DEFINE a == feed[i]
           b == feed[j]
           signals == <<a, b>>
           blend == CombineSignals(<<feed[i], feed[j]>>, w)
           Scored(n, day) == IF day \in DOMAIN feed[n] THEN DOMAIN feed[n][day] ELSE {}
           Votes(day, x, y) ==
             {w[k] * (feed[<<i, j>>[k]][day][x] - feed[<<i, j>>[k]][day][y]) : k \in 1..2}
<1>1. SignalOk(a) /\ SignalOk(b)
  BY SignalsAreOk
<1>2. w[1] \in Int /\ w[2] \in Int
  OBVIOUS
<1>3. DOMAIN signals = {1, 2} /\ signals[1] = a /\ signals[2] = b
  OBVIOUS
<1>4. IsFiniteSet(DOMAIN signals)
  <2>1. IsFiniteSet({1}) /\ IsFiniteSet({1} \cup {2})
    BY FS_Singleton, FS_AddElement
  <2>2. {1} \cup {2} = {1, 2}
    OBVIOUS
  <2> QED BY <1>3, <2>1, <2>2
<1> SUFFICES ASSUME NEW day \in DOMAIN blend
             PROVE  /\ DOMAIN blend[day] = Scored(i, day) \cup Scored(j, day)
                    /\ SumFunction(blend[day]) = 0
                    /\ Scored(i, day) \cap Scored(j, day) = DOMAIN blend[day] =>
                         \A x, y \in Scored(i, day) \cap Scored(j, day) :
                            Votes(day, x, y) \subseteq Nat => blend[day][x] >= blend[day][y]
  OBVIOUS
<1>5. blend[day] = Blended(signals, w, day)
  <2>1. day \in UNION {DOMAIN signals[k] : k \in DOMAIN signals}
    BY BlendIsBlended
  <2> QED BY <2>1, BlendIsBlended
<1>6. DOMAIN blend[day] = Scored(i, day) \cup Scored(j, day)
  <2>1. DOMAIN Blended(signals, w, day)
          = UNION {DOMAIN signals[k][day] : k \in Scoring(signals, day)}
    BY DEF Blended
  <2>2. UNION {DOMAIN signals[k][day] : k \in Scoring(signals, day)}
          = Scored(i, day) \cup Scored(j, day)
    <3> HIDE DEF signals
    <3>1. \A k : k \in Scoring(signals, day) <=> k \in {1, 2} /\ day \in DOMAIN signals[k]
      BY <1>3 DEF Scoring
    <3>2. \A t : t \in UNION {DOMAIN signals[k][day] : k \in Scoring(signals, day)}
                 <=> \E k \in Scoring(signals, day) : t \in DOMAIN signals[k][day]
      OBVIOUS
    <3>3. \A t : t \in UNION {DOMAIN signals[k][day] : k \in Scoring(signals, day)}
                 <=> \/ day \in DOMAIN a /\ t \in DOMAIN a[day]
                     \/ day \in DOMAIN b /\ t \in DOMAIN b[day]
      BY <1>3, <3>1, <3>2
    <3>4. \A t : t \in Scored(i, day) \cup Scored(j, day)
                 <=> \/ day \in DOMAIN a /\ t \in DOMAIN a[day]
                     \/ day \in DOMAIN b /\ t \in DOMAIN b[day]
      OBVIOUS
    <3> QED BY <3>3, <3>4
  <2> QED BY <1>5, <2>1, <2>2
<1>7. SumFunction(blend[day]) = 0
  <2>1. \A k \in DOMAIN signals : SignalOk(signals[k]) /\ w[k] \in Int
    <3> HIDE DEF a, b, signals
    <3> QED BY <1>1, <1>2, <1>3
  <2> HIDE DEF signals, blend
  <2> QED BY <1>4, <1>5, <2>1, BlendIsCentred
<1>8. ASSUME Scored(i, day) \cap Scored(j, day) = DOMAIN blend[day],
             NEW x \in Scored(i, day) \cap Scored(j, day),
             NEW y \in Scored(i, day) \cap Scored(j, day), Votes(day, x, y) \subseteq Nat
      PROVE  blend[day][x] >= blend[day][y]
  <2>1. day \in DOMAIN a \cap DOMAIN b
    OBVIOUS
  <2>2. Scored(i, day) = DOMAIN a[day] /\ Scored(j, day) = DOMAIN b[day]
    BY <2>1
  <2>3. DOMAIN a[day] = DOMAIN b[day] /\ x \in DOMAIN a[day] /\ y \in DOMAIN a[day]
    <3>1. x \in DOMAIN a[day] /\ y \in DOMAIN a[day]
      BY <2>2
    <3>2. Scored(i, day) = Scored(j, day)
      <4> HIDE DEF Scored, blend
      <4> QED BY <1>6, <1>8
    <3> QED BY <2>2, <3>1, <3>2
  <2>4. w[1] * (a[day][x] - a[day][y]) \in Nat /\ w[2] * (b[day][x] - b[day][y]) \in Nat
    <3>1. 1 \in 1..2 /\ 2 \in 1..2 /\ <<i, j>>[1] = i /\ <<i, j>>[2] = j
      OBVIOUS
    <3>2. w[1] * (feed[i][day][x] - feed[i][day][y]) \in Votes(day, x, y)
      BY <3>1
    <3>3. w[2] * (feed[j][day][x] - feed[j][day][y]) \in Votes(day, x, y)
      BY <3>1
    <3> HIDE DEF Votes
    <3> QED BY <1>8, <3>2, <3>3
  <2> HIDE DEF a, b, blend, Scored, Votes
  <2>5. Blended(<<a, b>>, w, day)[x] >= Blended(<<a, b>>, w, day)[y]
    BY <1>1, <1>2, <2>1, <2>3, <2>4, BlendFollows
  <2> QED BY <1>5, <2>5
<1> HIDE DEF blend, Scored, Votes
<1> QED BY <1>6, <1>7, <1>8

\* However many signals came up, and whatever the threshold and the penalty: what is kept is
\* justified, what is weighted pays, and a blend is fair (src/signals/combination).
THEOREM TheCombinationIsJustified == Spec => []CombinationIsJustified
<1>1. DeskInv => CombinationIsJustified
  BY SelectionJustified, WeightsEarn, BlendsAreFair DEF CombinationIsJustified
<1> QED BY <1>1, DeskInvariant, PTL


--------------------------------------------------------------------------------
(* A pass is earned                                                             *)

LEMMA DaysOfMarket ==
  ASSUME RecordsInv, kind = "validation"
  PROVE  /\ Len(feed) \in Nat /\ DOMAIN feed = 1..Len(feed)
         /\ \A i \in DOMAIN feed : feed[i].ic \in Int \cup {NoIc}
<1> DEFINE Day == [move : Int, ic : Int \cup {NoIc}]
<1>1. feed \in Seq(Day)
  BY DEF RecordsInv
<1>2. Len(feed) \in Nat /\ DOMAIN feed = 1..Len(feed) /\ \A i \in DOMAIN feed : feed[i] \in Day
  BY <1>1, LenProperties, ElementOfSeq
<1> QED BY <1>2

LEMMA IcsFacts ==
  ASSUME RecordsInv, kind = "validation"
  PROVE  /\ IsFiniteSet(DOMAIN Ics(feed)) /\ DOMAIN Ics(feed) \subseteq DOMAIN feed
         /\ \A i \in DOMAIN Ics(feed) : /\ Ics(feed)[i] = feed[i].ic /\ Ics(feed)[i] \in Int
                                        /\ feed[i].ic # NoIc
<1> DEFINE scored == {d \in DOMAIN feed : feed[d].ic # NoIc}
<1>1. DOMAIN Ics(feed) = scored /\ \A i \in scored : Ics(feed)[i] = feed[i].ic
  BY DEF Ics
<1>2. IsFiniteSet(scored)
  <2>1. IsFiniteSet(1..Len(feed)) /\ scored \subseteq 1..Len(feed)
    <3>1. Len(feed) \in Int /\ DOMAIN feed = 1..Len(feed)
      BY DaysOfMarket
    <3> QED BY <3>1, FS_Interval
  <2> QED BY <2>1, FS_Subset
<1>3. \A i \in scored : feed[i].ic \in Int
  BY DaysOfMarket
<1> QED BY <1>1, <1>2, <1>3

\* A series that never varies has no dispersion.
LEMMA DispersionVaries ==
  ASSUME NEW s, IsFiniteSet(DOMAIN s), \A i \in DOMAIN s : s[i] \in Int, Dispersion(s) > 0
  PROVE  \E i, j \in DOMAIN s : s[i] # s[j]
<1> SUFFICES ASSUME \A i, j \in DOMAIN s : s[i] = s[j] PROVE FALSE
  OBVIOUS
<1> DEFINE D == DOMAIN s
           n == Cardinality(D)
           sq == [i \in D |-> s[i] * s[i]]
<1>1. n \in Nat /\ Dispersion(s) = n * SumFunction(sq) - SumFunction(s) * SumFunction(s)
  BY FS_CardinalityType DEF Dispersion, NPeriods, Squares, Total
<1>2. CASE D = {}
  <2>1. n = 0
    BY <1>2, FS_EmptySet
  <2>2. SumFunction(s) = 0 /\ SumFunction(sq) = 0
    <3>1. DOMAIN sq = D /\ IsFiniteSet(D)
      OBVIOUS
    <3> HIDE DEF sq
    <3>2. SumFunction(s) = SumFunctionOnSet(s, D) /\ SumFunction(sq) = SumFunctionOnSet(sq, D)
      BY <3>1, SumOfFunction
    <3>3. SumFunctionOnSet(s, {}) = 0 /\ SumFunctionOnSet(sq, {}) = 0
      BY FS_EmptySet, SumFacts
    <3> QED BY <1>2, <3>2, <3>3
  <2> HIDE DEF sq, n
  <2>3. Dispersion(s) = 0
    BY <1>1, <2>1, <2>2
  <2> QED BY <2>3
<1>3. CASE D # {}
  <2>1. PICK d \in D : TRUE
    BY <1>3
  <2> DEFINE c == s[d]
  <2>2. c \in Int /\ \A i \in D : s[i] = c
    BY <2>1
  <2>3. c * c \in Int /\ \A i \in D : sq[i] = c * c
    <3> HIDE DEF c
    <3>1. \A k \in Int : k * k \in Int
      OBVIOUS
    <3> QED BY <2>2, <3>1
  <2>4. \A i \in Int : SumFunctionOnSet([x \in D |-> i], D) = i * n
    <3> SUFFICES ASSUME NEW i \in Int PROVE SumFunctionOnSet([x \in D |-> i], D) = i * n
      OBVIOUS
    <3> DEFINE g == [x \in D |-> i]
    <3>1. SumFunction(g) = i * n
      BY ConstantSum
    <3>2. DOMAIN g = D
      OBVIOUS
    <3> HIDE DEF g
    <3>3. SumFunctionOnSet(g, D) = i * n
      BY <3>1, <3>2, SumOfFunction
    <3> QED BY <3>3 DEF g
  <2>5. SumFunction(s) = c * n
    <3>1. SumFunctionOnSet([x \in D |-> c], D) = c * n
      BY <2>2, <2>4, Zenon
    <3> DEFINE g == [x \in D |-> c]
    <3>2. \A x \in D : g[x] \in Int /\ s[x] = g[x]
      BY <2>2
    <3>3. SumFunctionOnSet(g, D) = c * n
      BY <3>1
    <3> HIDE DEF g, c
    <3>4. SumFunctionOnSet(s, D) = SumFunctionOnSet(g, D)
      BY <3>2, SameSum
    <3> QED BY <3>3, <3>4, SumOfFunction
  <2>6. SumFunction(sq) = (c * c) * n
    <3>1. SumFunctionOnSet([x \in D |-> c * c], D) = (c * c) * n
      BY <2>3, <2>4, Zenon
    <3> DEFINE g == [x \in D |-> c * c]
    <3>2. \A x \in D : g[x] \in Int /\ sq[x] = g[x]
      BY <2>3
    <3>3. SumFunctionOnSet(g, D) = (c * c) * n
      BY <3>1
    <3>4. DOMAIN sq = D
      OBVIOUS
    <3> HIDE DEF g, c, sq
    <3>5. SumFunctionOnSet(sq, D) = SumFunctionOnSet(g, D)
      BY <3>2, SameSum
    <3> QED BY <3>3, <3>4, <3>5, SumOfFunction
  <2> HIDE DEF c, sq, n
  <2>7. \A i, m \in Int : m * ((i * i) * m) - (i * m) * (i * m) = 0
    OBVIOUS
  <2>8. n \in Int
    BY <1>1
  <2>9. Dispersion(s) = n * ((c * c) * n) - (c * n) * (c * n)
    BY <1>1, <2>5, <2>6
  <2>10. n * ((c * c) * n) - (c * n) * (c * n) = 0
    BY <2>2, <2>7, <2>8, Zenon
  <2> QED BY <2>9, <2>10
<1> QED BY <1>2, <1>3

\* A positive sum has a positive part.
LEMMA SumHasPositive ==
  ASSUME NEW s, IsFiniteSet(DOMAIN s), \A i \in DOMAIN s : s[i] \in Int, SumFunction(s) > 0
  PROVE  \E i \in DOMAIN s : s[i] > 0
<1> SUFFICES ASSUME \A i \in DOMAIN s : ~(s[i] > 0) PROVE FALSE
  OBVIOUS
<1> DEFINE D == DOMAIN s
           g == [i \in D |-> -s[i]]
<1>1. \A i \in D : s[i] \in Int /\ g[i] = (-1) * s[i] /\ g[i] \in Int /\ g[i] >= 0
  OBVIOUS
<1> HIDE DEF g
<1>2. SumFunctionOnSet(g, D) >= 0
  BY <1>1, SumNotNegative
<1>3. SumFunctionOnSet(g, D) = (-1) * SumFunctionOnSet(s, D)
  <2>1. -1 \in Int
    OBVIOUS
  <2> QED BY <1>1, <2>1, SumScaled
<1>4. SumFunction(s) = SumFunctionOnSet(s, D) /\ SumFunctionOnSet(s, D) \in Int
  BY SumOfFunction, SumFacts
<1> QED BY <1>2, <1>3, <1>4

LEMMA PositiveBucket ==
  ASSUME RecordsInv, kind = "validation", NEW regime \in PositiveRegimes(feed)
  PROVE  \E i \in DOMAIN feed : /\ feed[i].ic # NoIc /\ feed[i].ic > 0
                                /\ regime \in RegimesOn(feed, i)
<1> DEFINE s == Bucket(feed, regime)
           ics == Ics(feed)
<1>1. /\ DOMAIN s = {i \in DOMAIN ics : regime \in RegimesOn(feed, i)}
      /\ \A i \in DOMAIN s : s[i] = ics[i]
  BY DEF Bucket, Restrict
<1>2. SumFunction(s) > 0
  BY DEF PositiveRegimes, Total
<1>3. /\ IsFiniteSet(DOMAIN ics) /\ DOMAIN ics \subseteq DOMAIN feed
      /\ \A i \in DOMAIN ics : ics[i] = feed[i].ic /\ ics[i] \in Int /\ feed[i].ic # NoIc
  BY IcsFacts
<1> HIDE DEF s, ics
<1>4. IsFiniteSet(DOMAIN s) /\ \A i \in DOMAIN s : s[i] \in Int
  <2>1. DOMAIN s \subseteq DOMAIN ics
    BY <1>1
  <2> QED BY <1>1, <1>3, <2>1, FS_Subset
<1>5. PICK i \in DOMAIN s : s[i] > 0
  BY <1>2, <1>4, SumHasPositive
<1> QED BY <1>1, <1>3, <1>5

\* Three of the four regimes hold both of one pair.
LEMMA ThreeHoldAPair ==
  ASSUME NEW S \in SUBSET REGIMES, Cardinality(S) >= 3
  PROVE  \E pair \in {{"bull", "bear"}, {"high_vol", "low_vol"}} : pair \subseteq S
<1> SUFFICES ASSUME NEW a \in {"bull", "bear"}, a \notin S,
                    NEW b \in {"high_vol", "low_vol"}, b \notin S
             PROVE  FALSE
  OBVIOUS
<1>1. PICK c \in {"bull", "bear"}, d \in {"high_vol", "low_vol"} : S \subseteq {c, d}
  <2>1. PICK c \in {"bull", "bear"} : c # a /\ {"bull", "bear"} = {a, c}
    OBVIOUS
  <2>2. PICK d \in {"high_vol", "low_vol"} : d # b /\ {"high_vol", "low_vol"} = {b, d}
    OBVIOUS
  <2>3. REGIMES = {a, c} \cup {b, d}
    BY <2>1, <2>2 DEF REGIMES
  <2>4. S \subseteq {c, d}
    BY <2>3
  <2> QED BY <2>4
<1>2. IsFiniteSet({c, d}) /\ Cardinality({c, d}) <= 2
  <2>1. IsFiniteSet({c}) /\ Cardinality({c}) = 1
    BY FS_Singleton
  <2>2. /\ IsFiniteSet({c} \cup {d})
        /\ Cardinality({c} \cup {d}) = IF d \in {c} THEN Cardinality({c}) ELSE Cardinality({c}) + 1
    BY <2>1, FS_AddElement
  <2>3. {c} \cup {d} = {c, d}
    OBVIOUS
  <2> QED BY <2>1, <2>2, <2>3
<1>3. Cardinality(S) <= Cardinality({c, d}) /\ Cardinality(S) \in Nat /\ Cardinality({c, d}) \in Nat
  BY <1>1, <1>2, FS_Subset, FS_CardinalityType
<1> QED BY <1>2, <1>3

LEMMA VerdictsAreEarned ==
  ASSUME RecordsInv, DecayIcMin >= 0, MinRegimesPositive >= 3
  PROVE  VerdictIsEarned
<1> SUFFICES ASSUME kind = "validation", NEW decay \in {<<>>, <<-1>>, <<3, -1>>},
                    {} \in Verdicts(feed, decay, 2, {})
             PROVE  /\ \E i, j \in DOMAIN Ics(feed) : Ics(feed)[i] # Ics(feed)[j]
                    /\ Total(decay) > 0
                    /\ \E pair \in {{"bull", "bear"}, {"high_vol", "low_vol"}} :
                          \A regime \in pair :
                            \E i \in DOMAIN feed : /\ feed[i].ic # NoIc /\ feed[i].ic > 0
                                                   /\ regime \in RegimesOn(feed, i)
  BY DEF VerdictIsEarned
<1> DEFINE ics == Ics(feed)
           n == Cardinality(PositiveRegimes(feed))
<1>1. /\ DOMAIN decay # {} /\ IcirAboveHalf(ics) /\ MeanAbove(decay, DecayIcMin)
      /\ n >= MinRegimesPositive
  <2>1. ~(DOMAIN ics = {} \/ DOMAIN decay = {})
    BY DEF Verdicts
  <2>2. PICK passed \in GuardOutcomes(ics, 2) :
          {} = (IF MeanAbove(ics, IcAcceptance) THEN {} ELSE {1})
               \cup (IF IcirAboveHalf(ics) THEN {} ELSE {2})
               \cup (IF passed THEN {} ELSE {3})
               \cup (IF MeanAbove(decay, DecayIcMin) THEN {} ELSE {4})
               \cup (IF n >= MinRegimesPositive THEN {} ELSE {5})
               \cup {}
    BY <2>1 DEF Verdicts
  <2> HIDE DEF ics, n
  <2>3. IcirAboveHalf(ics) /\ MeanAbove(decay, DecayIcMin) /\ n >= MinRegimesPositive
    BY <2>2
  <2> QED BY <2>1, <2>3
<1>2. \E i, j \in DOMAIN ics : ics[i] # ics[j]
  <2>1. Dispersion(ics) > 0
    BY <1>1 DEF IcirAboveHalf
  <2>2. IsFiniteSet(DOMAIN ics) /\ \A i \in DOMAIN ics : ics[i] \in Int
    BY IcsFacts
  <2> HIDE DEF ics
  <2> QED BY <2>1, <2>2, DispersionVaries
<1>3. Total(decay) > 0
  <2>1. IsFiniteSet(DOMAIN decay) /\ \A i \in DOMAIN decay : decay[i] \in Int
    <3>1. DOMAIN decay \in {1..0, 1..1, 1..2} /\ \A i \in DOMAIN decay : decay[i] \in Int
      OBVIOUS
    <3>2. IsFiniteSet(1..0) /\ IsFiniteSet(1..1) /\ IsFiniteSet(1..2)
      <4>1. 0 \in Int /\ 1 \in Int /\ 2 \in Int
        OBVIOUS
      <4> QED BY <4>1, FS_Interval, Zenon
    <3> QED BY <3>1, <3>2
  <2>2. Cardinality(DOMAIN decay) \in Nat
    BY <2>1, FS_CardinalityType
  <2>3. Total(decay) \in Int
    BY <2>1, SumOfFunction, SumFacts DEF Total
  <2>4. \A i, k \in Nat : i * k >= 0 /\ i * k \in Int
    OBVIOUS
  <2>5. DecayIcMin \in Nat
    BY ThresholdsAssumption DEF ThresholdsAssumption
  <2>6. Total(decay) > DecayIcMin * Cardinality(DOMAIN decay)
    BY <1>1 DEF MeanAbove, NPeriods
  <2>7. DecayIcMin * Cardinality(DOMAIN decay) >= 0 /\ DecayIcMin * Cardinality(DOMAIN decay) \in Int
    BY <2>2, <2>4, <2>5, Zenon
  <2> QED BY <2>3, <2>6, <2>7
<1>4. PICK pair \in {{"bull", "bear"}, {"high_vol", "low_vol"}} : pair \subseteq PositiveRegimes(feed)
  <2>1. PositiveRegimes(feed) \subseteq REGIMES
    BY DEF PositiveRegimes
  <2>2. IsFiniteSet(REGIMES)
    <3>1. IsFiniteSet({"bull"} \cup {"bear"})
      BY FS_Singleton, FS_AddElement
    <3>2. IsFiniteSet({"bull"} \cup {"bear"} \cup {"high_vol"})
      BY <3>1, FS_AddElement
    <3>3. IsFiniteSet({"bull"} \cup {"bear"} \cup {"high_vol"} \cup {"low_vol"})
      BY <3>2, FS_AddElement
    <3>4. REGIMES = {"bull"} \cup {"bear"} \cup {"high_vol"} \cup {"low_vol"}
      BY DEF REGIMES
    <3> QED BY <3>3, <3>4
  <2>3. n \in Nat
    BY <2>1, <2>2, FS_Subset, FS_CardinalityType
  <2>4. MinRegimesPositive \in Nat
    BY ThresholdsAssumption DEF ThresholdsAssumption
  <2>5. n >= 3
    <3> HIDE DEF n
    <3> QED BY <1>1, <2>3, <2>4
  <2> QED BY <2>1, <2>5, ThreeHoldAPair
<1>5. \A regime \in pair : \E i \in DOMAIN feed : /\ feed[i].ic # NoIc /\ feed[i].ic > 0
                                                 /\ regime \in RegimesOn(feed, i)
  BY <1>4, PositiveBucket
<1> QED BY <1>2, <1>3, <1>4, <1>5


--------------------------------------------------------------------------------
(* What a sector does as a whole does not count                                 *)

\* The shares of a neutral score by name: who is in a name's sector, and what is taken off.
SectorOf(x, sectors, t) == {u \in DOMAIN x \cap DOMAIN sectors : sectors[u] = sectors[t]}
LiftedBy(x, sectors, lift) == [t \in DOMAIN x |-> x[t] + lift * sectors[t]]

LEMMA NeutralIs ==
  ASSUME NEW x, NEW sectors, DOMAIN x \subseteq DOMAIN sectors
  PROVE  /\ DOMAIN Neutral(x, sectors) = DOMAIN x
         /\ \A t \in DOMAIN x : Neutral(x, sectors)[t]
              = 6 * x[t] - (6 \div Cardinality(SectorOf(x, sectors, t)))
                             * SumFunctionOnSet(x, SectorOf(x, sectors, t))
         /\ Neutral(x, sectors) = [t \in DOMAIN x |-> Neutral(x, sectors)[t]]
<1>1. DOMAIN x \cap DOMAIN sectors = DOMAIN x
  OBVIOUS
<1>2. Neutral(x, sectors) = [t \in DOMAIN x \cap DOMAIN sectors |->
            6 * x[t] - (6 \div Cardinality(SectorOf(x, sectors, t)))
                          * SumFunctionOnSet(x, SectorOf(x, sectors, t))]
  BY DEF Neutral, SectorOf
<1> QED BY <1>1, <1>2

LEMMA SectorSize ==
  ASSUME NEW x, CrossSection(x), Cardinality(DOMAIN x) <= 3,
         NEW sectors, DOMAIN x \subseteq DOMAIN sectors, NEW t \in DOMAIN x
  PROVE  /\ IsFiniteSet(SectorOf(x, sectors, t)) /\ SectorOf(x, sectors, t) \subseteq DOMAIN x
         /\ Cardinality(SectorOf(x, sectors, t)) \in 1..3
<1> DEFINE P == SectorOf(x, sectors, t)
<1>1. P \subseteq DOMAIN x /\ t \in P
  BY DEF SectorOf
<1> HIDE DEF P
<1>2. IsFiniteSet(DOMAIN x) /\ Cardinality(DOMAIN x) \in Nat
  BY FS_CardinalityType DEF CrossSection
<1>3. IsFiniteSet(P) /\ Cardinality(P) \in Nat /\ Cardinality(P) <= Cardinality(DOMAIN x)
  BY <1>1, <1>2, FS_Subset, FS_CardinalityType
<1>4. Cardinality(P) # 0
  BY <1>1, <1>3, FS_EmptySet
<1>5. Cardinality(P) \in 1..3
  BY <1>2, <1>3, <1>4
<1> QED BY <1>1, <1>3, <1>5 DEF P

LEMMA NeutralStays ==
  ASSUME NEW x, CrossSection(x), Cardinality(DOMAIN x) <= 3,
         NEW sectors, DOMAIN x \subseteq DOMAIN sectors,
         \A t \in DOMAIN x : sectors[t] \in Int, NEW lift \in Int
  PROVE  Neutral(LiftedBy(x, sectors, lift), sectors) = Neutral(x, sectors)
<1> DEFINE y == LiftedBy(x, sectors, lift)
<1>1. DOMAIN y = DOMAIN x /\ \A t \in DOMAIN x : y[t] = x[t] + lift * sectors[t]
  BY DEF LiftedBy
<1>2. \A t \in DOMAIN x : x[t] \in Int
  BY DEF CrossSection
<1> HIDE DEF y
<1>3. ASSUME NEW t \in DOMAIN x PROVE Neutral(y, sectors)[t] = Neutral(x, sectors)[t]
  <2> DEFINE P == SectorOf(x, sectors, t)
             c == Cardinality(P)
             m == lift * sectors[t]
             S == SumFunctionOnSet(x, P)
             level == [u \in P |-> m]
  <2>1. IsFiniteSet(P) /\ P \subseteq DOMAIN x /\ c \in 1..3
    BY SectorSize
  <2>2. m \in Int
    <3>1. \A i, j \in Int : i * j \in Int
      OBVIOUS
    <3> QED BY <3>1
  <2>3. SectorOf(y, sectors, t) = P
    BY <1>1 DEF SectorOf
  <2>4. \A u \in P : /\ x[u] \in Int /\ level[u] = m /\ level[u] \in Int
                     /\ y[u] = x[u] + level[u]
    <3>1. \A u \in P : level[u] = m /\ sectors[u] = sectors[t]
      BY DEF SectorOf
    <3>2. \A u \in P : y[u] = x[u] + m
      BY <1>1, <2>1, <3>1
    <3> HIDE DEF level, P, m
    <3> QED BY <1>2, <2>1, <2>2, <3>1, <3>2
  <2>5. SumFunctionOnSet(level, P) = m * c
    <3> HIDE DEF P, m
    <3>1. SumFunction(level) = m * c
      BY <2>1, <2>2, ConstantSum
    <3>2. DOMAIN level = P
      OBVIOUS
    <3> HIDE DEF level
    <3> QED BY <3>1, <3>2, SumOfFunction
  <2> HIDE DEF level, P, m
  <2>6. SumFunctionOnSet(y, P) = SumFunctionOnSet(x, P) + SumFunctionOnSet(level, P)
    BY <2>1, <2>4, SumAdded
  <2>7. S \in Int
    BY <2>1, <2>4, SumFacts
  <2>8. /\ Neutral(y, sectors)[t] = 6 * (x[t] + m) - (6 \div c) * (S + m * c)
        /\ Neutral(x, sectors)[t] = 6 * x[t] - (6 \div c) * S
    <3>1. y[t] = x[t] + m
      BY <1>1 DEF m
    <3>2. Neutral(y, sectors)[t] = 6 * y[t] - (6 \div Cardinality(SectorOf(y, sectors, t)))
                                        * SumFunctionOnSet(y, SectorOf(y, sectors, t))
      BY <1>1, NeutralIs
    <3>3. Neutral(x, sectors)[t] = 6 * x[t] - (6 \div c) * S
      BY NeutralIs DEF P
    <3> QED BY <2>3, <2>5, <2>6, <3>1, <3>2, <3>3
  <2>9. x[t] \in Int
    BY <1>2
  <2> HIDE DEF S, c
  <2>10. \A i, j, k \in Int : /\ 6 * (i + k) - (6 \div 1) * (j + k * 1) = 6 * i - (6 \div 1) * j
                              /\ 6 * (i + k) - (6 \div 2) * (j + k * 2) = 6 * i - (6 \div 2) * j
                              /\ 6 * (i + k) - (6 \div 3) * (j + k * 3) = 6 * i - (6 \div 3) * j
    <3>1. 6 \div 1 = 6 /\ 6 \div 2 = 3 /\ 6 \div 3 = 2
      OBVIOUS
    <3> QED BY <3>1
  <2>11. c = 1 \/ c = 2 \/ c = 3
    BY <2>1
  <2>12. 6 * (x[t] + m) - (6 \div c) * (S + m * c) = 6 * x[t] - (6 \div c) * S
    <3>1. CASE c = 1
      BY <2>2, <2>7, <2>9, <2>10, <3>1, Zenon
    <3>2. CASE c = 2
      BY <2>2, <2>7, <2>9, <2>10, <3>2, Zenon
    <3>3. CASE c = 3
      BY <2>2, <2>7, <2>9, <2>10, <3>3, Zenon
    <3> QED BY <2>11, <3>1, <3>2, <3>3
  <2> QED BY <2>8, <2>12
<1>4. /\ Neutral(y, sectors) = [t \in DOMAIN x |-> Neutral(y, sectors)[t]]
      /\ Neutral(x, sectors) = [t \in DOMAIN x |-> Neutral(x, sectors)[t]]
  BY <1>1, NeutralIs
<1>5. [t \in DOMAIN x |-> Neutral(y, sectors)[t]] = [t \in DOMAIN x |-> Neutral(x, sectors)[t]]
  BY <1>3
<1> QED BY <1>4, <1>5 DEF y

\* A signal that says the same of every name has no correlation with anything.
LEMMA LevelHasNoIc ==
  ASSUME NEW x, IsFiniteSet(DOMAIN x), \A t \in DOMAIN x : x[t] = 0, NEW y
  PROVE  DateIc(x, y) = NoIc
<1> DEFINE common == DOMAIN x \cap DOMAIN y
           z == Restrict(x, common)
           n == Cardinality(common)
           f == [t \in common |-> (TwiceRanks(z)[t] - (n + 1)) * (TwiceRanks(z)[t] - (n + 1))]
<1>1. IsFiniteSet(common) /\ DOMAIN z = common /\ \A t \in common : z[t] = 0
  BY FS_Subset DEF Restrict
<1>2. CrossSection(z)
  <2> HIDE DEF z, common
  <2> QED BY <1>1 DEF CrossSection
<1> HIDE DEF z, common
<1>3. n \in Nat
  BY <1>1, FS_CardinalityType
<1>4. \A t \in common : TwiceRanks(z)[t] = n + 1
  <2>1. \A s, u \in DOMAIN z : z[s] = z[u]
    BY <1>1
  <2> QED BY <1>1, <1>2, <2>1, RankFacts
<1>5. CrossMoment(z, z) = SumFunction(f)
  BY <1>1, Zenon DEF CrossMoment
<1>6. \A t \in common : f[t] = 0
  <2>1. \A i \in Nat : ((i + 1) - (i + 1)) * ((i + 1) - (i + 1)) = 0
    OBVIOUS
  <2> HIDE DEF n
  <2> QED BY <1>3, <1>4, <2>1
<1>7. DOMAIN f = common
  OBVIOUS
<1> HIDE DEF f
<1>8. SumFunction(f) = 0
  <2>1. SumFunctionOnSet(f, common) = SumFunctionOnSet(f, {})
    BY <1>1, <1>6, SumSupport
  <2>2. SumFunctionOnSet(f, {}) = 0
    BY FS_EmptySet, SumFacts
  <2> QED BY <1>7, <2>1, <2>2, SumOfFunction
<1>9. SpearmanIc(z, Restrict(y, common)) = NoIc
  BY <1>5, <1>8 DEF SpearmanIc
<1> QED BY <1>9 DEF DateIc, z, common

LEMMA LevelIsNeutral ==
  ASSUME NEW x, CrossSection(x), Cardinality(DOMAIN x) <= 3, \A t \in DOMAIN x : x[t] = 0,
         NEW sectors, DOMAIN x \subseteq DOMAIN sectors
  PROVE  \A t \in DOMAIN x : Neutral(x, sectors)[t] = 0
<1> SUFFICES ASSUME NEW t \in DOMAIN x PROVE Neutral(x, sectors)[t] = 0
  OBVIOUS
<1> DEFINE P == SectorOf(x, sectors, t)
           c == Cardinality(P)
<1>1. IsFiniteSet(P) /\ P \subseteq DOMAIN x /\ c \in 1..3
  BY SectorSize
<1>2. Neutral(x, sectors)[t] = 6 * x[t] - (6 \div c) * SumFunctionOnSet(x, P)
  BY NeutralIs
<1> HIDE DEF P
<1>3. SumFunctionOnSet(x, P) = 0
  <2>1. SumFunctionOnSet(x, P) = SumFunctionOnSet(x, {})
    BY <1>1, SumSupport
  <2>2. SumFunctionOnSet(x, {}) = 0
    BY FS_EmptySet, SumFacts
  <2> QED BY <2>1, <2>2
<1>4. (6 \div c) \in Int
  BY <1>1
<1> HIDE DEF c
<1>5. \A i \in Int : 6 * 0 - i * 0 = 0
  OBVIOUS
<1>6. 6 * 0 - (6 \div c) * 0 = 0
  BY <1>4, <1>5, Zenon
<1> QED BY <1>2, <1>3, <1>6


LEMMA SectorsAreOut == DeskInv => SectorsDoNotCount
<1> SUFFICES ASSUME DeskInv, kind = "signals", feed # <<>> PROVE SectorsDoNotCount
  BY DEF SectorsDoNotCount
<1> DEFINE signal == Last(feed)
           names == UNION {DOMAIN signal[day] : day \in DOMAIN signal}
           flat == [day \in DOMAIN signal |-> [t \in DOMAIN signal[day] |-> 0]]
           Lifted(of, sectors, lift) == [day \in DOMAIN of |->
                     [t \in DOMAIN of[day] |-> of[day][t] + lift * sectors[t]]]
<1>1. signal \in Signals
  <2>1. feed \in Seq(Signals)
    BY DEF DeskInv
  <2>2. Len(feed) \in Nat /\ Len(feed) # 0 /\ DOMAIN feed = 1..Len(feed)
    BY <2>1, LenProperties, EmptySeq
  <2>3. Len(feed) \in DOMAIN feed
    BY <2>2
  <2> QED BY <2>1, <2>3, ElementOfSeq DEF Last
<1> HIDE DEF signal
<1>2. \A day \in DOMAIN signal : CrossSection(signal[day]) /\ Cardinality(DOMAIN signal[day]) <= 3
  BY <1>1, SignalsAssumption, SectorsAssumption
<1>3. ASSUME NEW sectors \in [names -> 1..2], NEW lift \in {-1, 1}
      PROVE  /\ NeutralIcs(Lifted(signal, sectors, lift), Labels, sectors)
                  = NeutralIcs(signal, Labels, sectors)
             /\ ~FailsTest7(Lifted(flat, sectors, lift), Labels, sectors)
  <2>1. /\ DOMAIN sectors = names /\ lift \in Int
        /\ \A day \in DOMAIN signal : /\ DOMAIN signal[day] \subseteq DOMAIN sectors
                                      /\ \A t \in DOMAIN signal[day] : sectors[t] \in Int
    OBVIOUS
  <2> HIDE DEF names
  <2> DEFINE Stays(of) ==
               [day \in DOMAIN of |-> Neutral(Lifted(of, sectors, lift)[day], sectors)]
                 = [day \in DOMAIN of |-> Neutral(of[day], sectors)]
  <2>2. ASSUME NEW of, DOMAIN of = DOMAIN signal,
               \A day \in DOMAIN signal : /\ CrossSection(of[day])
                                          /\ DOMAIN of[day] = DOMAIN signal[day]
        PROVE  NeutralIcs(Lifted(of, sectors, lift), Labels, sectors)
                 = NeutralIcs(of, Labels, sectors)
    <3> DEFINE up == Lifted(of, sectors, lift)
    <3>1. DOMAIN up = DOMAIN of /\ \A day \in DOMAIN of : up[day] = LiftedBy(of[day], sectors, lift)
      BY DEF LiftedBy
    <3> HIDE DEF up
    <3>2. \A day \in DOMAIN of : Neutral(up[day], sectors) = Neutral(of[day], sectors)
      <4> SUFFICES ASSUME NEW day \in DOMAIN of
                   PROVE  Neutral(up[day], sectors) = Neutral(of[day], sectors)
        OBVIOUS
      <4>1. /\ CrossSection(of[day]) /\ Cardinality(DOMAIN of[day]) <= 3
            /\ DOMAIN of[day] \subseteq DOMAIN sectors
            /\ \A t \in DOMAIN of[day] : sectors[t] \in Int
        BY <1>2, <2>1, <2>2
      <4>2. Neutral(LiftedBy(of[day], sectors, lift), sectors) = Neutral(of[day], sectors)
        BY <2>1, <4>1, NeutralStays
      <4> QED BY <3>1, <4>2
    <3>3. [day \in DOMAIN up |-> Neutral(up[day], sectors)]
            = [day \in DOMAIN of |-> Neutral(of[day], sectors)]
      BY <3>1, <3>2
    <3>4. NeutralIcs(up, Labels, sectors) = NeutralIcs(of, Labels, sectors)
      BY <3>3 DEF NeutralIcs
    <3> QED BY <3>4 DEF up
  <2>3. NeutralIcs(Lifted(signal, sectors, lift), Labels, sectors)
          = NeutralIcs(signal, Labels, sectors)
    <3> HIDE DEF Lifted
    <3> QED BY <1>2, <2>2
  <2>4. /\ DOMAIN flat = DOMAIN signal
        /\ \A day \in DOMAIN signal : /\ DOMAIN flat[day] = DOMAIN signal[day]
                                      /\ \A t \in DOMAIN flat[day] : flat[day][t] = 0
    OBVIOUS
  <2> HIDE DEF flat
  <2>5. \A day \in DOMAIN signal : CrossSection(flat[day])
    BY <1>2, <2>4 DEF CrossSection
  <2>6. NeutralIcs(Lifted(flat, sectors, lift), Labels, sectors) = NeutralIcs(flat, Labels, sectors)
    <3> HIDE DEF Lifted
    <3> QED BY <2>2, <2>4, <2>5
  <2> DEFINE rest == [day \in DOMAIN flat |-> Neutral(flat[day], sectors)]
  <2>7. \A day \in DOMAIN signal : DateIc(rest[day], Labels[day]) = NoIc
    <3> SUFFICES ASSUME NEW day \in DOMAIN signal PROVE DateIc(rest[day], Labels[day]) = NoIc
      OBVIOUS
    <3>1. rest[day] = Neutral(flat[day], sectors)
      BY <2>4
    <3>2. /\ DOMAIN rest[day] = DOMAIN flat[day] /\ IsFiniteSet(DOMAIN flat[day])
          /\ \A t \in DOMAIN flat[day] : rest[day][t] = 0
      <4>1. /\ CrossSection(flat[day]) /\ Cardinality(DOMAIN flat[day]) <= 3
            /\ DOMAIN flat[day] \subseteq DOMAIN sectors
            /\ \A t \in DOMAIN flat[day] : flat[day][t] = 0
        BY <1>2, <2>1, <2>4, <2>5
      <4>2. \A t \in DOMAIN flat[day] : Neutral(flat[day], sectors)[t] = 0
        BY <4>1, LevelIsNeutral
      <4>3. DOMAIN Neutral(flat[day], sectors) = DOMAIN flat[day]
        BY <4>1, NeutralIs
      <4>4. IsFiniteSet(DOMAIN flat[day])
        BY <4>1 DEF CrossSection
      <4> QED BY <3>1, <4>2, <4>3, <4>4
    <3> HIDE DEF rest
    <3> QED BY <3>2, LevelHasNoIc
  <2>8. NeutralIcs(flat, Labels, sectors) = DailyIcs(rest, Labels)
    BY DEF NeutralIcs
  <2>9. DOMAIN DailyIcs(rest, Labels) = {}
    <3>1. DOMAIN rest = DOMAIN signal
      BY <2>4
    <3> HIDE DEF rest
    <3> QED BY <2>7, <3>1 DEF DailyIcs
  <2>10. ~FailsTest7(Lifted(flat, sectors, lift), Labels, sectors)
    <3> HIDE DEF rest, Lifted
    <3> QED BY <2>6, <2>8, <2>9 DEF FailsTest7
  <2> QED BY <2>3, <2>10
<1>4. signal = Last(feed)
  BY DEF signal
<1> QED BY <1>3, <1>4 DEF SectorsDoNotCount

\* Whatever the market and the windows: a pass took a positive mean in both regimes of a
\* kind, ICs that vary and a signal that lasts, as long as three of the four regimes are
\* asked for and no negative decay is let pass; and no sector as a whole counted towards it
\* (backtest_runner.py run_backtest).
THEOREM ThePassIsEarned ==
  ASSUME DecayIcMin >= 0, MinRegimesPositive >= 3
  PROVE  Spec => []PassIsEarned
<1>1. RecordsInv /\ DeskInv => PassIsEarned
  BY VerdictsAreEarned, SectorsAreOut DEF PassIsEarned
<1> QED BY <1>1, RecordsInvariant, DeskInvariant, PTL


--------------------------------------------------------------------------------
(* A book meets its limits                                                      *)

\* Finitely many numbers have a least and a greatest.
LEMMA ExtremesOfFinite ==
  ASSUME NEW T, IsFiniteSet(T), T # {}, \A n \in T : n \in Int
  PROVE  /\ Min(T) \in T /\ \A n \in T : Min(T) <= n
         /\ Max(T) \in T /\ \A n \in T : n <= Max(T)
<1>1. PICK bound \in Int : \A n \in T : n <= bound
  BY FiniteBound
<1>2. T \in SUBSET Int
  OBVIOUS
<1>3. Max(T) \in T /\ \A n \in T : n <= Max(T)
  BY <1>1, <1>2, MaxFacts
<1> DEFINE minus == [n \in T |-> -n]
           below == {minus[n] : n \in T}
<1>4. \A n \in T : minus[n] = -n
  OBVIOUS
<1>5. DOMAIN minus = T
  OBVIOUS
<1> HIDE DEF minus
<1>6. \A m, n \in T : minus[m] = minus[n] => m = n
  BY <1>4
<1>7. IsFiniteSet(below)
  BY <1>5, <1>6, ImageCount
<1>8. \A n \in below : n \in Int
  BY <1>4
<1>9. PICK floor \in Int : \A n \in below : n <= floor
  BY <1>7, <1>8, FiniteBound
<1> DEFINE above == {n + floor : n \in T}
<1>10. above \in SUBSET Nat /\ above # {}
  <2>1. \A n \in T : n \in Int /\ -n <= floor
    BY <1>4, <1>9
  <2> QED BY <1>9, <2>1
<1>11. PICK m \in T : Min(above) = m + floor
  BY <1>10, MinFacts
<1>12. \A n \in T : m + floor <= n + floor
  BY <1>10, <1>11, MinFacts
<1>13. \A n \in T : m <= n
  BY <1>9, <1>12
<1>14. Min(T) \in T /\ \A n \in T : Min(T) <= n
  BY <1>13 DEF Min
<1> QED BY <1>3, <1>14

LEMMA ExtremesOfTwo ==
  ASSUME NEW a \in Int, NEW b \in Int
  PROVE  /\ Min({a, b}) = IF a <= b THEN a ELSE b
         /\ Max({a, b}) = IF a <= b THEN b ELSE a
<1>1. IsFiniteSet({a, b}) /\ {a, b} # {} /\ \A n \in {a, b} : n \in Int
  <2>1. {a, b} = {a} \cup {b}
    OBVIOUS
  <2>2. IsFiniteSet({a})
    BY FS_Singleton
  <2>3. IsFiniteSet({a, b})
    BY <2>1, <2>2, FS_AddElement
  <2> QED BY <2>3
<1>2. /\ Min({a, b}) \in {a, b} /\ \A n \in {a, b} : Min({a, b}) <= n
      /\ Max({a, b}) \in {a, b} /\ \A n \in {a, b} : n <= Max({a, b})
  BY <1>1, ExtremesOfFinite, Zenon
<1> QED BY <1>2

\* Order is kept by factors that are not negative.
LEMMA ScaledOrder ==
  ASSUME NEW c \in Nat, NEW i \in Int, NEW j \in Int, i <= j
  PROVE  c * i <= c * j
<1>1. c * (j - i) >= 0
  OBVIOUS
<1>2. c * (j - i) = c * j - c * i
  OBVIOUS
<1>3. c * i \in Int /\ c * j \in Int
  OBVIOUS
<1> QED BY <1>1, <1>2, <1>3

\* Finitely many whole holdings on a whole scale.
IsBook(book) ==
    /\ book = [of |-> book.of, unit |-> book.unit]
    /\ IsFiniteSet(DOMAIN book.of) /\ \A t \in DOMAIN book.of : book.of[t] \in Int
    /\ book.unit \in Nat /\ book.unit > 0

\* The same names, in the same order.
Keeps(book, next) ==
    /\ DOMAIN next.of = DOMAIN book.of
    /\ \A s, t \in DOMAIN book.of : book.of[s] <= book.of[t] => next.of[s] <= next.of[t]

WithinCap(book) ==
    \A t \in DOMAIN book.of : Magnitude(book.of[t]) <= MaxPosition * book.unit

LEMMA DemeanedBook ==
  ASSUME NEW book, IsBook(book), DOMAIN book.of # {}
  PROVE  /\ IsBook(Demeaned(book)) /\ Keeps(book, Demeaned(book))
         /\ SumFunction(Demeaned(book).of) = 0
<1> DEFINE w == book.of
           D == DOMAIN w
           n == Cardinality(D)
           V == SumFunction(w)
           of == [t \in D |-> n * w[t] - V]
           up == [t \in D |-> n * w[t]]
           down == [t \in D |-> -V]
<1>1. IsFiniteSet(D) /\ n \in Nat /\ n > 0 /\ \A t \in D : w[t] \in Int
  <2>1. n \in Nat /\ n # 0
    BY FS_CardinalityType, FS_EmptySet DEF IsBook
  <2> QED BY <2>1 DEF IsBook
<1>2. V = SumFunctionOnSet(w, D) /\ V \in Int
  BY <1>1, SumOfFunction, SumFacts
<1>3. Demeaned(book) = [of |-> of, unit |-> n * book.unit]
  BY DEF Demeaned
<1>4. DOMAIN of = D /\ \A t \in D : of[t] = n * w[t] - V /\ up[t] = n * w[t] /\ down[t] = -V
  OBVIOUS
<1>5. SumFunctionOnSet(down, D) = (-V) * n
  <2>1. \A i \in Int : SumFunction([t \in D |-> i]) = i * Cardinality(D)
    BY <1>1, ConstantSum
  <2>2. -V \in Int
    BY <1>2
  <2>3. SumFunction(down) = (-V) * n
    BY <2>1, <2>2, Zenon
  <2>4. DOMAIN down = D
    OBVIOUS
  <2> HIDE DEF down
  <2> QED BY <2>3, <2>4, SumOfFunction
<1> HIDE DEF up, down, of, n, V
<1>6. SumFunctionOnSet(up, D) = n * V
  <2>1. n \in Int /\ \A t \in D : w[t] \in Int /\ up[t] = n * w[t]
    BY <1>1, <1>4
  <2> QED BY <1>1, <1>2, <2>1, SumScaled
<1>7. \A t \in D : up[t] \in Int /\ down[t] \in Int /\ of[t] = up[t] + down[t]
  BY <1>1, <1>2, <1>4
<1>8. SumFunctionOnSet(of, D) = n * V + (-V) * n
  BY <1>1, <1>5, <1>6, <1>7, SumAdded
<1>9. n * V + (-V) * n = 0
  BY <1>1, <1>2
<1>10. SumFunction(of) = 0
  BY <1>4, <1>8, <1>9, SumOfFunction
<1>11. ASSUME NEW s \in D, NEW t \in D, w[s] <= w[t] PROVE of[s] <= of[t]
  <2>1. n * w[s] <= n * w[t]
    BY <1>1, <1>11, ScaledOrder
  <2>2. n * w[s] \in Int /\ n * w[t] \in Int
    BY <1>1
  <2> QED BY <1>2, <1>4, <2>1, <2>2
<1>12. \A t \in D : of[t] \in Int
  BY <1>1, <1>2, <1>4
<1>13. n * book.unit \in Nat /\ n * book.unit > 0
  BY <1>1 DEF IsBook
<1>14. IsBook([of |-> of, unit |-> n * book.unit])
  BY <1>1, <1>4, <1>12, <1>13 DEF IsBook
<1>15. Keeps(book, [of |-> of, unit |-> n * book.unit])
  BY <1>4, <1>11 DEF Keeps
<1> QED BY <1>3, <1>10, <1>14, <1>15

LEMMA CappedBook ==
  ASSUME NEW book, IsBook(book), MaxPosition \in Nat, MaxPosition > 0
  PROVE  /\ IsBook(Capped(book)) /\ Keeps(book, Capped(book)) /\ WithinCap(Capped(book))
         /\ \A t \in DOMAIN book.of : /\ Capped(book).of[t] > 0 <=> book.of[t] > 0
                                      /\ Capped(book).of[t] < 0 <=> book.of[t] < 0
<1> DEFINE w == book.of
           D == DOMAIN w
           cap == MaxPosition * book.unit
           of == [t \in D |-> Max({-cap, Min({cap, w[t]})})]
<1>1. cap \in Int /\ cap > 0
  BY DEF IsBook
<1>2. Capped(book) = [of |-> of, unit |-> book.unit]
  <2>1. book = [of |-> book.of, unit |-> book.unit]
    BY DEF IsBook
  <2> DEFINE Within(x) == [t \in DOMAIN x |-> Max({-cap, Min({cap, x[t]})})]
  <2>2. Capped(book) = [book EXCEPT !.of = Within(book.of)]
    BY Zenon DEF Capped
  <2>3. \A f : [book EXCEPT !.of = f] = [of |-> f, unit |-> book.unit]
    BY <2>1
  <2> QED BY <2>2, <2>3, Zenon
<1>3. \A t \in D : of[t] = IF w[t] > cap THEN cap ELSE IF w[t] < -cap THEN -cap ELSE w[t]
  <2> SUFFICES ASSUME NEW t \in D
               PROVE  Max({-cap, Min({cap, w[t]})})
                        = IF w[t] > cap THEN cap ELSE IF w[t] < -cap THEN -cap ELSE w[t]
    OBVIOUS
  <2> HIDE DEF cap
  <2>1. w[t] \in Int /\ -cap \in Int
    BY <1>1 DEF IsBook
  <2>2. Min({cap, w[t]}) = IF cap <= w[t] THEN cap ELSE w[t]
    BY <1>1, <2>1, ExtremesOfTwo
  <2>3. Min({cap, w[t]}) \in Int
    BY <1>1, <2>1, <2>2
  <2>4. Max({-cap, Min({cap, w[t]})})
           = IF -cap <= Min({cap, w[t]}) THEN Min({cap, w[t]}) ELSE -cap
    BY <2>1, <2>3, ExtremesOfTwo
  <2> QED BY <1>1, <2>1, <2>2, <2>4
<1>4. DOMAIN of = D
  OBVIOUS
<1> HIDE DEF of
<1>5. \A t \in D : w[t] \in Int
  BY DEF IsBook
<1>6. IsBook([of |-> of, unit |-> book.unit])
  <2> HIDE DEF cap
  <2> QED BY <1>1, <1>3, <1>4, <1>5 DEF IsBook
<1>7. Keeps(book, [of |-> of, unit |-> book.unit])
  <2> HIDE DEF cap
  <2> QED BY <1>1, <1>3, <1>4, <1>5 DEF Keeps
<1>8. \A t \in D : Magnitude(of[t]) <= cap
  <2> HIDE DEF cap
  <2> QED BY <1>1, <1>3, <1>5 DEF Magnitude
<1>9. WithinCap([of |-> of, unit |-> book.unit])
  BY <1>4, <1>8 DEF WithinCap
<1>10. \A t \in D : (of[t] > 0 <=> w[t] > 0) /\ (of[t] < 0 <=> w[t] < 0)
  <2> HIDE DEF cap
  <2> QED BY <1>1, <1>3, <1>5
<1> QED BY <1>2, <1>6, <1>7, <1>9, <1>10


\* The legs of a book: their difference is its net, their sum its gross.
LEMMA LegFacts ==
  ASSUME NEW w, IsFiniteSet(DOMAIN w), \A t \in DOMAIN w : w[t] \in Int
  PROVE  /\ LongLeg(w) \in Nat /\ ShortLeg(w) \in Nat
         /\ SumFunction(w) = LongLeg(w) - ShortLeg(w)
         /\ Gross(w) = LongLeg(w) + ShortLeg(w)
         /\ LongLeg(w) > 0 <=> \E t \in DOMAIN w : w[t] > 0
         /\ ShortLeg(w) > 0 <=> \E t \in DOMAIN w : w[t] < 0
<1> DEFINE D == DOMAIN w
           up == [t \in D |-> IF w[t] > 0 THEN w[t] ELSE 0]
           down == [t \in D |-> IF w[t] < 0 THEN -w[t] ELSE 0]
           size == [t \in D |-> Magnitude(w[t])]
<1>1. \A t \in D : /\ up[t] = IF w[t] > 0 THEN w[t] ELSE 0
                   /\ down[t] = IF w[t] < 0 THEN -w[t] ELSE 0
                   /\ size[t] = IF w[t] < 0 THEN -w[t] ELSE w[t]
  BY DEF Magnitude
<1>2. DOMAIN up = D /\ DOMAIN down = D /\ DOMAIN size = D
  OBVIOUS
<1>3. /\ LongLeg(w) = SumFunction(up) /\ ShortLeg(w) = SumFunction(down)
      /\ Gross(w) = SumFunction(size)
  BY DEF LongLeg, ShortLeg, Gross
<1> HIDE DEF up, down, size
<1>4. /\ LongLeg(w) = SumFunctionOnSet(up, D) /\ ShortLeg(w) = SumFunctionOnSet(down, D)
      /\ Gross(w) = SumFunctionOnSet(size, D) /\ SumFunction(w) = SumFunctionOnSet(w, D)
  BY <1>2, <1>3, SumOfFunction
<1>5. \A t \in D : up[t] \in Int /\ up[t] >= 0 /\ down[t] \in Int /\ down[t] >= 0
  BY <1>1
<1>6. LongLeg(w) \in Int /\ LongLeg(w) >= 0 /\ ShortLeg(w) \in Int /\ ShortLeg(w) >= 0
  BY <1>4, <1>5, SumNotNegative
<1>7. Gross(w) = LongLeg(w) + ShortLeg(w)
  <2>1. \A t \in D : up[t] \in Int /\ down[t] \in Int /\ size[t] = up[t] + down[t]
    BY <1>1, <1>5
  <2> QED BY <1>4, <2>1, SumAdded
<1>8. LongLeg(w) = SumFunction(w) + ShortLeg(w)
  <2>1. \A t \in D : w[t] \in Int /\ down[t] \in Int /\ up[t] = w[t] + down[t]
    BY <1>1, <1>5
  <2> QED BY <1>4, <2>1, SumAdded
<1>9. SumFunction(w) \in Int
  BY <1>4, SumFacts
<1>10. \A leg : (\A t \in D : leg[t] \in Int /\ leg[t] >= 0) =>
         (SumFunctionOnSet(leg, D) > 0 <=> \E t \in D : leg[t] > 0)
  <2> SUFFICES ASSUME NEW leg, \A t \in D : leg[t] \in Int /\ leg[t] >= 0
               PROVE  SumFunctionOnSet(leg, D) > 0 <=> \E t \in D : leg[t] > 0
    OBVIOUS
  <2>1. ASSUME NEW t \in D, leg[t] > 0 PROVE SumFunctionOnSet(leg, D) > 0
    <3>1. SumFunctionOnSet(leg, D) = leg[t] + SumFunctionOnSet(leg, D \ {t})
      BY SumFacts
    <3>2. IsFiniteSet(D \ {t})
      BY FS_RemoveElement
    <3>3. SumFunctionOnSet(leg, D \ {t}) \in Int /\ SumFunctionOnSet(leg, D \ {t}) >= 0
      BY <3>2, SumNotNegative
    <3> QED BY <2>1, <3>1, <3>3
  <2>2. ASSUME \A t \in D : ~(leg[t] > 0) PROVE SumFunctionOnSet(leg, D) = 0
    <3>1. \A t \in D \ {} : leg[t] = 0
      BY <2>2
    <3>2. SumFunctionOnSet(leg, D) = SumFunctionOnSet(leg, {})
      BY <3>1, SumSupport
    <3> QED BY <3>2, FS_EmptySet, SumFacts
  <2> QED BY <2>1, <2>2
<1>11. LongLeg(w) > 0 <=> \E t \in D : w[t] > 0
  <2>1. \A t \in D : up[t] > 0 <=> w[t] > 0
    BY <1>1
  <2> QED BY <1>4, <1>5, <1>10, <2>1
<1>12. ShortLeg(w) > 0 <=> \E t \in D : w[t] < 0
  <2>1. \A t \in D : down[t] > 0 <=> w[t] < 0
    BY <1>1
  <2> QED BY <1>4, <1>5, <1>10, <2>1
<1> QED BY <1>6, <1>7, <1>8, <1>9, <1>11, <1>12

\* Both legs are brought to the same size: each is scaled by the other one's, over the larger.
LEMMA BalancedBook ==
  ASSUME NEW book, IsBook(book), WithinCap(book), MaxPosition \in Nat,
         LongLeg(book.of) > 0 <=> ShortLeg(book.of) > 0
  PROVE  /\ IsBook(Balanced(book)) /\ Keeps(book, Balanced(book)) /\ WithinCap(Balanced(book))
         /\ SumFunction(Balanced(book).of) = 0
<1> DEFINE w == book.of
           D == DOMAIN w
           long == LongLeg(w)
           short == ShortLeg(w)
           larger == IF long <= short THEN short ELSE long
           smaller == IF long <= short THEN long ELSE short
           of == [t \in D |-> IF (w[t] > 0) = (long > short) THEN smaller * w[t] ELSE larger * w[t]]
<1>1. /\ IsFiniteSet(D) /\ \A t \in D : w[t] \in Int
      /\ book.unit \in Nat /\ book.unit > 0
  BY DEF IsBook
<1>2. /\ long \in Nat /\ short \in Nat /\ SumFunction(w) = long - short
      /\ long > 0 <=> short > 0
  BY <1>1, LegFacts
<1>3. CASE long = 0 \/ short = 0 \/ long = short
  <2>1. long = short
    BY <1>2, <1>3
  <2>2. Balanced(book) = book
    BY <2>1 DEF Balanced
  <2>3. SumFunction(w) = 0
    BY <1>2, <2>1
  <2>4. Keeps(book, book)
    BY DEF Keeps
  <2> QED BY <2>2, <2>3, <2>4
<1>4. CASE ~(long = 0 \/ short = 0 \/ long = short)
  <2>1. Max({long, short}) = larger /\ Min({long, short}) = smaller
    <3> HIDE DEF long, short
    <3> QED BY <1>2, ExtremesOfTwo
  <2>2. /\ larger \in Nat /\ smaller \in Nat /\ larger > 0 /\ smaller > 0
        /\ smaller < larger
    BY <1>2, <1>4
  <2>3. Balanced(book) = [of |-> of, unit |-> larger * book.unit]
    <3>1. ~(smaller = 0 \/ long = short)
      BY <1>4, <2>2
    <3>2. Balanced(book) =
             IF Min({long, short}) = 0 \/ long = short THEN book
             ELSE [of |-> [t \in D |-> IF (w[t] > 0) = (long > short)
                                       THEN Min({long, short}) * w[t] ELSE Max({long, short}) * w[t]],
                   unit |-> Max({long, short}) * book.unit]
      BY Zenon DEF Balanced
    <3> HIDE DEF long, short, smaller, larger
    <3>3. Balanced(book) = [of |-> [t \in D |-> IF (w[t] > 0) = (long > short)
                                       THEN smaller * w[t] ELSE larger * w[t]],
                            unit |-> larger * book.unit]
      BY <2>1, <3>1, <3>2
    <3> QED BY <3>3
  <2> DEFINE a == IF long > short THEN smaller ELSE larger
             b == IF long > short THEN larger ELSE smaller
  <2>4. /\ a \in Nat /\ b \in Nat /\ a > 0 /\ b > 0 /\ a <= larger /\ b <= larger
        /\ a * long = b * short
    BY <1>2, <2>2
  <2>5. \A t \in D : of[t] = IF w[t] > 0 THEN a * w[t] ELSE b * w[t]
    <3>1. \A t \in D : (w[t] > 0) \in BOOLEAN
      OBVIOUS
    <3> QED BY <1>2, <3>1
  <2>6. DOMAIN of = D
    OBVIOUS
  <2> DEFINE up == [t \in D |-> IF w[t] > 0 THEN w[t] ELSE 0]
             down == [t \in D |-> IF w[t] < 0 THEN -w[t] ELSE 0]
  <2>7. \A t \in D : /\ up[t] = IF w[t] > 0 THEN w[t] ELSE 0
                     /\ down[t] = IF w[t] < 0 THEN -w[t] ELSE 0
    OBVIOUS
  <2>8. long = SumFunctionOnSet(up, D) /\ short = SumFunctionOnSet(down, D)
    <3>1. long = SumFunction(up) /\ short = SumFunction(down)
      BY DEF LongLeg, ShortLeg
    <3>2. DOMAIN up = D /\ DOMAIN down = D
      OBVIOUS
    <3> HIDE DEF long, short, up, down
    <3> QED BY <3>1, <3>2, SumOfFunction
  <2> HIDE DEF up, down, of, a, b, larger, smaller, long, short
  <2> DEFINE more == [t \in D |-> a * up[t]]
             less == [t \in D |-> (-b) * down[t]]
  <2>9. \A t \in D : more[t] = a * up[t] /\ less[t] = (-b) * down[t]
    OBVIOUS
  <2> HIDE DEF more, less
  <2>10. \A t \in D : up[t] \in Int /\ down[t] \in Int /\ a * up[t] \in Int /\ (-b) * down[t] \in Int
    BY <1>1, <2>4, <2>7
  <2>11. SumFunctionOnSet(more, D) = a * long
    <3>1. a \in Int /\ \A t \in D : up[t] \in Int /\ more[t] = a * up[t]
      BY <2>4, <2>9, <2>10
    <3> QED BY <1>1, <2>8, <3>1, SumScaled
  <2>12. SumFunctionOnSet(less, D) = (-b) * short
    <3>1. -b \in Int /\ \A t \in D : down[t] \in Int /\ less[t] = (-b) * down[t]
      BY <2>4, <2>9, <2>10
    <3> QED BY <1>1, <2>8, <3>1, SumScaled
  <2>13. \A t \in D : of[t] = more[t] + less[t] /\ more[t] \in Int /\ less[t] \in Int
    <3> TAKE t \in D
    <3>1. w[t] \in Int /\ more[t] = a * up[t] /\ less[t] = (-b) * down[t]
      BY <1>1, <2>9
    <3>2. CASE w[t] > 0
      <4>1. of[t] = a * w[t] /\ up[t] = w[t] /\ down[t] = 0
        BY <2>5, <2>7, <3>1, <3>2
      <4> QED BY <2>4, <3>1, <4>1
    <3>3. CASE ~(w[t] > 0)
      <4>1. of[t] = b * w[t] /\ up[t] = 0 /\ down[t] = -w[t]
        BY <2>5, <2>7, <3>1, <3>3
      <4>2. (-b) * (-w[t]) = b * w[t]
        BY <2>4, <3>1
      <4> QED BY <2>4, <3>1, <4>1, <4>2
    <3> QED BY <3>2, <3>3
  <2>14. SumFunctionOnSet(of, D) = a * long + (-b) * short
    BY <1>1, <2>11, <2>12, <2>13, SumAdded
  <2>15. SumFunction(of) = 0
    <3>1. a * long + (-b) * short = 0
      BY <1>2, <2>4
    <3> QED BY <2>6, <2>14, <3>1, SumOfFunction
  <2>16. ASSUME NEW s \in D, NEW t \in D, w[s] <= w[t] PROVE of[s] <= of[t]
    <3>1. w[s] \in Int /\ w[t] \in Int
      BY <1>1
    <3>2. a * w[s] <= a * w[t] /\ b * w[s] <= b * w[t]
      BY <2>4, <2>16, <3>1, ScaledOrder
    <3>3. w[t] > 0 => a * w[t] >= 0
      BY <2>4, <3>1
    <3>4. ~(w[s] > 0) => b * w[s] <= 0
      BY <2>4, <3>1
    <3>5. a * w[s] \in Int /\ a * w[t] \in Int /\ b * w[s] \in Int /\ b * w[t] \in Int
      BY <2>4, <3>1
    <3> QED BY <2>5, <2>16, <3>1, <3>2, <3>3, <3>4, <3>5
  <2>17. \A t \in D : Magnitude(of[t]) <= MaxPosition * (larger * book.unit)
    <3> TAKE t \in D
    <3>1. w[t] \in Int /\ Magnitude(w[t]) <= MaxPosition * book.unit
      BY <1>1 DEF WithinCap
    <3>2. PICK c \in Nat : of[t] = c * w[t] /\ c <= larger
      BY <2>4, <2>5
    <3>3. Magnitude(w[t]) \in Nat /\ Magnitude(of[t]) = c * Magnitude(w[t])
      <4>1. CASE w[t] < 0
        <5>1. c * w[t] <= 0 /\ c * w[t] \in Int /\ -(c * w[t]) = c * (-w[t])
          BY <3>1, <4>1
        <5> QED BY <3>1, <3>2, <4>1, <5>1 DEF Magnitude
      <4>2. CASE ~(w[t] < 0)
        <5>1. c * w[t] >= 0 /\ c * w[t] \in Int
          BY <3>1, <4>2
        <5> QED BY <3>1, <3>2, <4>2, <5>1 DEF Magnitude
      <4> QED BY <4>1, <4>2
    <3>4. Magnitude(w[t]) * c <= Magnitude(w[t]) * larger
      BY <2>2, <3>2, <3>3, ScaledOrder
    <3>5. larger * Magnitude(w[t]) <= larger * (MaxPosition * book.unit)
      <4>1. MaxPosition * book.unit \in Int
        BY <1>1
      <4> QED BY <2>2, <3>1, <3>3, <4>1, ScaledOrder
    <3>6. larger * (MaxPosition * book.unit) = MaxPosition * (larger * book.unit)
      BY <1>1, <2>2
    <3>7. Magnitude(w[t]) * c = c * Magnitude(w[t]) /\ Magnitude(w[t]) * larger = larger * Magnitude(w[t])
      BY <2>2, <3>2, <3>3
    <3>8. c * Magnitude(w[t]) \in Int /\ larger * Magnitude(w[t]) \in Int
          /\ MaxPosition * (larger * book.unit) \in Int
      BY <1>1, <2>2, <3>2, <3>3
    <3> QED BY <3>3, <3>4, <3>5, <3>6, <3>7, <3>8
  <2>18. larger * book.unit \in Nat /\ larger * book.unit > 0
    BY <1>1, <2>2
  <2>19. \A t \in D : of[t] \in Int
    BY <2>13
  <2>20. IsBook([of |-> of, unit |-> larger * book.unit])
    BY <1>1, <2>6, <2>18, <2>19 DEF IsBook
  <2>21. Keeps(book, [of |-> of, unit |-> larger * book.unit])
    BY <2>6, <2>16 DEF Keeps
  <2>22. WithinCap([of |-> of, unit |-> larger * book.unit])
    BY <2>6, <2>17 DEF WithinCap
  <2> QED BY <2>3, <2>15, <2>20, <2>21, <2>22
<1> QED BY <1>3, <1>4


\* The whole book comes down to the gross limit.
LEMMA LeveredBook ==
  ASSUME NEW book, IsBook(book), WithinCap(book), MaxPosition \in Nat, MaxGross \in Nat, MaxGross > 0
  PROVE  /\ IsBook(Levered(book)) /\ Keeps(book, Levered(book)) /\ WithinCap(Levered(book))
         /\ Gross(Levered(book).of) <= MaxGross * Levered(book).unit
         /\ SumFunction(book.of) = 0 => SumFunction(Levered(book).of) = 0
<1> DEFINE w == book.of
           D == DOMAIN w
           G == Gross(w)
           of == [t \in D |-> MaxGross * w[t]]
           size == [t \in D |-> Magnitude(w[t])]
           sized == [t \in D |-> Magnitude(of[t])]
<1>1. /\ IsFiniteSet(D) /\ \A t \in D : w[t] \in Int
      /\ book.unit \in Nat /\ book.unit > 0
  BY DEF IsBook
<1>2. G \in Nat
  BY <1>1, LegFacts
<1>3. CASE G <= MaxGross * book.unit
  <2>1. Levered(book) = book
    BY <1>3 DEF Levered
  <2>2. Keeps(book, book)
    BY DEF Keeps
  <2> QED BY <1>3, <2>1, <2>2
<1>4. CASE ~(G <= MaxGross * book.unit)
  <2>1. Levered(book) = [of |-> of, unit |-> G]
    BY <1>4 DEF Levered
  <2>2. MaxGross * book.unit \in Nat
    BY <1>1
  <2>3. MaxGross * book.unit < G /\ G > 0
    BY <1>2, <1>4, <2>2
  <2>4. DOMAIN of = D /\ \A t \in D : of[t] = MaxGross * w[t] /\ of[t] \in Int
    BY <1>1
  <2>5. DOMAIN size = D /\ DOMAIN sized = D
        /\ \A t \in D : size[t] = Magnitude(w[t]) /\ sized[t] = Magnitude(of[t])
    OBVIOUS
  <2>6. Gross(w) = SumFunction(size) /\ Gross(of) = SumFunction(sized)
    BY <2>4 DEF Gross
  <2> HIDE DEF of, size, sized, G
  <2>7. \A t \in D : size[t] \in Nat /\ sized[t] = MaxGross * size[t]
    <3> TAKE t \in D
    <3>1. w[t] \in Int /\ of[t] = MaxGross * w[t] /\ of[t] \in Int
      BY <1>1, <2>4
    <3>2. CASE w[t] < 0
      <4>1. MaxGross * w[t] < 0 /\ MaxGross * (-w[t]) = -(MaxGross * w[t])
        BY <3>1, <3>2
      <4> QED BY <2>5, <3>1, <3>2, <4>1 DEF Magnitude
    <3>3. CASE ~(w[t] < 0)
      <4>1. MaxGross * w[t] >= 0
        BY <3>1, <3>3
      <4> QED BY <2>5, <3>1, <3>3, <4>1 DEF Magnitude
    <3> QED BY <3>2, <3>3
  <2>8. SumFunctionOnSet(sized, D) = MaxGross * SumFunctionOnSet(size, D)
    <3>1. MaxGross \in Int /\ \A t \in D : size[t] \in Int /\ sized[t] = MaxGross * size[t]
      BY <2>7
    <3> QED BY <1>1, <3>1, SumScaled
  <2>9. Gross(of) = MaxGross * G
    BY <2>5, <2>6, <2>8, SumOfFunction DEF G
  <2>10. SumFunction(w) = 0 => SumFunction(of) = 0
    <3>1. MaxGross \in Int /\ \A t \in D : w[t] \in Int /\ of[t] = MaxGross * w[t]
      BY <1>1, <2>4
    <3>2. SumFunctionOnSet(of, D) = MaxGross * SumFunctionOnSet(w, D)
      BY <1>1, <3>1, SumScaled
    <3>3. MaxGross * 0 = 0
      OBVIOUS
    <3> QED BY <2>4, <3>2, <3>3, SumOfFunction
  <2>11. \A t \in D : Magnitude(of[t]) <= MaxPosition * G
    <3> TAKE t \in D
    <3>1. size[t] \in Int /\ size[t] <= MaxPosition * book.unit /\ MaxPosition * book.unit \in Int
      BY <1>1, <2>5, <2>7 DEF WithinCap
    <3>2. MaxGross * size[t] <= MaxGross * (MaxPosition * book.unit)
      BY <3>1, ScaledOrder
    <3>3. MaxPosition * (MaxGross * book.unit) <= MaxPosition * G
      BY <1>2, <2>2, <2>3, ScaledOrder
    <3>4. MaxGross * (MaxPosition * book.unit) = MaxPosition * (MaxGross * book.unit)
      BY <1>1
    <3>5. /\ MaxGross * size[t] \in Int /\ MaxPosition * G \in Int
          /\ MaxPosition * (MaxGross * book.unit) \in Int
      BY <1>1, <1>2, <3>1
    <3>6. Magnitude(of[t]) = MaxGross * size[t]
      BY <2>5, <2>7
    <3> QED BY <3>2, <3>3, <3>4, <3>5, <3>6
  <2>12. ASSUME NEW s \in D, NEW t \in D, w[s] <= w[t] PROVE of[s] <= of[t]
    BY <1>1, <2>4, <2>12, ScaledOrder
  <2>13. IsBook([of |-> of, unit |-> G])
    BY <1>1, <1>2, <2>3, <2>4 DEF IsBook
  <2>14. Keeps(book, [of |-> of, unit |-> G])
    BY <2>4, <2>12 DEF Keeps
  <2>15. WithinCap([of |-> of, unit |-> G])
    BY <2>4, <2>11 DEF WithinCap
  <2>16. MaxGross * G <= MaxGross * G
    BY <1>2
  <2> QED BY <2>1, <2>9, <2>10, <2>13, <2>14, <2>15, <2>16
<1> QED BY <1>3, <1>4

\* No step undoes what the ones before it did.
LEMMA EnforcedBook ==
  ASSUME NEW book, IsBook(book), DOMAIN book.of # {}, NEW neutral \in BOOLEAN,
         MaxPosition \in Nat, MaxPosition > 0, MaxGross \in Nat, MaxGross > 0
  PROVE  /\ Feasible(Enforced(book, neutral), neutral)
         /\ neutral => SumFunction(Enforced(book, neutral).of) = 0
         /\ Keeps(book, Enforced(book, neutral))
<1>1. \A a, b, c : Keeps(a, b) /\ Keeps(b, c) => Keeps(a, c)
  BY DEF Keeps
<1>2. \A b : /\ WithinCap(b) /\ Gross(b.of) <= MaxGross * b.unit
             /\ neutral => SumFunction(b.of) = 0 /\ b.unit \in Nat
             => Feasible(b, neutral)
  <2>1. 20 * Magnitude(0) = 0
    BY DEF Magnitude
  <2> QED BY <2>1 DEF Feasible, WithinCap
<1>3. CASE neutral
  <2> DEFINE even == Demeaned(book)
             capped == Capped(even)
             balanced == Balanced(capped)
  <2>1. Enforced(book, neutral) = Levered(balanced)
    BY <1>3 DEF Enforced
  <2>2. IsBook(even) /\ Keeps(book, even) /\ SumFunction(even.of) = 0
    BY DemeanedBook
  <2> HIDE DEF even
  <2>3. /\ IsBook(capped) /\ Keeps(even, capped) /\ WithinCap(capped)
        /\ \A t \in DOMAIN even.of : /\ capped.of[t] > 0 <=> even.of[t] > 0
                                     /\ capped.of[t] < 0 <=> even.of[t] < 0
    BY <2>2, CappedBook
  <2> HIDE DEF capped
  <2>4. LongLeg(capped.of) > 0 <=> ShortLeg(capped.of) > 0
    <3>1. LongLeg(even.of) > 0 <=> ShortLeg(even.of) > 0
      <4>1. /\ LongLeg(even.of) \in Nat /\ ShortLeg(even.of) \in Nat
            /\ SumFunction(even.of) = LongLeg(even.of) - ShortLeg(even.of)
        BY <2>2, LegFacts DEF IsBook
      <4> QED BY <2>2, <4>1
    <3>2. /\ LongLeg(even.of) > 0 <=> \E t \in DOMAIN even.of : even.of[t] > 0
          /\ ShortLeg(even.of) > 0 <=> \E t \in DOMAIN even.of : even.of[t] < 0
      BY <2>2, LegFacts DEF IsBook
    <3>3. /\ LongLeg(capped.of) > 0 <=> \E t \in DOMAIN capped.of : capped.of[t] > 0
          /\ ShortLeg(capped.of) > 0 <=> \E t \in DOMAIN capped.of : capped.of[t] < 0
      BY <2>3, LegFacts DEF IsBook
    <3>4. DOMAIN capped.of = DOMAIN even.of
      BY <2>3 DEF Keeps
    <3> QED BY <2>3, <3>1, <3>2, <3>3, <3>4
  <2>5. /\ IsBook(balanced) /\ Keeps(capped, balanced) /\ WithinCap(balanced)
        /\ SumFunction(balanced.of) = 0
    BY <2>3, <2>4, BalancedBook
  <2> HIDE DEF balanced
  <2>6. /\ IsBook(Levered(balanced)) /\ Keeps(balanced, Levered(balanced))
        /\ WithinCap(Levered(balanced))
        /\ Gross(Levered(balanced).of) <= MaxGross * Levered(balanced).unit
        /\ SumFunction(Levered(balanced).of) = 0
    BY <2>5, LeveredBook
  <2>7. Levered(balanced).unit \in Nat
    BY <2>6 DEF IsBook
  <2>8. Feasible(Levered(balanced), neutral)
    BY <1>2, <2>6, <2>7
  <2>9. Keeps(book, Levered(balanced))
    BY <1>1, <2>2, <2>3, <2>5, <2>6
  <2> QED BY <2>1, <2>6, <2>8, <2>9
<1>4. CASE ~neutral
  <2> DEFINE capped == Capped(book)
  <2>1. Enforced(book, neutral) = Levered(capped)
    BY <1>4 DEF Enforced
  <2>2. IsBook(capped) /\ Keeps(book, capped) /\ WithinCap(capped)
    BY CappedBook
  <2> HIDE DEF capped
  <2>3. /\ Keeps(capped, Levered(capped)) /\ WithinCap(Levered(capped))
        /\ Gross(Levered(capped).of) <= MaxGross * Levered(capped).unit
    BY <2>2, LeveredBook
  <2>4. Feasible(Levered(capped), neutral)
    BY <1>2, <1>4, <2>3
  <2> QED BY <1>1, <1>4, <2>1, <2>2, <2>3, <2>4
<1> QED BY <1>3, <1>4


--------------------------------------------------------------------------------
(* Tilted books are feasible                                                    *)

\* Finitely many bars with positive closes, and finitely many whole scores.
BarsOk(bars) == IsFiniteSet(bars) /\ \A b \in bars : b.close \in Nat /\ b.close > 0
ScoresOk(scores) == IsFiniteSet(scores) /\ \A s \in scores : s.raw \in Int

LEMMA ReturnFacts ==
  ASSUME NEW bars, BarsOk(bars), NEW asOf
  PROVE  /\ IsFiniteSet(ReturnsAsOf(bars, asOf))
         /\ \A r \in ReturnsAsOf(bars, asOf) : r.return \in Int
<1> DEFINE known == BarsAsOf(bars, asOf)
           Since(bar, last) == [ticker |-> bar.ticker, date |-> bar.date,
                                return |-> (2 * bar.close) \div last.close - 2]
           g == [p \in known \X known |-> Since(p[1], p[2])]
           R == ReturnsAsOf(bars, asOf)
<1>1. IsFiniteSet(known) /\ known \subseteq bars
  <2>1. known \subseteq bars
    BY DEF BarsAsOf
  <2> QED BY <2>1, FS_Subset DEF BarsOk
<1>2. \A r \in R : \E bar \in known, last \in known : r = Since(bar, last)
  <2>1. R = UNION {{Since(bar, last) : last \in LastBefore(known, bar)} : bar \in known}
    BY Zenon DEF ReturnsAsOf
  <2>2. \A bar : LastBefore(known, bar) \subseteq known
    BY DEF LastBefore
  <2> HIDE DEF Since, known, R
  <2> QED BY <2>1, <2>2
<1>3. R \subseteq {g[p] : p \in known \X known}
  <2>1. \A bar \in known, last \in known : Since(bar, last) = g[<<bar, last>>] /\ <<bar, last>> \in known \X known
    OBVIOUS
  <2> HIDE DEF g, Since, known, R
  <2>2. ASSUME NEW r \in R PROVE \E p \in known \X known : r = g[p]
    BY <1>2, <2>1, Zenon
  <2> QED BY <2>2
<1>4. IsFiniteSet({g[p] : p \in known \X known})
  <2>1. IsFiniteSet(known \X known)
    BY <1>1, FS_Product
  <2>2. known \X known \subseteq DOMAIN g
    OBVIOUS
  <2> HIDE DEF g, known
  <2> QED BY <2>1, <2>2, FiniteImage
<1>5. IsFiniteSet(R)
  <2> HIDE DEF g, known, R
  <2> QED BY <1>3, <1>4, FS_Subset
<1>6. \A bar \in known, last \in known : Since(bar, last).return \in Int
  <2> SUFFICES ASSUME NEW bar \in known, NEW last \in known
               PROVE  (2 * bar.close) \div last.close - 2 \in Int
    OBVIOUS
  <2>1. bar.close \in Int /\ last.close \in Int /\ last.close > 0
    BY <1>1 DEF BarsOk
  <2> QED BY <2>1
<1> HIDE DEF Since, known
<1> QED BY <1>2, <1>5, <1>6

LEMMA VolFacts ==
  ASSUME NEW bars, BarsOk(bars), NEW asOf
  PROVE  LET vols == TrailingVols(bars, asOf)
         IN  IsFiniteSet(DOMAIN vols) /\ \A t \in DOMAIN vols : vols[t] \in Int
<1> DEFINE R == ReturnsAsOf(bars, asOf)
           names == {r.ticker : r \in R}
           days == [t \in names |->
                      LatestOf({r.date : r \in {q \in R : q.ticker = t}}, VolLookback)]
           Values(t) == {r.return : r \in {q \in R : q.ticker = t /\ q.date \in days[t]}}
           kept == {u \in DOMAIN days : Cardinality(days[u]) >= 2}
           vols == [t \in kept |-> Max(Values(t)) - Min(Values(t))]
<1>1. TrailingVols(bars, asOf) = vols
  BY Zenon DEF TrailingVols
<1>2. IsFiniteSet(R) /\ \A r \in R : r.return \in Int
  BY ReturnFacts
<1> HIDE DEF R
<1>3. IsFiniteSet(kept) /\ kept \subseteq names
  <2> DEFINE ticker == [r \in R |-> r.ticker]
  <2>1. IsFiniteSet({ticker[r] : r \in R})
    <3>1. R \subseteq DOMAIN ticker
      OBVIOUS
    <3> HIDE DEF ticker
    <3> QED BY <1>2, <3>1, FiniteImage
  <2>2. {ticker[r] : r \in R} = names
    OBVIOUS
  <2>3. kept \subseteq names
    OBVIOUS
  <2> HIDE DEF ticker, names, kept
  <2> QED BY <2>1, <2>2, <2>3, FS_Subset
<1>4. ASSUME NEW t \in kept PROVE Max(Values(t)) - Min(Values(t)) \in Int
  <2> DEFINE own == {q \in R : q.ticker = t /\ q.date \in days[t]}
             return == [r \in own |-> r.return]
  <2>1. days[t] \subseteq {r.date : r \in {q \in R : q.ticker = t}}
    <3>1. t \in names
      BY <1>3
    <3>2. days[t] = LatestOf({r.date : r \in {q \in R : q.ticker = t}}, VolLookback)
      BY <3>1
    <3> HIDE DEF days
    <3> QED BY <3>2 DEF LatestOf
  <2>2. days[t] # {}
    <3>1. Cardinality(days[t]) >= 2
      OBVIOUS
    <3> HIDE DEF days
    <3> QED BY <3>1, FS_EmptySet
  <2> HIDE DEF days, kept
  <2>3. own # {}
    BY <2>1, <2>2
  <2>4. IsFiniteSet(own) /\ own \subseteq R
    <3>1. own \subseteq R
      OBVIOUS
    <3> HIDE DEF own
    <3> QED BY <1>2, <3>1, FS_Subset
  <2>5. Values(t) = {return[r] : r \in own}
    OBVIOUS
  <2>6. DOMAIN return = own /\ \A r \in own : return[r] \in Int
    BY <1>2
  <2> HIDE DEF return, own
  <2>7. IsFiniteSet({return[r] : r \in own})
    BY <2>4, <2>6, FiniteImage
  <2> HIDE DEF Values
  <2>8. Values(t) # {} /\ \A v \in Values(t) : v \in Int
    BY <2>3, <2>5, <2>6
  <2>9. IsFiniteSet(Values(t))
    BY <2>5, <2>7
  <2>10. Max(Values(t)) \in Values(t) /\ Min(Values(t)) \in Values(t)
    BY <2>8, <2>9, ExtremesOfFinite
  <2> QED BY <2>8, <2>10
<1>5. DOMAIN vols = kept /\ \A t \in kept : vols[t] = Max(Values(t)) - Min(Values(t))
  OBVIOUS
<1> HIDE DEF vols, kept, Values
<1> QED BY <1>1, <1>3, <1>4, <1>5

\* A median is between two of the values.
LEMMA MedianFacts ==
  ASSUME NEW f, IsFiniteSet(DOMAIN f), DOMAIN f # {}, \A t \in DOMAIN f : f[t] \in Nat /\ f[t] > 0
  PROVE  TwiceMedian(f) \in Nat /\ TwiceMedian(f) > 0
<1> DEFINE D == DOMAIN f
           n == Cardinality(D)
           Half(names) == 2 * Cardinality(names) >= n
           low  == {t \in D : Half({u \in D : f[u] <= f[t]})}
           high == {t \in D : Half({u \in D : f[u] >= f[t]})}
           all == {f[t] : t \in D}
<1>1. TwiceMedian(f) = Min({f[t] : t \in low}) + Max({f[t] : t \in high})
  BY Zenon DEF TwiceMedian
<1>2. IsFiniteSet(all) /\ all # {} /\ \A v \in all : v \in Int /\ v > 0
  BY FiniteImage
<1>3. PICK s \in D : f[s] = Min(all)
  <2>1. Min(all) \in all
    <3> HIDE DEF all
    <3> QED BY <1>2, ExtremesOfFinite
  <2> QED BY <2>1
<1>4. PICK t \in D : f[t] = Max(all)
  <2>1. Max(all) \in all
    <3> HIDE DEF all
    <3> QED BY <1>2, ExtremesOfFinite
  <2> QED BY <2>1
<1>5. \A u \in D : f[s] <= f[u] /\ f[u] <= f[t]
  <2>1. \A v \in all : Min(all) <= v /\ v <= Max(all)
    <3> HIDE DEF all
    <3> QED BY <1>2, ExtremesOfFinite
  <2> QED BY <1>3, <1>4, <2>1
<1>6. Half(D)
  <2>1. n \in Nat
    BY FS_CardinalityType
  <2> QED BY <2>1
<1>7. {u \in D : f[u] <= f[t]} = D /\ {u \in D : f[u] >= f[s]} = D
  BY <1>5
<1>8. t \in low /\ s \in high
  <2> HIDE DEF n
  <2> QED BY <1>6, <1>7
<1>9. low \subseteq D /\ high \subseteq D
  OBVIOUS
<1> HIDE DEF low, high, all
<1>10. \A part : part \in SUBSET D /\ part # {} =>
          /\ Min({f[u] : u \in part}) \in {f[u] : u \in part}
          /\ Max({f[u] : u \in part}) \in {f[u] : u \in part}
  <2> SUFFICES ASSUME NEW part \in SUBSET D, part # {}
               PROVE  /\ Min({f[u] : u \in part}) \in {f[u] : u \in part}
                      /\ Max({f[u] : u \in part}) \in {f[u] : u \in part}
    OBVIOUS
  <2>1. IsFiniteSet(part)
    BY FS_Subset
  <2>2. IsFiniteSet({f[u] : u \in part})
    BY <2>1, FiniteImage
  <2>3. {f[u] : u \in part} # {} /\ \A v \in {f[u] : u \in part} : v \in Int
    OBVIOUS
  <2> QED BY <2>2, <2>3, ExtremesOfFinite, Zenon
<1>11. /\ Min({f[u] : u \in low}) \in {f[u] : u \in low}
       /\ Max({f[u] : u \in high}) \in {f[u] : u \in high}
  BY <1>8, <1>9, <1>10
<1>12. PICK p \in low, q \in high : Min({f[u] : u \in low}) = f[p] /\ Max({f[u] : u \in high}) = f[q]
  BY <1>11
<1> QED BY <1>1, <1>9, <1>12

LEMMA TwiceVolFacts ==
  ASSUME NEW vols, IsFiniteSet(DOMAIN vols), \A t \in DOMAIN vols : vols[t] \in Int, NEW ticker
  PROVE  TwiceVol(vols, ticker) \in Nat /\ TwiceVol(vols, ticker) > 0
<1> DEFINE kept == {u \in DOMAIN vols : vols[u] > 0}
           positive == [t \in kept |-> vols[t]]
<1>1. TwiceVol(vols, ticker) = IF ticker \in DOMAIN positive THEN 2 * positive[ticker]
                               ELSE IF DOMAIN positive = {} THEN 2 ELSE TwiceMedian(positive)
  BY Zenon DEF TwiceVol
<1>2. IsFiniteSet(kept)
  BY FS_Subset
<1>3. DOMAIN positive = kept /\ \A t \in kept : positive[t] \in Nat /\ positive[t] > 0
  OBVIOUS
<1> HIDE DEF kept, positive
<1>4. kept # {} => TwiceMedian(positive) \in Nat /\ TwiceMedian(positive) > 0
  BY <1>2, <1>3, MedianFacts
<1> QED BY <1>1, <1>3, <1>4

LEMMA DayScoreFacts ==
  ASSUME NEW scores, ScoresOk(scores), NEW asOf
  PROVE  LET raw == DayScores(scores, asOf)
             z   == Standardized(raw)
         IN  /\ IsFiniteSet(DOMAIN z) /\ \A t \in DOMAIN z : z[t] \in Int
<1> DEFINE raw == DayScores(scores, asOf)
           own == {s \in scores : s.date = asOf}
           names == {s.ticker : s \in own}
           ticker == [s \in scores |-> s.ticker]
<1>1. IsFiniteSet(own)
  BY FS_Subset DEF ScoresOk
<1>2. IsFiniteSet(names)
  <2>1. own \subseteq DOMAIN ticker /\ names = {ticker[s] : s \in own}
    OBVIOUS
  <2> HIDE DEF own, ticker, names
  <2> QED BY <1>1, <2>1, FiniteImage
<1>3. DOMAIN raw = names /\ \A t \in names : raw[t] = (CHOOSE s \in own : s.ticker = t).raw
  BY DEF DayScores
<1>4. \A t \in names : raw[t] \in Int
  <2> SUFFICES ASSUME NEW t \in names PROVE (CHOOSE s \in own : s.ticker = t).raw \in Int
    BY <1>3
  <2>1. \E s \in own : s.ticker = t
    OBVIOUS
  <2>2. (CHOOSE s \in own : s.ticker = t) \in own
    BY <2>1
  <2> QED BY <2>2 DEF ScoresOk
<1> HIDE DEF raw, names
<1> DEFINE flat == [of |-> raw, unit |-> 1]
<1>5. Standardized(raw) = Demeaned(flat).of
  BY DEF Standardized
<1>6. DOMAIN Standardized(raw) = names
  BY <1>3, <1>5 DEF Demeaned
<1>7. names # {} => \A t \in names : Standardized(raw)[t] \in Int
  <2> HAVE names # {}
  <2>1. IsBook(flat)
    BY <1>2, <1>3, <1>4 DEF IsBook
  <2>2. DOMAIN flat.of # {}
    BY <1>3
  <2> HIDE DEF flat
  <2>3. IsBook(Demeaned(flat))
    BY <2>1, <2>2, DemeanedBook
  <2> QED BY <1>5, <1>6, <2>3 DEF IsBook
<1>8. IsFiniteSet(DOMAIN Standardized(raw)) /\ \A t \in DOMAIN Standardized(raw) : Standardized(raw)[t] \in Int
  BY <1>2, <1>6, <1>7
<1> QED BY <1>8 DEF raw

LEMMA TiltFacts ==
  ASSUME NEW scores, ScoresOk(scores), NEW bars, BarsOk(bars), NEW asOf, NEW unit \in Nat, unit > 0
  PROVE  IsBook(RawWeights(scores, bars, asOf, unit))
<1> DEFINE z == Standardized(DayScores(scores, asOf))
           vols == TrailingVols(bars, asOf)
           of == [t \in DOMAIN z |-> z[t] * (60 \div TwiceVol(vols, t))]
<1>1. RawWeights(scores, bars, asOf, unit) = [of |-> of, unit |-> unit]
  BY Zenon DEF RawWeights
<1>2. IsFiniteSet(DOMAIN z) /\ \A t \in DOMAIN z : z[t] \in Int
  BY DayScoreFacts
<1>3. IsFiniteSet(DOMAIN vols) /\ \A t \in DOMAIN vols : vols[t] \in Int
  BY VolFacts
<1> HIDE DEF z, vols
<1>4. ASSUME NEW t \in DOMAIN z PROVE of[t] \in Int
  <2>1. TwiceVol(vols, t) \in Nat /\ TwiceVol(vols, t) > 0
    BY <1>3, TwiceVolFacts
  <2>2. 60 \div TwiceVol(vols, t) \in Int
    BY <2>1
  <2>3. z[t] * (60 \div TwiceVol(vols, t)) \in Int
    BY <1>2, <2>2
  <2> QED BY <2>3
<1>5. DOMAIN of = DOMAIN z
  OBVIOUS
<1> HIDE DEF of
<1> QED BY <1>1, <1>2, <1>4, <1>5 DEF IsBook

\* What the desk has of a book's market, at every point.
BookOk ==
    kind = "book" => /\ feed = [bars |-> feed.bars, scores |-> feed.scores]
                     /\ BarsOk(feed.bars) /\ ScoresOk(feed.scores)

LEMMA BooksAreFeasible == BookOk => BookIsFeasible
<1> SUFFICES ASSUME BookOk, kind = "book", NEW unit \in Units, NEW neutral \in BOOLEAN,
                    NEW tilts, tilts = RawWeights(feed.scores, feed.bars, today, unit),
                    NEW book \in {TiltedBook(tilts, neutral)} \ {NoBook}
             PROVE  /\ Feasible(book, neutral)
                    /\ neutral => SumFunction(book.of) = 0
                    /\ \A s, t \in DOMAIN book.of :
                          tilts.of[s] <= tilts.of[t] => book.of[s] <= book.of[t]
  BY DEF BookIsFeasible
<1>1. unit \in Nat /\ unit > 0
  BY SessionsAssumption DEF SessionsAssumption
<1>2. IsBook(tilts)
  BY <1>1, TiltFacts DEF BookOk
<1>3. DOMAIN tilts.of # {} /\ book = Enforced(tilts, neutral)
  BY DEF TiltedBook
<1>4. MaxPosition \in Nat /\ MaxPosition > 0 /\ MaxGross \in Nat /\ MaxGross > 0
  BY LimitsAssumption DEF LimitsAssumption
<1>5. /\ Feasible(Enforced(tilts, neutral), neutral)
      /\ neutral => SumFunction(Enforced(tilts, neutral).of) = 0
      /\ Keeps(tilts, Enforced(tilts, neutral))
  BY <1>2, <1>3, <1>4, EnforcedBook
<1> QED BY <1>3, <1>5 DEF Keeps


LEMMA BookInit == Init => BookOk
<1> SUFFICES ASSUME Init, kind = "book"
             PROVE  /\ feed = [bars |-> feed.bars, scores |-> feed.scores]
                    /\ BarsOk(feed.bars) /\ ScoresOk(feed.scores)
  BY DEF BookOk
<1>1. feed = NoRecords
  BY DEF Init, DeskKinds, EmptyDesk
<1> QED BY <1>1, FS_EmptySet DEF NoRecords, BarsOk, ScoresOk

LEMMA BookStep == BookOk /\ [Next]_vars => BookOk'
<1> SUFFICES ASSUME BookOk, [Next]_vars, kind' = "book"
             PROVE  /\ feed' = [bars |-> feed'.bars, scores |-> feed'.scores]
                    /\ BarsOk(feed'.bars) /\ ScoresOk(feed'.scores)
  BY DEF BookOk
<1>1. kind = "book" /\ (feed' = feed \/ Score \/ Close)
  BY DEF Next, VendorNext, DeskNext, Disclose, Load, Link, Unlink, ListAs, Delist, Estimate, Report,
         Score, Close, Validate, Trade, List, TakeIn, Tomorrow, DayRows, vars
<1>2. /\ feed = [bars |-> feed.bars, scores |-> feed.scores]
      /\ BarsOk(feed.bars) /\ ScoresOk(feed.scores)
  BY <1>1 DEF BookOk
<1>3. CASE feed' = feed
  BY <1>2, <1>3
<1>4. CASE Score
  <2>1. PICK ticker \in Names, raw \in {-1, 1} :
           feed' = [feed EXCEPT !.scores = @ \cup {[ticker |-> ticker, date |-> today, raw |-> raw]}]
    BY <1>4 DEF Score
  <2> DEFINE score == [ticker |-> ticker, date |-> today, raw |-> raw]
  <2>2. feed' = [bars |-> feed.bars, scores |-> feed.scores \cup {score}]
    BY <1>2, <2>1
  <2>3. score.raw \in Int
    OBVIOUS
  <2> HIDE DEF score
  <2>4. IsFiniteSet(feed.scores \cup {score})
    BY <1>2, FS_AddElement DEF ScoresOk
  <2> QED BY <1>2, <2>2, <2>3, <2>4 DEF ScoresOk
<1>5. CASE Close
  <2>1. PICK session \in Sessions : feed' = [feed EXCEPT !.bars = @ \cup
           {[ticker |-> t, date |-> today, close |-> session[t]] : t \in DOMAIN session}]
    BY <1>5 DEF Close
  <2> DEFINE bar == [t \in DOMAIN session |-> [ticker |-> t, date |-> today, close |-> session[t]]]
             more == {bar[t] : t \in DOMAIN session}
  <2>2. feed' = [bars |-> feed.bars \cup more, scores |-> feed.scores]
    <3>1. {[ticker |-> t, date |-> today, close |-> session[t]] : t \in DOMAIN session} = more
      OBVIOUS
    <3> HIDE DEF more
    <3> QED BY <1>2, <2>1, <3>1
  <2>3. IsFiniteSet(DOMAIN session) /\ \A t \in DOMAIN session : session[t] \in Nat /\ session[t] > 0
    BY SessionsAssumption DEF SessionsAssumption
  <2>4. DOMAIN bar = DOMAIN session /\ \A t \in DOMAIN session : bar[t].close \in Nat /\ bar[t].close > 0
    BY <2>3
  <2> HIDE DEF bar
  <2>5. IsFiniteSet(more)
    BY <2>3, <2>4, FiniteImage
  <2>6. \A b \in more : b.close \in Nat /\ b.close > 0
    BY <2>4
  <2> HIDE DEF more
  <2>7. IsFiniteSet(feed.bars \cup more)
    BY <1>2, <2>5, FS_Union DEF BarsOk
  <2>8. BarsOk(feed.bars \cup more)
    BY <1>2, <2>6, <2>7 DEF BarsOk
  <2> QED BY <1>2, <2>2, <2>8
<1> QED BY <1>1, <1>3, <1>4, <1>5

LEMMA BookInvariant == Spec => []BookOk
BY BookInit, BookStep, PTL DEF Spec

--------------------------------------------------------------------------------
(* The loss a book reports                                                      *)

LEMMA SomeOfSize ==
  ASSUME NEW S, IsFiniteSet(S), NEW k \in Nat, k <= Cardinality(S)
  PROVE  \E s \in SUBSET S : Cardinality(s) = k
<1> DEFINE n == Cardinality(S)
<1>1. n \in Nat
  BY FS_CardinalityType
<1>2. PICK f : f \in Bijection(1..n, S)
  BY FS_CardinalityType DEF ExistsBijection
<1> HIDE DEF n
<1>3. DOMAIN f = 1..n /\ (\A i \in 1..n : f[i] \in S) /\ \A i, j \in 1..n : f[i] = f[j] => i = j
  BY <1>2 DEF Bijection, Injection, IsInjective
<1>4. 1..k \subseteq 1..n
  BY <1>1 DEF n
<1>5. IsFiniteSet(1..k) /\ Cardinality(1..k) = k
  <2>1. IsFiniteSet(1..k) /\ Cardinality(1..k) = IF 1 > k THEN 0 ELSE k - 1 + 1
    BY FS_Interval
  <2> QED BY <2>1
<1>6. Cardinality({f[i] : i \in 1..k}) = Cardinality(1..k)
  <2> DEFINE first == 1..k
  <2>1. first \subseteq DOMAIN f /\ IsFiniteSet(first)
    BY <1>3, <1>4, <1>5
  <2>2. \A i, j \in first : f[i] = f[j] => i = j
    BY <1>3, <1>4
  <2> HIDE DEF first
  <2>3. Cardinality({f[i] : i \in first}) = Cardinality(first)
    BY <2>1, <2>2, ImageCount
  <2> QED BY <2>3 DEF first
<1>7. {f[i] : i \in 1..k} \in SUBSET S
  BY <1>3, <1>4
<1> QED BY <1>5, <1>6, <1>7

\* The k worst of the returns: some k of them sum to the least, and none of the others is
\* below the best of those.
LEMMA WorstFacts ==
  ASSUME NEW r, IsFiniteSet(DOMAIN r), \A d \in DOMAIN r : r[d] \in Int,
         NEW k \in Nat, k > 0, k <= Cardinality(DOMAIN r)
  PROVE  LET least == Min({SumFunctionOnSet(r, tail) : tail \in kSubset(k, DOMAIN r)})
         IN  \E tail \in SUBSET DOMAIN r :
               /\ Cardinality(tail) = k /\ SumFunctionOnSet(r, tail) = least /\ least \in Int
               /\ \A s \in SUBSET DOMAIN r : Cardinality(s) = k => least <= SumFunctionOnSet(r, s)
               /\ \E d \in tail : /\ \A e \in tail : r[e] <= r[d]
                                  /\ \A e \in DOMAIN r \ tail : r[d] <= r[e]
<1> DEFINE D == DOMAIN r
           Sum(s) == SumFunctionOnSet(r, s)
           tails == kSubset(k, D)
           sums == {Sum(s) : s \in tails}
           sum == [s \in SUBSET D |-> Sum(s)]
<1>1. tails \subseteq SUBSET D /\ \A s \in SUBSET D : s \in tails <=> Cardinality(s) = k
  BY DEF kSubset
<1>2. \A s \in SUBSET D : /\ Sum(s) \in Int
                          /\ \A x \in s : Sum(s) = r[x] + Sum(s \ {x}) /\ Sum(s \ {x}) \in Int
  BY SubsetSum
<1>3. tails # {}
  BY <1>1, SomeOfSize
<1>4. IsFiniteSet(tails)
  <2>1. IsFiniteSet(SUBSET D)
    BY FS_SUBSET
  <2> QED BY <1>1, <2>1, FS_Subset
<1> HIDE DEF tails
<1>5. IsFiniteSet(sums)
  <2>1. tails \subseteq DOMAIN sum /\ sums = {sum[s] : s \in tails}
    BY <1>1
  <2> HIDE DEF sum, sums
  <2> QED BY <1>4, <2>1, FiniteImage
<1>6. sums # {} /\ \A v \in sums : v \in Int
  BY <1>1, <1>2, <1>3
<1>7. Min(sums) \in sums /\ \A v \in sums : Min(sums) <= v
  <2> HIDE DEF sums
  <2> QED BY <1>5, <1>6, ExtremesOfFinite
<1>8. PICK tail \in tails : Min(sums) = Sum(tail)
  BY <1>7
<1>9. tail \in SUBSET D /\ Cardinality(tail) = k /\ IsFiniteSet(tail)
  BY <1>1, FS_Subset
<1>10. \A s \in SUBSET D : Cardinality(s) = k => Sum(tail) <= Sum(s)
  BY <1>1, <1>7, <1>8
<1>11. PICK d \in tail : \A e \in tail : r[e] <= r[d]
  <2> DEFINE own == {r[e] : e \in tail}
  <2>1. tail # {}
    BY <1>9, FS_EmptySet
  <2>2. IsFiniteSet(own)
    BY <1>9, FiniteImage
  <2>3. own # {} /\ \A v \in own : v \in Int
    BY <1>9, <2>1
  <2>4. Max(own) \in own /\ \A v \in own : v <= Max(own)
    <3> HIDE DEF own
    <3> QED BY <2>2, <2>3, ExtremesOfFinite
  <2> QED BY <2>4
<1>12. ASSUME NEW e \in D \ tail, ~(r[d] <= r[e]) PROVE FALSE
  <2> DEFINE rest == tail \ {d}
             swapped == rest \cup {e}
  <2>1. IsFiniteSet(rest) /\ Cardinality(rest) = k - 1
    BY <1>9, FS_RemoveElement
  <2>2. Cardinality(swapped) = k
    <3>1. Cardinality(swapped) = Cardinality(rest) + 1
      BY <2>1, FS_AddElement
    <3> QED BY <2>1, <3>1
  <2>3. swapped \in SUBSET D /\ e \in swapped /\ swapped \ {e} = rest
    BY <1>9
  <2>4. Sum(swapped) = r[e] + Sum(rest) /\ Sum(rest) \in Int
    BY <1>2, <2>3
  <2>5. Sum(tail) = r[d] + Sum(rest)
    BY <1>2, <1>9
  <2>6. Sum(tail) <= Sum(swapped)
    BY <1>10, <2>2, <2>3
  <2>7. r[e] \in Int /\ r[d] \in Int
    BY <1>9
  <2> HIDE DEF Sum, swapped, rest
  <2> QED BY <1>12, <2>4, <2>5, <2>6, <2>7
<1>13. sums = {SumFunctionOnSet(r, s) : s \in kSubset(k, DOMAIN r)}
  BY DEF tails
<1> HIDE DEF sums
<1>14. Sum(tail) \in Int
  BY <1>2, <1>9
<1> QED BY <1>8, <1>9, <1>10, <1>11, <1>12, <1>13, <1>14


\* The losses above a level: never less than what some k of them exceed it by, and no more
\* when none of the others exceeds it.
LEMMA ExcessFacts ==
  ASSUME NEW r, IsFiniteSet(DOMAIN r), \A d \in DOMAIN r : r[d] \in Int,
         NEW tail \in SUBSET DOMAIN r, NEW alpha \in Int
  PROVE  LET Excess == SumFunction([d \in DOMAIN r |-> Max({0, -r[d] - alpha})])
             above == -SumFunctionOnSet(r, tail) - alpha * Cardinality(tail)
         IN  /\ Excess \in Int /\ Excess >= 0 /\ Excess >= above
             /\ (/\ \A d \in tail : -r[d] >= alpha
                 /\ \A d \in DOMAIN r \ tail : -r[d] <= alpha) => Excess = above
<1> DEFINE D == DOMAIN r
           over == [d \in D |-> Max({0, -r[d] - alpha})]
           part == [d \in D |-> IF d \in tail THEN -r[d] - alpha ELSE 0]
           slack == [d \in D |-> over[d] - part[d]]
           minus == [d \in D |-> -r[d]]
           level == [d \in tail |-> -alpha]
<1>1. \A d \in D : over[d] = IF 0 <= -r[d] - alpha THEN -r[d] - alpha ELSE 0
  <2> SUFFICES ASSUME NEW d \in D
               PROVE  Max({0, -r[d] - alpha}) = IF 0 <= -r[d] - alpha THEN -r[d] - alpha ELSE 0
    OBVIOUS
  <2>1. 0 \in Int /\ -r[d] - alpha \in Int
    OBVIOUS
  <2> QED BY <2>1, ExtremesOfTwo
<1>2. /\ DOMAIN over = D
      /\ \A d \in D : /\ part[d] = IF d \in tail THEN -r[d] - alpha ELSE 0
                      /\ slack[d] = over[d] - part[d]
                      /\ minus[d] = -r[d]
      /\ \A d \in tail : level[d] = -alpha
  OBVIOUS
<1>3. SumFunction(over) = SumFunction([d \in DOMAIN r |-> Max({0, -r[d] - alpha})])
  BY DEF over
<1>4. IsFiniteSet(tail) /\ Cardinality(tail) \in Nat
  BY FS_Subset, FS_CardinalityType
<1>5. SumFunctionOnSet(level, tail) = (-alpha) * Cardinality(tail)
  <2>1. \A i \in Int : SumFunction([d \in tail |-> i]) = i * Cardinality(tail)
    BY <1>4, ConstantSum
  <2>2. -alpha \in Int
    OBVIOUS
  <2>3. SumFunction(level) = (-alpha) * Cardinality(tail)
    BY <2>1, <2>2, Zenon
  <2>4. DOMAIN level = tail
    OBVIOUS
  <2> HIDE DEF level
  <2> QED BY <2>3, <2>4, SumOfFunction
<1> HIDE DEF over, part, slack, minus, level
<1>6. \A d \in D : /\ r[d] \in Int /\ over[d] \in Int /\ over[d] >= 0 /\ part[d] \in Int
                   /\ slack[d] \in Int /\ slack[d] >= 0
                   /\ over[d] = part[d] + slack[d]
  BY <1>1, <1>2
<1>7. SumFunction(over) = SumFunctionOnSet(over, D)
  BY <1>2, SumOfFunction
<1>8. SumFunctionOnSet(over, D) \in Int /\ SumFunctionOnSet(over, D) >= 0
  BY <1>6, SumNotNegative
<1>9. SumFunctionOnSet(slack, D) \in Int /\ SumFunctionOnSet(slack, D) >= 0
  BY <1>6, SumNotNegative
<1>10. SumFunctionOnSet(over, D) = SumFunctionOnSet(part, D) + SumFunctionOnSet(slack, D)
  BY <1>6, SumAdded
<1>11. SumFunctionOnSet(part, D) = SumFunctionOnSet(part, tail)
  <2>1. \A d \in D \ tail : part[d] = 0
    BY <1>2
  <2> QED BY <1>6, <2>1, SumSupport
<1>12. SumFunctionOnSet(part, tail) = SumFunctionOnSet(minus, tail) + SumFunctionOnSet(level, tail)
  <2>1. \A d \in tail : minus[d] \in Int /\ level[d] \in Int /\ part[d] = minus[d] + level[d]
    BY <1>2
  <2> QED BY <1>4, <2>1, SumAdded
<1>13. SumFunctionOnSet(minus, tail) = (-1) * SumFunctionOnSet(r, tail)
  <2>1. -1 \in Int /\ \A d \in tail : r[d] \in Int /\ minus[d] = (-1) * r[d]
    BY <1>2
  <2> QED BY <1>4, <2>1, SumScaled
<1>14. SumFunctionOnSet(r, tail) \in Int
  <2>1. \A d \in tail : r[d] \in Int
    OBVIOUS
  <2> QED BY <1>4, <2>1, SumFacts
<1>15. SumFunctionOnSet(part, D) = -SumFunctionOnSet(r, tail) - alpha * Cardinality(tail)
  <2>1. (-alpha) * Cardinality(tail) = -(alpha * Cardinality(tail)) /\ alpha * Cardinality(tail) \in Int
    BY <1>4
  <2> QED BY <1>5, <1>11, <1>12, <1>13, <1>14, <2>1
<1>16. ASSUME \A d \in tail : -r[d] >= alpha, \A d \in D \ tail : -r[d] <= alpha
       PROVE  SumFunctionOnSet(slack, D) = 0
  <2>1. \A d \in D \ {} : slack[d] = 0
    BY <1>1, <1>2, <1>16
  <2>2. SumFunctionOnSet(slack, D) = SumFunctionOnSet(slack, {})
    BY <1>6, <2>1, SumSupport
  <2> QED BY <2>2, FS_EmptySet, SumFacts
<1>17. -SumFunctionOnSet(r, tail) - alpha * Cardinality(tail) \in Int
  BY <1>4, <1>14
<1>18. /\ SumFunction(over) \in Int /\ SumFunction(over) >= 0
       /\ SumFunction(over) >= -SumFunctionOnSet(r, tail) - alpha * Cardinality(tail)
       /\ (/\ \A d \in tail : -r[d] >= alpha
           /\ \A d \in DOMAIN r \ tail : -r[d] <= alpha)
          => SumFunction(over) = -SumFunctionOnSet(r, tail) - alpha * Cardinality(tail)
  BY <1>7, <1>8, <1>9, <1>10, <1>15, <1>16, <1>17
<1> QED BY <1>3, <1>18, Zenon

\* The size of the tail: at least one day, the days over T, and at most the rounded quotient.
LEMMA TailSizeFacts ==
  ASSUME NEW n \in Nat, n > 0
  PROVE  LET k == TailSize(n)
             edge == (n + TailOneIn - 1) \div TailOneIn
         IN  /\ k \in Nat /\ k > 0 /\ k <= n /\ edge \in Nat /\ k <= edge /\ edge <= n
             /\ k * TailOneIn <= n \/ k = 1
             /\ n % TailOneIn = 0 \/ n < TailOneIn => n <= k * TailOneIn
<1> DEFINE T == TailOneIn
           q == n \div T
           m == n % T
           e == (n + T - 1) \div T
           f == (n + T - 1) % T
<1>1. T \in Nat /\ T > 0
  BY LimitsAssumption DEF LimitsAssumption
<1>2. n = T * q + m /\ q \in Int /\ m \in Int /\ 0 <= m /\ m < T
  BY <1>1
<1>3. n + T - 1 = T * e + f /\ e \in Int /\ f \in Int /\ 0 <= f /\ f < T
  BY <1>1
<1> HIDE DEF T, q, m, e, f
<1>4. q >= 0
  <2>1. q < 0 => T * q <= T * (-1)
    BY <1>1, <1>2, ScaledOrder
  <2>2. T * q \in Int /\ T * (-1) = -T
    BY <1>1, <1>2
  <2> QED BY <1>1, <1>2, <2>1, <2>2
<1>5. q <= n /\ q <= e /\ 1 <= e /\ e <= n
  <2>1. T * q \in Int /\ T * e \in Int /\ T * n \in Int
    BY <1>1, <1>2, <1>3
  <2>2. q <= n
    <3>1. 1 * q <= T * q
      <4>1. q * 1 <= q * T
        BY <1>1, <1>2, <1>4, ScaledOrder
      <4>2. q * 1 = 1 * q /\ q * T = T * q
        BY <1>1, <1>2
      <4> QED BY <4>1, <4>2
    <3> QED BY <1>2, <2>1, <3>1
  <2>3. q <= e
    <3>1. e < q => T * e <= T * (q - 1)
      BY <1>1, <1>2, <1>3, ScaledOrder
    <3>2. T * (q - 1) = T * q - T
      BY <1>1, <1>2
    <3> QED BY <1>1, <1>2, <1>3, <2>1, <3>1, <3>2
  <2>4. 1 <= e
    <3>1. e < 1 => T * e <= T * 0
      BY <1>1, <1>3, ScaledOrder
    <3>2. T * 0 = 0
      BY <1>1
    <3> QED BY <1>1, <1>3, <2>1, <3>1, <3>2
  <2>5. e <= n
    <3>1. n < e => T * (n + 1) <= T * e
      BY <1>1, <1>3, ScaledOrder
    <3>2. T * (n + 1) = T * n + T
      BY <1>1
    <3>3. n * 1 <= n * T
      BY <1>1, ScaledOrder
    <3>4. n * 1 = n /\ n * T = T * n
      BY <1>1
    <3> QED BY <1>1, <1>3, <2>1, <3>1, <3>2, <3>3, <3>4
  <2> QED BY <2>2, <2>3, <2>4, <2>5
<1>6. TailSize(n) = IF 1 <= q THEN q ELSE 1
  <2>1. 1 \in Int
    OBVIOUS
  <2>2. Max({1, q}) = IF 1 <= q THEN q ELSE 1
    BY <1>2, <2>1, ExtremesOfTwo
  <2>3. TailSize(n) = Max({1, q})
    BY DEF TailSize, q, T
  <2> QED BY <2>2, <2>3
<1>7. n < T => 1 * T >= n
  BY <1>1
<1>8. q * T = T * q
  BY <1>1, <1>2
<1>9. m = 0 => 1 <= q
  <2>1. q = 0 => T * q = 0
    BY <1>1
  <2> QED BY <1>2, <1>4, <2>1
<1>10. n < T => q = 0
  <2>1. 1 <= q => T * 1 <= T * q
    BY <1>1, <1>2, ScaledOrder
  <2>2. T * 1 = T /\ T * q \in Int
    BY <1>1, <1>2
  <2> QED BY <1>1, <1>2, <1>4, <2>1, <2>2
<1> DEFINE k == TailSize(n)
<1>11. k \in Nat /\ k > 0 /\ k <= n /\ k <= e /\ e \in Nat /\ e <= n
  BY <1>2, <1>3, <1>5, <1>6
<1>14. k = q => k * T <= n /\ (m = 0 => n <= k * T)
  <2> HAVE k = q
  <2>1. k * T = T * q
    BY <1>8
  <2>2. T * q \in Int /\ n = T * q + m /\ 0 <= m /\ m \in Int
    BY <1>1, <1>2
  <2> HIDE DEF k
  <2> QED BY <2>1, <2>2
<1>12. k * T <= n \/ k = 1
  BY <1>6, <1>14
<1>13. m = 0 \/ n < T => n <= k * T
  <2>1. ASSUME m = 0 PROVE n <= k * T
    <3>1. k = q
      BY <1>6, <1>9, <2>1
    <3> QED BY <1>14, <2>1, <3>1
  <2>2. ASSUME n < T PROVE n <= k * T
    <3>1. k = 1
      BY <1>6, <1>10, <2>2
    <3> QED BY <1>7, <2>2, <3>1
  <2> QED BY <2>1, <2>2
<1> HIDE DEF k
<1> QED BY <1>11, <1>12, <1>13 DEF k, e, m, T


LEMMA TailAbove ==
  ASSUME NEW n \in Nat, NEW k \in Nat, NEW T \in Nat, NEW loss \in Int, NEW alpha \in Int,
         NEW excess \in Nat, excess = loss - alpha * k, k * T <= n \/ excess = 0
  PROVE  k * (n * alpha + T * excess) <= n * loss
<1>1. k * (n * alpha + T * excess) = n * (alpha * k) + excess * (k * T)
  OBVIOUS
<1>2. n * loss = n * (alpha * k) + excess * n
  <2>1. loss = alpha * k + excess
    OBVIOUS
  <2>2. n * (alpha * k + excess) = n * (alpha * k) + excess * n
    OBVIOUS
  <2> QED BY <2>1, <2>2
<1>3. excess * (k * T) <= excess * n
  <2>1. CASE k * T <= n
    BY <2>1, ScaledOrder
  <2>2. CASE excess = 0
    BY <2>2
  <2> QED BY <2>1, <2>2
<1>4. n * (alpha * k) \in Int /\ excess * (k * T) \in Int /\ excess * n \in Int
  OBVIOUS
<1> QED BY <1>1, <1>2, <1>3, <1>4

LEMMA TailBelow ==
  ASSUME NEW n \in Nat, NEW k \in Nat, NEW T \in Nat, NEW loss \in Int, NEW alpha \in Int,
         NEW excess \in Nat, excess >= loss - alpha * k, n <= k * T
  PROVE  n * loss <= k * (n * alpha + T * excess)
<1>1. k * (n * alpha + T * excess) = n * (alpha * k) + excess * (k * T)
  OBVIOUS
<1>2. n * loss <= n * (alpha * k + excess)
  BY ScaledOrder
<1>3. n * (alpha * k + excess) = n * (alpha * k) + excess * n
  OBVIOUS
<1>4. excess * n <= excess * (k * T)
  BY ScaledOrder
<1>5. /\ n * (alpha * k) \in Int /\ excess * (k * T) \in Int /\ excess * n \in Int
      /\ n * loss \in Int
  OBVIOUS
<1> QED BY <1>1, <1>2, <1>3, <1>4, <1>5

LEMMA ProgramFacts ==
  ASSUME NEW r, IsFiniteSet(DOMAIN r), DOMAIN r # {}, \A d \in DOMAIN r : r[d] \in Int
  PROVE  LET n == Cardinality(DOMAIN r)
             Excess(alpha) == SumFunction([d \in DOMAIN r |-> Max({0, -r[d] - alpha})])
             Value(d) == n * (-r[d]) + TailOneIn * Excess(-r[d])
         IN  /\ \A d \in DOMAIN r : Excess(-r[d]) \in Nat /\ ProgramLoss(r) <= Value(d)
             /\ \E d \in DOMAIN r : ProgramLoss(r) = Value(d)
<1> DEFINE D == DOMAIN r
           n == Cardinality(D)
           Excess(alpha) == SumFunction([d \in D |-> Max({0, -r[d] - alpha})])
           Value(d) == n * (-r[d]) + TailOneIn * Excess(-r[d])
           value == [d \in D |-> Value(d)]
           all == {value[d] : d \in D}
<1>1. \A d \in D : Excess(-r[d]) \in Nat
  <2>1. ASSUME NEW alpha \in Int PROVE Excess(alpha) \in Nat
    <3>1. {} \in SUBSET D
      OBVIOUS
    <3>2. Excess(alpha) \in Int /\ Excess(alpha) >= 0
      BY <3>1, ExcessFacts, Zenon
    <3> HIDE DEF Excess
    <3> QED BY <3>2
  <2>2. \A d \in D : -r[d] \in Int
    OBVIOUS
  <2> HIDE DEF Excess
  <2> QED BY <2>1, <2>2
<1>2. ProgramLoss(r) = Min({n * alpha + TailOneIn * Excess(alpha) : alpha \in {-r[d] : d \in D}})
  BY Zenon DEF ProgramLoss
<1> HIDE DEF Excess
<1>3. {n * alpha + TailOneIn * Excess(alpha) : alpha \in {-r[d] : d \in D}} = all
  <2> HIDE DEF n
  <2> QED OBVIOUS
<1>4. \A d \in D : Value(d) \in Int
  <2>1. n \in Nat /\ TailOneIn \in Nat
    BY FS_CardinalityType, LimitsAssumption DEF LimitsAssumption
  <2> HIDE DEF n
  <2> QED BY <1>1, <2>1
<1>5. DOMAIN value = D /\ \A d \in D : value[d] = Value(d)
  OBVIOUS
<1> HIDE DEF value, Value
<1>6. IsFiniteSet(all) /\ all # {} /\ \A v \in all : v \in Int
  BY <1>4, <1>5, FiniteImage
<1>7. Min(all) \in all /\ \A v \in all : Min(all) <= v
  <2> HIDE DEF all
  <2> QED BY <1>6, ExtremesOfFinite
<1>8. /\ \A d \in D : Excess(-r[d]) \in Nat /\ ProgramLoss(r) <= Value(d)
      /\ \E d \in D : ProgramLoss(r) = Value(d)
  BY <1>1, <1>2, <1>3, <1>5, <1>7
<1> QED BY <1>8 DEF Value, Excess, n

LEMMA LossFacts ==
  ASSUME NEW r, IsFiniteSet(DOMAIN r), DOMAIN r # {}, \A d \in DOMAIN r : r[d] \in Int
  PROVE  LET n == Cardinality(DOMAIN r)
         IN  /\ n * TailLoss(r) >= TailSize(n) * ProgramLoss(r)
             /\ TailLoss(r) >= TailSize(n) * ValueAtRisk(r)
             /\ n % TailOneIn = 0 \/ n < TailOneIn =>
                  n * TailLoss(r) = TailSize(n) * ProgramLoss(r)
<1> DEFINE D == DOMAIN r
           n == Cardinality(D)
           k == TailSize(n)
           T == TailOneIn
           edge == (n + T - 1) \div T
           least == Min({SumFunctionOnSet(r, tail) : tail \in kSubset(k, D)})
           Excess(alpha) == SumFunction([d \in D |-> Max({0, -r[d] - alpha})])
           loss == TailLoss(r)
           P == ProgramLoss(r)
<1>1. n \in Nat /\ n > 0 /\ T \in Nat /\ T > 0
  <2>1. n \in Nat /\ n # 0
    BY FS_CardinalityType, FS_EmptySet
  <2> QED BY <2>1, LimitsAssumption DEF LimitsAssumption
<1>2. /\ k \in Nat /\ k > 0 /\ k <= n /\ edge \in Nat /\ k <= edge /\ edge <= n
      /\ k * T <= n \/ k = 1
      /\ n % T = 0 \/ n < T => n <= k * T
  BY <1>1, TailSizeFacts, Zenon
<1>3. loss = -least
  BY Zenon DEF TailLoss
<1>4. PICK tail \in SUBSET D :
         /\ Cardinality(tail) = k /\ SumFunctionOnSet(r, tail) = least /\ least \in Int
         /\ \A s \in SUBSET D : Cardinality(s) = k => least <= SumFunctionOnSet(r, s)
         /\ \E d \in tail : /\ \A e \in tail : r[e] <= r[d]
                            /\ \A e \in D \ tail : r[d] <= r[e]
  <2> HIDE DEF k
  <2>1. k \in Nat /\ k > 0 /\ k <= Cardinality(DOMAIN r)
    BY <1>2
  <2> QED BY <2>1, WorstFacts, Zenon
<1>5. PICK d \in tail : /\ \A e \in tail : r[e] <= r[d]
                        /\ \A e \in D \ tail : r[d] <= r[e]
  BY <1>4, Zenon
<1>6. /\ \A e \in D : Excess(-r[e]) \in Nat /\ P <= n * (-r[e]) + T * Excess(-r[e])
      /\ \E e \in D : P = n * (-r[e]) + T * Excess(-r[e])
  BY ProgramFacts, Zenon
<1>7. \A alpha \in Int :
         /\ Excess(alpha) >= -SumFunctionOnSet(r, tail) - alpha * Cardinality(tail)
         /\ (/\ \A e \in tail : -r[e] >= alpha
             /\ \A e \in D \ tail : -r[e] <= alpha)
            => Excess(alpha) = -SumFunctionOnSet(r, tail) - alpha * Cardinality(tail)
  BY ExcessFacts, Zenon
<1> HIDE DEF Excess, least, loss, P, edge, T, k, n
<1>8. loss \in Int
  BY <1>3, <1>4
<1>9. \A alpha \in Int : Excess(alpha) >= loss - alpha * k
  BY <1>3, <1>4, <1>7
<1>10. Excess(-r[d]) = loss - (-r[d]) * k
  <2>1. -r[d] \in Int
    OBVIOUS
  <2>2. (\A e \in tail : -r[e] >= -r[d]) /\ (\A e \in D \ tail : -r[e] <= -r[d])
    BY <1>5
  <2> QED BY <1>3, <1>4, <1>7, <2>1, <2>2
<1>11. P \in Int
  <2>1. PICK e \in D : P = n * (-r[e]) + T * Excess(-r[e])
    BY <1>6
  <2>2. n * (-r[e]) \in Int
    BY <1>1
  <2>3. T * Excess(-r[e]) \in Int
    BY <1>1, <1>6
  <2> QED BY <2>1, <2>2, <2>3
<1>12. k * P <= n * loss
  <2> DEFINE alpha == -r[d]
             excess == Excess(alpha)
  <2>1. alpha \in Int /\ excess \in Nat /\ excess = loss - alpha * k
        /\ P <= n * alpha + T * excess
    BY <1>6, <1>10
  <2>2. k = 1 => excess = 0
    <3> HAVE k = 1
    <3>1. IsFiniteSet(tail)
      BY FS_Subset
    <3>2. tail = {d}
      BY <1>4, <1>5, <3>1, FS_Singleton
    <3>3. SumFunctionOnSet(r, tail) = r[d]
      <4>1. \A e \in tail : r[e] \in Int
        OBVIOUS
      <4>2. SumFunctionOnSet(r, tail) = r[d] + SumFunctionOnSet(r, tail \ {d})
        BY <3>1, <4>1, SumFacts
      <4>3. tail \ {d} = {}
        BY <3>2
      <4>4. SumFunctionOnSet(r, {}) = 0
        BY FS_EmptySet, SumFacts
      <4>5. SumFunctionOnSet(r, tail \ {d}) = 0
        BY <4>3, <4>4, Zenon
      <4>6. r[d] \in Int
        OBVIOUS
      <4> QED BY <4>2, <4>5, <4>6
    <3>4. loss = alpha
      BY <1>3, <1>4, <3>3
    <3> QED BY <2>1, <3>4
  <2> HIDE DEF alpha, excess
  <2>3. k * T <= n \/ excess = 0
    BY <1>2, <2>2
  <2>4. k * (n * alpha + T * excess) <= n * loss
    BY <1>1, <1>2, <1>8, <2>1, <2>3, TailAbove
  <2>5. n * alpha + T * excess \in Int
    BY <1>1, <2>1
  <2>6. k * P <= k * (n * alpha + T * excess)
    BY <1>2, <1>11, <2>1, <2>5, ScaledOrder
  <2>7. k * P \in Int /\ k * (n * alpha + T * excess) \in Int /\ n * loss \in Int
    BY <1>1, <1>2, <1>8, <1>11, <2>5
  <2> QED BY <2>4, <2>6, <2>7
<1>13. ASSUME n % T = 0 \/ n < T PROVE n * loss <= k * P
  <2>1. PICK e \in D : P = n * (-r[e]) + T * Excess(-r[e])
    BY <1>6
  <2> DEFINE alpha == -r[e]
             excess == Excess(alpha)
  <2>2. alpha \in Int /\ excess \in Nat /\ P = n * alpha + T * excess
    BY <1>6, <2>1
  <2>3. excess >= loss - alpha * k
    BY <1>9, <2>2
  <2> HIDE DEF alpha, excess
  <2>4. n <= k * T
    BY <1>2, <1>13
  <2>5. n * loss <= k * (n * alpha + T * excess)
    BY <1>1, <1>2, <1>8, <2>2, <2>3, <2>4, TailBelow
  <2> QED BY <2>2, <2>5
<1>14. loss >= k * ValueAtRisk(r)
  <2> DEFINE deep == {e \in D : Cardinality({x \in D : r[x] <= r[e]}) >= edge}
             all == {r[e] : e \in deep}
  <2>1. ValueAtRisk(r) = -Min(all)
    BY Zenon DEF ValueAtRisk, edge, n, T
  <2>2. all # {}
    <3> DEFINE own == {r[e] : e \in D}
    <3>1. IsFiniteSet(own) /\ own # {} /\ \A v \in own : v \in Int
      BY FiniteImage
    <3>2. Max(own) \in own /\ \A v \in own : v <= Max(own)
      <4> HIDE DEF own
      <4> QED BY <3>1, ExtremesOfFinite
    <3>3. PICK e \in D : \A x \in D : r[x] <= r[e]
      BY <3>2
    <3>4. {x \in D : r[x] <= r[e]} = D
      BY <3>3
    <3>5. e \in deep
      BY <1>1, <1>2, <3>4 DEF n
    <3> QED BY <3>5
  <2>3. IsFiniteSet(all)
    <3>1. IsFiniteSet(deep) /\ deep \subseteq DOMAIN r
      BY FS_Subset
    <3> HIDE DEF deep
    <3> QED BY <3>1, FiniteImage
  <2>4. \A v \in all : v \in Int
    OBVIOUS
  <2>5. Min(all) \in all
    <3> HIDE DEF all
    <3> QED BY <2>2, <2>3, <2>4, ExtremesOfFinite
  <2>6. PICK e \in deep : Min(all) = r[e]
    BY <2>5
  <2> DEFINE low == {x \in D : r[x] <= r[e]}
  <2>7. IsFiniteSet(low) /\ Cardinality(low) >= edge
    BY <2>6, FS_Subset
  <2>8. PICK s \in SUBSET low : Cardinality(s) = k
    <3>1. Cardinality(low) \in Nat
      BY <2>7, FS_CardinalityType
    <3> HIDE DEF low
    <3>2. k <= Cardinality(low)
      BY <1>2, <2>7, <3>1
    <3> QED BY <1>2, <2>7, <3>2, SomeOfSize
  <2>9. IsFiniteSet(s) /\ s \in SUBSET D /\ \A x \in s : r[x] \in Int /\ r[x] <= r[e]
    BY <2>7, FS_Subset
  <2>10. SumFunctionOnSet(r, s) <= r[e] * k
    <3> DEFINE level == [x \in s |-> r[e]]
               room == [x \in s |-> r[e] - r[x]]
    <3>1. SumFunctionOnSet(level, s) = r[e] * k
      <4>1. \A i \in Int : SumFunction([x \in s |-> i]) = i * Cardinality(s)
        BY <2>9, ConstantSum
      <4>2. r[e] \in Int
        BY <2>6
      <4>3. SumFunction(level) = r[e] * k
        BY <2>8, <4>1, <4>2, Zenon
      <4>4. DOMAIN level = s
        OBVIOUS
      <4> HIDE DEF level
      <4> QED BY <4>3, <4>4, SumOfFunction
    <3>2. \A x \in s : level[x] = r[e] /\ room[x] = r[e] - r[x]
      OBVIOUS
    <3> HIDE DEF level, room
    <3>3. r[e] \in Int
      BY <2>6
    <3>4. \A x \in s : r[x] \in Int /\ room[x] \in Int /\ room[x] >= 0 /\ level[x] = r[x] + room[x]
      BY <2>9, <3>2, <3>3
    <3>5. SumFunctionOnSet(level, s) = SumFunctionOnSet(r, s) + SumFunctionOnSet(room, s)
      BY <2>9, <3>4, SumAdded
    <3>6. SumFunctionOnSet(room, s) \in Int /\ SumFunctionOnSet(room, s) >= 0
      BY <2>9, <3>4, SumNotNegative
    <3>7. SumFunctionOnSet(r, s) \in Int
      BY <2>9, SumFacts
    <3> QED BY <3>1, <3>5, <3>6, <3>7
  <2>11. least <= SumFunctionOnSet(r, s)
    BY <1>4, <2>8, <2>9
  <2>12. SumFunctionOnSet(r, s) \in Int
    BY <2>9, SumFacts
  <2>13. r[e] \in Int
    BY <2>6
  <2>14. k * (-r[e]) = -(r[e] * k) /\ r[e] * k \in Int
    BY <1>2, <2>13
  <2> QED BY <1>3, <1>4, <2>1, <2>6, <2>10, <2>11, <2>12, <2>14
<1>15. n * loss \in Int /\ k * P \in Int
  BY <1>1, <1>2, <1>8, <1>11
<1>16. /\ n * loss >= k * P /\ loss >= k * ValueAtRisk(r)
       /\ n % T = 0 \/ n < T => n * loss = k * P
  BY <1>12, <1>13, <1>14, <1>15
<1> QED BY <1>16 DEF n, k, T, loss, P


LEMMA ScenarioFacts ==
  ASSUME NEW bars, BarsOk(bars), NEW asOf
  PROVE  LET scenarios == Scenarios(bars, asOf)
         IN  /\ IsFiniteSet(DOMAIN scenarios)
             /\ \A day \in DOMAIN scenarios : \A t \in DOMAIN scenarios[day] : scenarios[day][t] \in Int
<1> DEFINE R == ReturnsAsOf(bars, asOf)
           On(day) == {r \in R : r.date = day}
           dates == {r.date : r \in R}
           days == LatestOf(dates, VolLookback)
           Traded(day) == {r.ticker : r \in On(day)}
           scenarios == [day \in days |->
                           [t \in Traded(day) |-> (CHOOSE r \in On(day) : r.ticker = t).return]]
           date == [r \in R |-> r.date]
<1>1. Scenarios(bars, asOf) = scenarios
  BY Zenon DEF Scenarios
<1>2. IsFiniteSet(R) /\ \A r \in R : r.return \in Int
  BY ReturnFacts
<1> HIDE DEF R
<1>3. IsFiniteSet(days)
  <2>1. dates = {date[r] : r \in R} /\ R \subseteq DOMAIN date
    OBVIOUS
  <2> HIDE DEF dates, date
  <2>2. IsFiniteSet(dates)
    BY <1>2, <2>1, FiniteImage
  <2>3. days \subseteq dates
    BY DEF LatestOf
  <2> QED BY <2>2, <2>3, FS_Subset
<1> HIDE DEF days
<1>4. \A day \in days : \A t \in Traded(day) : (CHOOSE r \in On(day) : r.ticker = t).return \in Int
  <2> SUFFICES ASSUME NEW day \in days, NEW t \in Traded(day)
               PROVE  (CHOOSE r \in On(day) : r.ticker = t).return \in Int
    OBVIOUS
  <2>1. \E r \in On(day) : r.ticker = t
    OBVIOUS
  <2>2. (CHOOSE r \in On(day) : r.ticker = t) \in On(day)
    BY <2>1, Zenon
  <2> QED BY <1>2, <2>2
<1>5. DOMAIN scenarios = days
      /\ \A day \in days : /\ DOMAIN scenarios[day] = Traded(day)
                           /\ \A t \in Traded(day) :
                                 scenarios[day][t] = (CHOOSE r \in On(day) : r.ticker = t).return
  OBVIOUS
<1> HIDE DEF scenarios, Traded, On
<1>6. /\ IsFiniteSet(DOMAIN scenarios)
      /\ \A day \in DOMAIN scenarios : \A t \in DOMAIN scenarios[day] : scenarios[day][t] \in Int
  BY <1>3, <1>4, <1>5
<1> QED BY <1>1, <1>6

LEMMA ScenarioReturnFacts ==
  ASSUME NEW of, IsFiniteSet(DOMAIN of), \A t \in DOMAIN of : of[t] \in Int,
         NEW scenarios,
         \A day \in DOMAIN scenarios : \A t \in DOMAIN scenarios[day] : scenarios[day][t] \in Int
  PROVE  /\ DOMAIN ScenarioReturns(of, scenarios) = DOMAIN scenarios
         /\ \A day \in DOMAIN scenarios : ScenarioReturns(of, scenarios)[day] \in Int
<1> SUFFICES ASSUME NEW day \in DOMAIN scenarios
             PROVE  ScenarioReturns(of, scenarios)[day] \in Int
  BY DEF ScenarioReturns
<1> DEFINE both == DOMAIN of \cap DOMAIN scenarios[day]
           part == [t \in both |-> of[t] * scenarios[day][t]]
<1>1. ScenarioReturns(of, scenarios)[day] = SumFunction(part)
  BY DEF ScenarioReturns
<1>2. IsFiniteSet(both)
  BY FS_Intersection
<1>3. DOMAIN part = both /\ \A t \in both : part[t] \in Int
  <2> SUFFICES ASSUME NEW t \in both PROVE of[t] * scenarios[day][t] \in Int
    OBVIOUS
  <2>1. of[t] \in Int /\ scenarios[day][t] \in Int
    OBVIOUS
  <2> QED BY <2>1
<1> HIDE DEF part, both
<1>4. SumFunction(part) = SumFunctionOnSet(part, both)
  BY <1>3, SumOfFunction
<1> QED BY <1>1, <1>2, <1>3, <1>4, SumFacts

LEMMA LossesAreReported == BookOk => RiskIsReported
<1> SUFFICES ASSUME BookOk, kind = "book", NEW neutral \in BOOLEAN
             PROVE  \A b \in CvarBooks(Standardized(DayScores(feed.scores, today)),
                                       Scenarios(feed.bars, today), 1, neutral) \ {NoBook} :
                      LET n == Cardinality(DOMAIN Scenarios(feed.bars, today))
                      IN  /\ Feasible(b.book, neutral)
                          /\ n * TailLoss(b.returns) >= TailSize(n) * ProgramLoss(b.returns)
                          /\ TailLoss(b.returns) >= TailSize(n) * ValueAtRisk(b.returns)
                          /\ n % TailOneIn = 0 \/ n < TailOneIn =>
                               n * TailLoss(b.returns) = TailSize(n) * ProgramLoss(b.returns)
  BY Zenon DEF RiskIsReported
<1> DEFINE z == Standardized(DayScores(feed.scores, today))
           scenarios == Scenarios(feed.bars, today)
           books == {[book |-> [of |-> of, unit |-> 1], returns |-> ScenarioReturns(of, scenarios)] :
                       of \in Candidates(DOMAIN z, 1, neutral)}
<1>1. IsFiniteSet(DOMAIN z) /\ \A t \in DOMAIN z : z[t] \in Int
  BY DayScoreFacts DEF BookOk
<1>2. /\ IsFiniteSet(DOMAIN scenarios)
      /\ \A day \in DOMAIN scenarios : \A t \in DOMAIN scenarios[day] : scenarios[day][t] \in Int
  BY ScenarioFacts DEF BookOk
<1> HIDE DEF z, scenarios
<1>3. \A b \in CvarBooks(z, scenarios, 1, neutral) \ {NoBook} : DOMAIN scenarios # {} /\ b \in books
  <2> DEFINE Reward(of) == SumFunction([t \in DOMAIN of |-> z[t] * of[t]])
             Objective(b) == ProgramLoss(b.returns) - Cardinality(DOMAIN scenarios) * Reward(b.book.of)
             least == Min({Objective(b) : b \in books})
  <2>1. CvarBooks(z, scenarios, 1, neutral)
           = IF DOMAIN z = {} \/ DOMAIN scenarios = {} THEN {NoBook}
             ELSE {b \in books : Objective(b) = least}
    BY Zenon DEF CvarBooks
  <2> HIDE DEF Objective, least, books
  <2> QED BY <2>1
<1>4. ASSUME NEW of \in Candidates(DOMAIN z, 1, neutral), DOMAIN scenarios # {}
      PROVE  LET n == Cardinality(DOMAIN scenarios)
                 returns == ScenarioReturns(of, scenarios)
             IN  /\ Feasible([of |-> of, unit |-> 1], neutral)
                 /\ n * TailLoss(returns) >= TailSize(n) * ProgramLoss(returns)
                 /\ TailLoss(returns) >= TailSize(n) * ValueAtRisk(returns)
                 /\ n % TailOneIn = 0 \/ n < TailOneIn =>
                      n * TailLoss(returns) = TailSize(n) * ProgramLoss(returns)
  <2> DEFINE returns == ScenarioReturns(of, scenarios)
             cap == MaxPosition * 1
  <2>1. /\ of \in [DOMAIN z -> -cap..cap] /\ Gross(of) <= MaxGross * 1
        /\ neutral => SumFunction(of) = 0
    BY DEF Candidates
  <2>2. cap \in Int
    BY LimitsAssumption DEF LimitsAssumption
  <2> HIDE DEF cap
  <2>3. DOMAIN of = DOMAIN z /\ \A t \in DOMAIN of : of[t] \in Int /\ Magnitude(of[t]) <= cap
    BY <2>1, <2>2 DEF Magnitude
  <2>4. Feasible([of |-> of, unit |-> 1], neutral)
    <3>1. 20 * Magnitude(0) <= 1
      BY DEF Magnitude
    <3> QED BY <2>1, <2>3, <3>1 DEF Feasible, cap
  <2>5. DOMAIN returns = DOMAIN scenarios /\ \A day \in DOMAIN returns : returns[day] \in Int
    BY <1>1, <1>2, <2>3, ScenarioReturnFacts
  <2> HIDE DEF returns
  <2>6. LET n == Cardinality(DOMAIN returns)
        IN  /\ n * TailLoss(returns) >= TailSize(n) * ProgramLoss(returns)
            /\ TailLoss(returns) >= TailSize(n) * ValueAtRisk(returns)
            /\ n % TailOneIn = 0 \/ n < TailOneIn =>
                 n * TailLoss(returns) = TailSize(n) * ProgramLoss(returns)
    BY <1>2, <1>4, <2>5, LossFacts
  <2> QED BY <2>4, <2>5, <2>6 DEF returns
<1>5. \A b \in books : \E of \in Candidates(DOMAIN z, 1, neutral) :
         b = [book |-> [of |-> of, unit |-> 1], returns |-> ScenarioReturns(of, scenarios)]
  OBVIOUS
<1> HIDE DEF books
<1>6. ASSUME NEW b \in CvarBooks(z, scenarios, 1, neutral) \ {NoBook}
      PROVE  LET n == Cardinality(DOMAIN scenarios)
             IN  /\ Feasible(b.book, neutral)
                 /\ n * TailLoss(b.returns) >= TailSize(n) * ProgramLoss(b.returns)
                 /\ TailLoss(b.returns) >= TailSize(n) * ValueAtRisk(b.returns)
                 /\ n % TailOneIn = 0 \/ n < TailOneIn =>
                      n * TailLoss(b.returns) = TailSize(n) * ProgramLoss(b.returns)
  <2>1. DOMAIN scenarios # {} /\ b \in books
    BY <1>3
  <2>2. PICK of \in Candidates(DOMAIN z, 1, neutral) :
           b = [book |-> [of |-> of, unit |-> 1], returns |-> ScenarioReturns(of, scenarios)]
    BY <1>5, <2>1
  <2>3. b.book = [of |-> of, unit |-> 1] /\ b.returns = ScenarioReturns(of, scenarios)
    BY <2>2
  <2> QED BY <1>4, <2>1, <2>3
<1> QED BY <1>6, Zenon DEF z, scenarios

\* Whatever the limits, the scores and the market: a tilted book meets every limit at once,
\* is exactly neutral when it must be and keeps the order of its tilts; and an optimised
\* book reports no less than the loss it was chosen for, nor than its value at risk
\* (constraints.py enforce, risk.py, mean_cvar.py).
THEOREM TheBooksAreSound == Spec => []BooksAreSound
<1>1. BookOk => BooksAreSound
  BY BooksAreFeasible, LossesAreReported DEF BooksAreSound
<1> QED BY <1>1, BookInvariant, PTL

--------------------------------------------------------------------------------
(* A year is scored on fair cuts, and on legs apart                             *)

\* Sets that grow one at a time along the names give every name a standing of its own.
LEMMA StandingFacts ==
  ASSUME NEW D, IsFiniteSet(D), NEW upto,
         \A p \in D : upto[p] \subseteq D /\ p \in upto[p],
         \A p, q \in D : upto[p] \subseteq upto[q] \/ upto[q] \subseteq upto[p],
         \A p, q \in D : p \in upto[q] /\ q \in upto[p] => p = q
  PROVE  /\ \A p \in D : Cardinality(upto[p]) \in 1..Cardinality(D)
         /\ \A p, q \in D : p \in upto[q] <=> Cardinality(upto[p]) <= Cardinality(upto[q])
         /\ \A low, high \in 0..Cardinality(D) : low <= high =>
              Cardinality({p \in D : low < Cardinality(upto[p]) /\ Cardinality(upto[p]) <= high}) = high - low
<1> DEFINE n == Cardinality(D)
           place == [p \in D |-> Cardinality(upto[p])]
<1>1. n \in Nat
  BY FS_CardinalityType
<1>2. ASSUME NEW p \in D PROVE IsFiniteSet(upto[p]) /\ Cardinality(upto[p]) \in 1..n
  <2>1. IsFiniteSet(upto[p]) /\ Cardinality(upto[p]) <= n /\ upto[p] # {}
    BY FS_Subset
  <2>2. Cardinality(upto[p]) \in Nat /\ Cardinality(upto[p]) # 0
    BY <2>1, FS_CardinalityType, FS_EmptySet
  <2> HIDE DEF n
  <2> QED BY <1>1, <2>1, <2>2
<1>3. ASSUME NEW p \in D, NEW q \in D
      PROVE  p \in upto[q] <=> Cardinality(upto[p]) <= Cardinality(upto[q])
  <2>1. CASE upto[p] \subseteq upto[q]
    <3>1. Cardinality(upto[p]) <= Cardinality(upto[q])
      BY <1>2, <2>1, FS_Subset
    <3> QED BY <2>1, <3>1
  <2>2. CASE upto[q] \subseteq upto[p]
    <3>1. /\ Cardinality(upto[q]) <= Cardinality(upto[p])
          /\ Cardinality(upto[p]) = Cardinality(upto[q]) => upto[p] = upto[q]
      BY <1>2, <2>2, FS_Subset
    <3>2. ASSUME p \in upto[q] PROVE p = q
      BY <2>2, <3>2
    <3>3. Cardinality(upto[p]) \in Int /\ Cardinality(upto[q]) \in Int
      BY <1>2
    <3>4. ASSUME Cardinality(upto[p]) <= Cardinality(upto[q]) PROVE p \in upto[q]
      <4>1. Cardinality(upto[p]) = Cardinality(upto[q])
        BY <3>1, <3>3, <3>4
      <4> QED BY <3>1, <4>1
    <3> QED BY <3>2, <3>3, <3>4
  <2> QED BY <2>1, <2>2
<1>4. \A p, q \in D : place[p] = place[q] => p = q
  <2> SUFFICES ASSUME NEW p \in D, NEW q \in D, Cardinality(upto[p]) = Cardinality(upto[q])
               PROVE  p = q
    OBVIOUS
  <2>1. p \in upto[q] /\ q \in upto[p]
    BY <1>2, <1>3
  <2> QED BY <2>1
<1>5. DOMAIN place = D /\ \A p \in D : place[p] = Cardinality(upto[p]) /\ place[p] \in 1..n
  BY <1>2
<1> HIDE DEF n, place
<1> DEFINE image == {place[p] : p \in D}
<1>6. image = 1..n
  <2>1. image \in SUBSET (1..n)
    BY <1>5
  <2>2. Cardinality(image) = n
    BY <1>4, <1>5, ImageCount DEF n
  <2>3. IsFiniteSet(1..n) /\ Cardinality(1..n) = n
    <3>1. IsFiniteSet(1..n) /\ Cardinality(1..n) = IF 1 > n THEN 0 ELSE n - 1 + 1
      BY <1>1, FS_Interval
    <3> QED BY <1>1, <3>1
  <2> HIDE DEF image
  <2> QED BY <2>1, <2>2, <2>3, FS_Subset
<1>7. ASSUME NEW low \in 0..n, NEW high \in 0..n, low <= high
      PROVE  Cardinality({p \in D : low < Cardinality(upto[p]) /\ Cardinality(upto[p]) <= high}) = high - low
  <2> DEFINE W == {p \in D : low < place[p] /\ place[p] <= high}
             seen == {place[p] : p \in W}
  <2>1. W = {p \in D : low < Cardinality(upto[p]) /\ Cardinality(upto[p]) <= high}
    BY <1>5
  <2>2. seen = (low + 1)..high
    <3>1. \A k \in seen : k \in (low + 1)..high
      BY <1>1, <1>5
    <3>2. ASSUME NEW k \in (low + 1)..high PROVE k \in seen
      <4>1. k \in image
        BY <1>1, <1>6
      <4>2. PICK p \in D : k = place[p]
        BY <4>1
      <4>3. low < place[p] /\ place[p] <= high
        BY <1>1, <1>7, <4>2
      <4> QED BY <4>2, <4>3
    <3> HIDE DEF seen
    <3> QED BY <3>1, <3>2
  <2>3. W \subseteq D /\ IsFiniteSet(W)
    BY FS_Subset
  <2> HIDE DEF W
  <2>4. Cardinality(seen) = Cardinality(W)
    <3>1. W \subseteq DOMAIN place
      BY <1>5, <2>3
    <3>2. \A p, q \in W : place[p] = place[q] => p = q
      BY <1>4, <2>3
    <3>3. IsFiniteSet(W)
      BY <2>3
    <3> QED BY <3>1, <3>2, <3>3, ImageCount
  <2>5. Cardinality((low + 1)..high) = high - low
    <3>1. low + 1 \in Int /\ high \in Int
      BY <1>1
    <3>2. Cardinality((low + 1)..high) = IF low + 1 > high THEN 0 ELSE high - (low + 1) + 1
      BY <3>1, FS_Interval
    <3> QED BY <1>1, <1>7, <3>1, <3>2
  <2> HIDE DEF seen
  <2> QED BY <2>1, <2>2, <2>4, <2>5
<1> QED BY <1>2, <1>3, <1>7 DEF n

LEMMA Unscaled ==
  ASSUME NEW c \in Nat, NEW i \in Int, NEW j \in Int, c * i < c * j
  PROVE  i < j
<1>1. j <= i => c * j <= c * i
  BY ScaledOrder
<1>2. c * i \in Int /\ c * j \in Int
  OBVIOUS
<1> QED BY <1>1, <1>2

LEMMA Division ==
  ASSUME NEW a \in Int, NEW b \in Nat, b > 0, NEW q \in Int, NEW m \in Int,
         a = b * q + m, 0 <= m, m < b
  PROVE  a \div b = q /\ a % b = m
<1> DEFINE p == a \div b
           k == a % b
<1>1. a = b * p + k /\ p \in Int /\ k \in Int /\ 0 <= k /\ k < b
  OBVIOUS
<1> HIDE DEF p, k
<1>2. b * p \in Int /\ b * q \in Int /\ b * (q + 1) = b * q + b /\ b * (p + 1) = b * p + b
  BY <1>1
<1>3. p < q + 1
  <2>1. b * p < b * (q + 1)
    BY <1>1, <1>2
  <2> QED BY <1>1, <2>1, Unscaled
<1>4. q < p + 1
  <2>1. b * q < b * (p + 1)
    BY <1>1, <1>2
  <2> QED BY <1>1, <2>1, Unscaled
<1>5. p = q
  BY <1>1, <1>3, <1>4
<1> QED BY <1>1, <1>2, <1>5 DEF p, k

\* Rounding is off by a half at most, and exact where it can be.
LEMMA RoundedFacts ==
  ASSUME NEW a \in Nat, NEW b \in Nat, b > 0
  PROVE  /\ Rounded(a, b) \in Int /\ b * Rounded(a, b) \in Int
         /\ 2 * (b * Rounded(a, b)) <= 2 * a + b
         /\ 2 * a <= 2 * (b * Rounded(a, b)) + b
         /\ \A q \in Int : a = b * q => Rounded(a, b) = q
<1> DEFINE p == a \div b
           k == a % b
           R == Rounded(a, b)
<1>1. a = b * p + k /\ p \in Int /\ k \in Int /\ 0 <= k /\ k < b
  OBVIOUS
<1>2. R = IF 2 * k < b \/ (2 * k = b /\ p % 2 = 0) THEN p ELSE p + 1
  BY DEF Rounded
<1>3. ASSUME NEW q \in Int, a = b * q PROVE R = q
  <2>1. a = b * q + 0 /\ 0 < b /\ 0 \in Int
    BY <1>3
  <2>2. p = q /\ k = 0
    BY <2>1, Division
  <2> HIDE DEF R, p, k
  <2> QED BY <1>2, <2>2
<1> HIDE DEF p, k, R
<1>4. b * p \in Int /\ b * (p + 1) = b * p + b
  BY <1>1
<1>5. CASE R = p /\ 2 * k <= b
  BY <1>1, <1>4, <1>5, <1>3 DEF R
<1>6. CASE R = p + 1 /\ b <= 2 * k
  <2>1. b * R = b * p + b
    BY <1>4, <1>6
  <2>2. R \in Int /\ b * R \in Int
    BY <1>1, <1>4, <1>6, <2>1
  <2>3. 2 * (b * R) <= 2 * a + b /\ 2 * a <= 2 * (b * R) + b
    BY <1>1, <1>4, <1>6, <2>1
  <2> QED BY <1>3, <2>2, <2>3 DEF R
<1> QED BY <1>1, <1>2, <1>5, <1>6

LEMMA CutsInOrder ==
  ASSUME NEW n \in Nat, NEW b \in Nat, b > 0, b <= n,
         NEW p \in Int, NEW q \in Int, NEW x \in Int, NEW y \in Int, x + n <= y,
         2 * (b * p) <= 2 * x + b, 2 * y <= 2 * (b * q) + b
  PROVE  p <= q
<1>1. b * p \in Int /\ b * q \in Int /\ b * (q + 1) = b * q + b
  OBVIOUS
<1>2. b * p < b * (q + 1)
  BY <1>1
<1>3. p < q + 1
  BY <1>2, Unscaled
<1> QED BY <1>3

\* The last name of each of the first deciles, of n names.
Cut(n, d) == Rounded(n * d, Deciles)

\* The cuts run from none to all of the names, in steps that differ by one at most.
LEMMA CutFacts ==
  ASSUME NEW n \in Nat, Deciles \in Nat, Deciles > 0, Deciles <= n
  PROVE  /\ \A d \in 0..Deciles : Cut(n, d) \in 0..n
         /\ Cut(n, 0) = 0 /\ Cut(n, Deciles) = n
         /\ \A c, d \in 0..Deciles : c <= d => Cut(n, c) <= Cut(n, d)
         /\ \A d \in 1..(Deciles - 1) : Cut(n, d) + 1 <= n
         /\ \A d \in 1..Deciles :
              Cut(n, d) - Cut(n, d - 1) \in {n \div Deciles, (n + Deciles - 1) \div Deciles}
<1> DEFINE D == Deciles
           C(d) == Rounded(n * d, D)
<1>1. D \in Nat /\ D > 0 /\ D <= n
  OBVIOUS
<1> HIDE DEF D
<1>2. ASSUME NEW d \in 0..D
      PROVE  /\ C(d) \in Int /\ D * C(d) \in Int /\ n * d \in Nat
             /\ 2 * (D * C(d)) <= 2 * (n * d) + D
             /\ 2 * (n * d) <= 2 * (D * C(d)) + D
             /\ \A q \in Int : n * d = D * q => C(d) = q
  <2>1. n * d \in Nat
    BY <1>1
  <2> QED BY <1>1, <2>1, RoundedFacts
<1>3. C(0) = 0 /\ C(D) = n
  <2>1. 0 \in 0..D /\ D \in 0..D /\ n * 0 = D * 0 /\ n * D = D * n
    BY <1>1
  <2> HIDE DEF C
  <2> QED BY <1>2, <2>1
<1>4. ASSUME NEW c \in 0..D, NEW d \in 0..D, c <= d PROVE C(c) <= C(d)
  <2>1. CASE c = d
    BY <1>2, <2>1
  <2>2. CASE c < d
    <3>1. n * c + n <= n * d
      <4>1. n * 1 <= n * (d - c)
        BY <1>1, <2>2, ScaledOrder
      <4>2. n * (d - c) = n * d - n * c /\ n * 1 = n /\ n * d \in Int /\ n * c \in Int
        BY <1>1
      <4> QED BY <4>1, <4>2
    <3> DEFINE x == n * c
               y == n * d
    <3>2. 2 * (D * C(c)) <= 2 * x + D /\ 2 * y <= 2 * (D * C(d)) + D
      BY <1>2
    <3>3. C(c) \in Int /\ C(d) \in Int /\ n * c \in Nat /\ n * d \in Nat
      BY <1>2
    <3>4. x \in Int /\ y \in Int /\ x + n <= y
      BY <3>1, <3>3
    <3> HIDE DEF C, x, y
    <3> QED BY <1>1, <3>2, <3>3, <3>4, CutsInOrder
  <2> HIDE DEF C
  <2> QED BY <1>1, <1>4, <2>1, <2>2
<1>5. ASSUME NEW d \in 0..D PROVE C(d) \in 0..n
  <2>1. 0 \in 0..D /\ D \in 0..D /\ 0 <= d /\ d <= D
    BY <1>1
  <2> HIDE DEF C
  <2>2. C(0) <= C(d) /\ C(d) <= C(D)
    BY <1>4, <2>1
  <2> QED BY <1>2, <1>3, <2>2
<1>6. ASSUME NEW d \in 1..(D - 1) PROVE C(d) + 1 <= n
  <2>1. d \in 0..D /\ n * d <= n * (D - 1) /\ n * (D - 1) = D * n - n
    <3>1. d <= D - 1 /\ d \in 0..D
      BY <1>1
    <3>2. n * d <= n * (D - 1)
      BY <1>1, <3>1, ScaledOrder
    <3> QED BY <1>1, <3>1, <3>2
  <2> HIDE DEF C
  <2> DEFINE p == C(d)
             x == n * d
  <2>2. 2 * (D * p) <= 2 * x + D /\ p \in Int /\ D * p \in Int /\ x \in Int /\ x <= D * n - n
    BY <1>1, <1>2, <2>1
  <2> HIDE DEF p, x
  <2>3. D * n \in Int
    BY <1>1
  <2>4. D * p < D * n
    BY <1>1, <2>2, <2>3
  <2>5. p < n
    BY <1>1, <2>2, <2>4, Unscaled
  <2> QED BY <2>2, <2>5 DEF p
<1>7. ASSUME NEW d \in 1..D PROVE C(d) - C(d - 1) \in {n \div D, (n + D - 1) \div D}
  <2> DEFINE q == n \div D
             m == n % D
             s == C(d) - C(d - 1)
  <2>1. n = D * q + m /\ q \in Int /\ m \in Int /\ 0 <= m /\ m < D
    BY <1>1
  <2>2. d \in 0..D /\ d - 1 \in 0..D /\ n * (d - 1) = n * d - n
    BY <1>1
  <2> HIDE DEF q, m, C
  <2>3. D * s = D * C(d) - D * C(d - 1) /\ s \in Int
    BY <1>1, <1>2, <2>2
  <2>4. n - D <= D * s /\ D * s <= n + D
    BY <1>1, <1>2, <2>2, <2>3
  <2>5. CASE m = 0
    <3>1. n * d = D * (q * d) /\ n * (d - 1) = D * (q * (d - 1)) /\ q * d \in Int /\ q * (d - 1) \in Int
      <4>1. n = D * q
        BY <1>1, <2>1, <2>5
      <4>2. \A x \in Int : (D * q) * x = D * (q * x) /\ q * x \in Int
        BY <1>1, <2>1
      <4>3. d \in Int /\ d - 1 \in Int
        BY <1>1
      <4> QED BY <4>1, <4>2, <4>3
    <3>2. C(d) = q * d /\ C(d - 1) = q * (d - 1)
      BY <1>2, <2>2, <3>1
    <3>3. q * d - q * (d - 1) = q
      BY <1>1, <2>1
    <3> QED BY <3>2, <3>3 DEF q
  <2>6. CASE m > 0
    <3>1. (n + D - 1) \div D = q + 1
      <4>1. n + D - 1 = D * (q + 1) + (m - 1) /\ 0 <= m - 1 /\ m - 1 < D
        <5>1. D * (q + 1) = D * q + D /\ D * q \in Int
          BY <1>1, <2>1
        <5> QED BY <1>1, <2>1, <2>6, <5>1
      <4>2. n + D - 1 \in Int /\ q + 1 \in Int /\ m - 1 \in Int
        BY <1>1, <2>1
      <4> HIDE DEF s
      <4> QED BY <1>1, <4>1, <4>2, Division
    <3>2. D * (q - 1) = D * q - D /\ D * (q + 2) = D * q + 2 * D /\ D * q \in Int
      BY <1>1, <2>1
    <3>3. D * (q - 1) < D * s /\ D * s < D * (q + 2) /\ s \in Int
      <4> HIDE DEF s
      <4> QED BY <1>1, <2>1, <2>3, <2>4, <2>6, <3>2
    <3> HIDE DEF s
    <3>4. q - 1 < s /\ s < q + 2
      BY <1>1, <2>1, <3>3, Unscaled
    <3>5. s = q \/ s = q + 1
      BY <2>1, <3>3, <3>4
    <3>6. s \in {q, q + 1}
      BY <3>5
    <3> QED BY <3>1, <3>6 DEF q, s
  <2> QED BY <2>1, <2>5, <2>6
<1> QED BY <1>3, <1>4, <1>5, <1>6, <1>7 DEF Cut, D

\* How many of the NYSE names are no larger.
NoLarger(rows, i) ==
    Cardinality({j \in NyseNames(rows) : MarketCap(rows[j]) <= MarketCap(rows[i])})

\* Finitely many NYSE names, all different in size.
Distinct(rows) ==
    /\ IsFiniteSet(NyseNames(rows))
    /\ \A i \in NyseNames(rows) : MarketCap(rows[i]) \in Int
    /\ \A i, j \in NyseNames(rows) : MarketCap(rows[i]) = MarketCap(rows[j]) => i = j

LEMMA SizeFacts ==
  ASSUME NEW rows, Distinct(rows)
  PROVE  LET nyse == NyseNames(rows)
             n == Cardinality(nyse)
         IN  /\ \A i \in nyse : NoLarger(rows, i) \in 1..n
             /\ \A i, j \in nyse : MarketCap(rows[i]) <= MarketCap(rows[j])
                                   <=> NoLarger(rows, i) <= NoLarger(rows, j)
             /\ \A low, high \in 0..n : low <= high =>
                  Cardinality({i \in nyse : low < NoLarger(rows, i) /\ NoLarger(rows, i) <= high}) = high - low
<1> DEFINE D == NyseNames(rows)
           cap == [i \in D |-> MarketCap(rows[i])]
           upto == [i \in D |-> {j \in D : cap[j] <= cap[i]}]
<1>1. IsFiniteSet(D) /\ \A i, j \in D : cap[i] \in Int /\ (cap[i] = cap[j] => i = j)
  BY DEF Distinct
<1>2. \A i \in D : cap[i] = MarketCap(rows[i])
  OBVIOUS
<1>3. \A i \in D : Cardinality(upto[i]) = NoLarger(rows, i)
  <2> TAKE i \in D
  <2>1. upto[i] = {j \in NyseNames(rows) : MarketCap(rows[j]) <= MarketCap(rows[i])}
    BY <1>2
  <2> QED BY <2>1 DEF NoLarger
<1> HIDE DEF D, cap
<1>4. \A p \in D : upto[p] \subseteq D /\ p \in upto[p]
  BY <1>1
<1>5. \A p, q \in D : upto[p] \subseteq upto[q] \/ upto[q] \subseteq upto[p]
  <2> SUFFICES ASSUME NEW p \in D, NEW q \in D PROVE upto[p] \subseteq upto[q] \/ upto[q] \subseteq upto[p]
    OBVIOUS
  <2>1. cap[p] <= cap[q] \/ cap[q] <= cap[p]
    BY <1>1
  <2> QED BY <1>1, <2>1
<1>6. \A p, q \in D : (p \in upto[q] <=> cap[p] <= cap[q])
  OBVIOUS
<1>7. \A p, q \in D : p \in upto[q] /\ q \in upto[p] => p = q
  <2> SUFFICES ASSUME NEW p \in D, NEW q \in D, cap[p] <= cap[q], cap[q] <= cap[p] PROVE p = q
    BY <1>6
  <2> QED BY <1>1
<1> HIDE DEF upto
<1>8. /\ \A p \in D : Cardinality(upto[p]) \in 1..Cardinality(D)
      /\ \A p, q \in D : p \in upto[q] <=> Cardinality(upto[p]) <= Cardinality(upto[q])
      /\ \A low, high \in 0..Cardinality(D) : low <= high =>
           Cardinality({p \in D : low < Cardinality(upto[p]) /\ Cardinality(upto[p]) <= high}) = high - low
  BY <1>1, <1>4, <1>5, <1>7, StandingFacts
<1>9. \A i, j \in D : cap[i] <= cap[j] <=> NoLarger(rows, i) <= NoLarger(rows, j)
  BY <1>3, <1>6, <1>8
<1>10. ASSUME NEW low \in 0..Cardinality(D), NEW high \in 0..Cardinality(D), low <= high
       PROVE  Cardinality({i \in D : low < NoLarger(rows, i) /\ NoLarger(rows, i) <= high}) = high - low
  <2>1. {i \in D : low < NoLarger(rows, i) /\ NoLarger(rows, i) <= high}
           = {p \in D : low < Cardinality(upto[p]) /\ Cardinality(upto[p]) <= high}
    BY <1>3
  <2> QED BY <1>8, <1>10, <2>1
<1>11. \A i \in D : NoLarger(rows, i) \in 1..Cardinality(D)
  BY <1>3, <1>8
<1> QED BY <1>2, <1>9, <1>10, <1>11 DEF D

LEMMA RankedCapFacts ==
  ASSUME NEW rows, Distinct(rows), NEW k \in 1..Cardinality(NyseNames(rows))
  PROVE  /\ RankedCap(rows, k) \in Int
         /\ \A i \in NyseNames(rows) : RankedCap(rows, k) <= MarketCap(rows[i]) <=> k <= NoLarger(rows, i)
<1> DEFINE D == NyseNames(rows)
           n == Cardinality(D)
           cap == [i \in D |-> MarketCap(rows[i])]
           rank == [i \in D |-> NoLarger(rows, i)]
           above == {i \in D : k <= rank[i]}
           caps == {cap[i] : i \in above}
<1>1. IsFiniteSet(D) /\ n \in Nat /\ \A i \in D : cap[i] \in Int
  BY FS_CardinalityType DEF Distinct
<1>2. /\ \A i \in D : rank[i] \in 1..n
      /\ \A i, j \in D : cap[i] <= cap[j] <=> rank[i] <= rank[j]
      /\ \A low, high \in 0..n : low <= high =>
           Cardinality({i \in D : low < rank[i] /\ rank[i] <= high}) = high - low
  <2>1. \A low, high : {i \in D : low < rank[i] /\ rank[i] <= high}
                       = {i \in D : low < NoLarger(rows, i) /\ NoLarger(rows, i) <= high}
    OBVIOUS
  <2> QED BY <2>1, SizeFacts
<1>3. RankedCap(rows, k) = Min(caps)
  <2>1. {MarketCap(rows[i]) : i \in {j \in D : NoLarger(rows, j) >= k}} = caps
    <3>1. {j \in D : NoLarger(rows, j) >= k} = above
      BY <1>2
    <3> QED BY <3>1
  <2>2. RankedCap(rows, k) = Min({MarketCap(rows[i]) : i \in {j \in D : NoLarger(rows, j) >= k}})
    BY DEF RankedCap, NoLarger
  <2> QED BY <2>1, <2>2
<1>4. k \in 1..n
  OBVIOUS
<1>5. \A i \in D : cap[i] = MarketCap(rows[i]) /\ rank[i] = NoLarger(rows, i)
  OBVIOUS
<1>6. above \subseteq D /\ D = DOMAIN cap
  OBVIOUS
<1> HIDE DEF n, cap, rank, D
<1>7. above # {}
  <2>1. k - 1 \in 0..n /\ k \in 0..n /\ k - 1 <= k /\ k - (k - 1) = 1
    BY <1>1, <1>4
  <2>2. Cardinality({i \in D : k - 1 < rank[i] /\ rank[i] <= k}) = 1
    BY <1>2, <2>1
  <2>3. {i \in D : k - 1 < rank[i] /\ rank[i] <= k} # {}
    BY <2>2, FS_EmptySet
  <2>4. PICK i \in D : k - 1 < rank[i]
    BY <2>3
  <2>5. k <= rank[i]
    BY <1>2, <1>4, <2>4
  <2> QED BY <2>5
<1>8. IsFiniteSet(caps) /\ caps # {} /\ \A c \in caps : c \in Int
  <2>1. IsFiniteSet(above)
    BY <1>1, <1>6, FS_Subset
  <2>2. caps # {} /\ \A c \in caps : c \in Int
    BY <1>1, <1>6, <1>7
  <2> HIDE DEF above
  <2>3. IsFiniteSet(caps)
    BY <1>6, <2>1, FiniteImage
  <2> QED BY <2>2, <2>3
<1> HIDE DEF caps
<1>9. Min(caps) \in caps /\ \A c \in caps : Min(caps) <= c
  BY <1>8, ExtremesOfFinite
<1>10. PICK x \in D : k <= rank[x] /\ Min(caps) = cap[x]
  BY <1>9 DEF caps
<1>11. ASSUME NEW i \in D PROVE cap[x] <= cap[i] <=> k <= rank[i]
  <2>1. k <= rank[i] => cap[x] <= cap[i]
    BY <1>9, <1>10 DEF caps
  <2>2. cap[x] <= cap[i] => rank[x] <= rank[i]
    BY <1>2
  <2> QED BY <1>2, <1>4, <1>10, <2>1, <2>2
<1> QED BY <1>1, <1>3, <1>5, <1>10, <1>11 DEF D

LEMMA BreakpointFacts ==
  ASSUME NEW rows, Distinct(rows)
  PROVE  LET n == Cardinality(NyseNames(rows))
             cuts == NyseBreakpoints(rows)
         IN  /\ n < Deciles => cuts = <<>>
             /\ Deciles <= n =>
                  /\ DOMAIN cuts = 1..(Deciles - 1)
                  /\ \A d \in 1..(Deciles - 1) :
                       cuts[d] = RankedCap(rows, Cut(n, d) + 1) /\ Cut(n, d) + 1 \in 1..n
             /\ IsFiniteSet(DOMAIN cuts) /\ \A d \in DOMAIN cuts : cuts[d] \in Int
<1> DEFINE n == Cardinality(NyseNames(rows))
           cuts == NyseBreakpoints(rows)
           made == [d \in 1..(Deciles - 1) |-> RankedCap(rows, Rounded(n * d, Deciles) + 1)]
<1>1. n \in Nat /\ Deciles \in Nat /\ Deciles > 0
  BY FS_CardinalityType, SizesAssumption DEF Distinct, SizesAssumption
<1>2. cuts = IF n < Deciles THEN <<>> ELSE made
  BY DEF NyseBreakpoints
<1>3. DOMAIN made = 1..(Deciles - 1)
      /\ \A d \in 1..(Deciles - 1) : made[d] = RankedCap(rows, Cut(n, d) + 1)
  BY DEF Cut
<1>4. n \in Nat /\ n = Cardinality(NyseNames(rows))
  BY <1>1
<1> HIDE DEF n, cuts, made
<1>5. ASSUME Deciles <= n, NEW d \in 1..(Deciles - 1)
      PROVE  Cut(n, d) + 1 \in 1..n /\ RankedCap(rows, Cut(n, d) + 1) \in Int
  <2>1. d \in 0..Deciles
    BY <1>1
  <2>2. Cut(n, d) \in 0..n /\ Cut(n, d) + 1 <= n
    BY <1>1, <1>5, <2>1, CutFacts
  <2>3. Cut(n, d) + 1 \in 1..n
    BY <1>1, <2>2
  <2> QED BY <1>4, <2>3, RankedCapFacts
<1>6. CASE n < Deciles
  <2>1. cuts = <<>>
    BY <1>2, <1>6
  <2>2. DOMAIN cuts = {}
    BY <2>1
  <2> QED BY <1>1, <1>6, <2>1, <2>2, FS_EmptySet DEF n, cuts
<1>7. CASE Deciles <= n
  <2>1. cuts = made
    BY <1>1, <1>2, <1>7
  <2>2. IsFiniteSet(1..(Deciles - 1))
    BY <1>1, FS_Interval
  <2> QED BY <1>1, <1>3, <1>5, <1>7, <2>1, <2>2 DEF n, cuts
<1> QED BY <1>1, <1>6, <1>7

\* A NYSE name is in a decile if its place in the order by size is between the cuts.
LEMMA DecileFacts ==
  ASSUME NEW rows, Distinct(rows), Deciles <= Cardinality(NyseNames(rows)),
         NEW i \in NyseNames(rows), NEW d \in 1..Deciles
  PROVE  LET n == Cardinality(NyseNames(rows))
         IN  AssignDecile(MarketCap(rows[i]), NyseBreakpoints(rows)) = d
             <=> Cut(n, d - 1) < NoLarger(rows, i) /\ NoLarger(rows, i) <= Cut(n, d)
<1> DEFINE n == Cardinality(NyseNames(rows))
           cuts == NyseBreakpoints(rows)
           cap == MarketCap(rows[i])
           rank == NoLarger(rows, i)
           passed == {j \in DOMAIN cuts : cuts[j] <= cap}
           C == [e \in 0..Deciles |-> Cut(n, e)]
<1>1. n \in Nat /\ Deciles \in Nat /\ Deciles > 0 /\ Deciles <= n
  BY FS_CardinalityType, SizesAssumption DEF Distinct, SizesAssumption
<1>2. rank \in 1..n
  BY SizeFacts
<1>3. /\ DOMAIN C = 0..Deciles
      /\ \A e \in 0..Deciles : C[e] \in 0..n /\ C[e] = Cut(n, e)
      /\ C[0] = 0 /\ C[Deciles] = n
      /\ \A e, f \in 0..Deciles : e <= f => C[e] <= C[f]
  <2>1. 0 \in 0..Deciles /\ Deciles \in 0..Deciles
    BY <1>1
  <2> HIDE DEF n
  <2> QED BY <1>1, <2>1, CutFacts
<1>4. passed = {j \in 1..(Deciles - 1) : C[j] < rank}
  <2>1. DOMAIN cuts = 1..(Deciles - 1)
    BY BreakpointFacts
  <2>2. ASSUME NEW j \in 1..(Deciles - 1) PROVE cuts[j] <= cap <=> C[j] < rank
    <3>1. cuts[j] = RankedCap(rows, Cut(n, j) + 1) /\ Cut(n, j) + 1 \in 1..n
      BY BreakpointFacts
    <3>2. cuts[j] <= cap <=> Cut(n, j) + 1 <= rank
      BY <3>1, RankedCapFacts
    <3>3. j \in 0..Deciles
      BY <1>1
    <3> HIDE DEF C, n, rank, cuts, cap
    <3> QED BY <1>2, <1>3, <3>2, <3>3
  <2> HIDE DEF C, rank, cuts, cap
  <2> QED BY <2>1, <2>2
<1>5. AssignDecile(cap, cuts) = Min({Deciles, 1 + Cardinality(passed)})
  BY DEF AssignDecile
<1> HIDE DEF n, cuts, cap, rank, passed, C
<1>6. ASSUME NEW e \in 1..Deciles, C[e - 1] < rank, rank <= C[e]
      PROVE  AssignDecile(cap, cuts) = e
  <2>1. passed = 1..(e - 1)
    <3>1. ASSUME NEW j \in passed PROVE j \in 1..(e - 1)
      <4>1. j \in 1..(Deciles - 1) /\ C[j] < rank /\ j \in 0..Deciles /\ e \in 0..Deciles
        BY <1>1, <1>4
      <4>2. e <= j => C[e] <= C[j]
        BY <1>3, <4>1
      <4> QED BY <1>2, <1>3, <1>6, <4>1, <4>2
    <3>2. ASSUME NEW j \in 1..(e - 1) PROVE j \in passed
      <4>1. j \in 0..Deciles /\ e - 1 \in 0..Deciles /\ j <= e - 1 /\ j \in 1..(Deciles - 1)
        BY <1>1
      <4>2. C[j] <= C[e - 1]
        BY <1>3, <4>1
      <4>3. C[j] \in Int /\ C[e - 1] \in Int
        BY <1>3, <4>1
      <4> QED BY <1>2, <1>4, <1>6, <4>1, <4>2, <4>3
    <3> QED BY <3>1, <3>2
  <2>2. Cardinality(1..(e - 1)) = e - 1
    <3>1. 1 \in Int /\ e - 1 \in Int /\ (1 > e - 1 => e - 1 = 0)
      BY <1>1
    <3>2. Cardinality(1..(e - 1)) = IF 1 > e - 1 THEN 0 ELSE (e - 1) - 1 + 1
      BY <3>1, FS_Interval
    <3> QED BY <3>1, <3>2
  <2>3. Min({Deciles, e}) = e
    <3>1. Min({Deciles, e}) = IF Deciles <= e THEN Deciles ELSE e
      BY <1>1, ExtremesOfTwo
    <3> QED BY <1>1, <3>1
  <2>4. 1 + (e - 1) = e
    BY <1>1
  <2> QED BY <1>5, <2>1, <2>2, <2>3, <2>4
<1>7. \E e \in 1..Deciles : C[e - 1] < rank /\ rank <= C[e]
  <2> DEFINE T == {e \in 1..Deciles : rank <= C[e]}
             e == Min(T)
  <2>1. T \in SUBSET Nat /\ T # {}
    BY <1>1, <1>2, <1>3
  <2>2. e \in T /\ \A f \in T : e <= f
    <3> HIDE DEF T
    <3> QED BY <2>1, MinFacts
  <2>3. e \in 1..Deciles /\ rank <= C[e]
    BY <2>2
  <2> HIDE DEF e
  <2>4. C[e - 1] < rank
    <3>1. CASE e = 1
      BY <1>2, <1>3, <3>1
    <3>2. CASE e > 1
      <4>1. e - 1 \in 1..Deciles /\ e - 1 \in 0..Deciles /\ ~(e <= e - 1)
        BY <1>1, <2>3, <3>2
      <4>2. e - 1 \notin T
        BY <2>2, <4>1
      <4> QED BY <1>2, <1>3, <4>1, <4>2
    <3> QED BY <1>1, <2>3, <3>1, <3>2
  <2> QED BY <2>3, <2>4
<1>8. AssignDecile(cap, cuts) = d <=> C[d - 1] < rank /\ rank <= C[d]
  BY <1>6, <1>7
<1>9. d \in 0..Deciles /\ d - 1 \in 0..Deciles
  BY <1>1
<1> QED BY <1>3, <1>8, <1>9 DEF n, cuts, cap, rank

LEMMA DecileGrows ==
  ASSUME NEW cuts, IsFiniteSet(DOMAIN cuts), \A d \in DOMAIN cuts : cuts[d] \in Int,
         NEW a \in Int, NEW b \in Int, a <= b
  PROVE  AssignDecile(a, cuts) <= AssignDecile(b, cuts)
<1> DEFINE passed(cap) == {j \in DOMAIN cuts : cuts[j] <= cap}
           k == 1 + Cardinality(passed(a))
           m == 1 + Cardinality(passed(b))
<1>1. passed(a) \subseteq passed(b) /\ passed(a) \subseteq DOMAIN cuts /\ passed(b) \subseteq DOMAIN cuts
  OBVIOUS
<1>2. AssignDecile(a, cuts) = Min({Deciles, k}) /\ AssignDecile(b, cuts) = Min({Deciles, m})
  BY DEF AssignDecile
<1> HIDE DEF passed
<1>3. IsFiniteSet(passed(a)) /\ IsFiniteSet(passed(b)) /\ Cardinality(passed(a)) <= Cardinality(passed(b))
  BY <1>1, FS_Subset
<1>4. k \in Int /\ m \in Int /\ k <= m
  BY <1>3, FS_CardinalityType
<1> HIDE DEF k, m
<1>5. Deciles \in Int
  BY SizesAssumption DEF SizesAssumption
<1>6. /\ Min({Deciles, k}) = IF Deciles <= k THEN Deciles ELSE k
      /\ Min({Deciles, m}) = IF Deciles <= m THEN Deciles ELSE m
  BY <1>4, <1>5, ExtremesOfTwo
<1> QED BY <1>2, <1>4, <1>5, <1>6

\* What a month has on file: securities in the order of their size.
MonthRows == [permno : Nat, price : Int, shares : Int, nyse : BOOLEAN, common : BOOLEAN,
              signal : Int, held : BOOLEAN, return : Int]

RowOk(row, i) ==
    /\ row.permno = i
    /\ MarketCap(row) = NoCap \/ /\ MarketCap(row) \in Int
                                 /\ 6 * (i - 1) < MarketCap(row) /\ MarketCap(row) <= 6 * i

MonthOk ==
    kind = "month" => /\ feed \in Seq(MonthRows)
                      /\ \A i \in 1..Len(feed) : RowOk(feed[i], i)

LEMMA MonthInit == Init => MonthOk
<1> SUFFICES ASSUME Init, kind = "month"
             PROVE  feed \in Seq(MonthRows) /\ \A i \in 1..Len(feed) : RowOk(feed[i], i)
  BY DEF MonthOk
<1>1. feed = <<>>
  BY DEF Init, DeskKinds, EmptyDesk
<1> QED BY <1>1, EmptySeq

LEMMA ListedRow ==
  ASSUME NEW listed \in Listings, NEW i \in Nat, i > 0
  PROVE  LET row == [permno |-> i, price |-> listed.price,
                     shares |-> IF listed.price = 0 THEN 1 ELSE (6 * i) \div Price(listed),
                     nyse |-> listed.nyse, common |-> listed.common,
                     signal |-> listed.signal, held |-> listed.held, return |-> listed.return]
         IN  row \in MonthRows /\ RowOk(row, i)
<1> DEFINE P == Price(listed)
           q == (6 * i) \div P
           shares == IF listed.price = 0 THEN 1 ELSE q
           row == [permno |-> i, price |-> listed.price, shares |-> shares,
                   nyse |-> listed.nyse, common |-> listed.common,
                   signal |-> listed.signal, held |-> listed.held, return |-> listed.return]
<1>1. /\ listed.price \in -6..6 /\ listed.nyse \in BOOLEAN /\ listed.common \in BOOLEAN
      /\ listed.signal \in Int /\ listed.held \in BOOLEAN /\ listed.return \in Int
  BY ListingsAssumption DEF ListingsAssumption
<1>2. P \in 0..6 /\ (listed.price # 0 => P > 0)
  BY <1>1 DEF Price
<1>3. listed.price # 0 => q \in Int /\ P * q \in Int /\ P * q <= 6 * i /\ 6 * i < P * q + P
  <2> HAVE listed.price # 0
  <2>1. P \in 1..6
    BY <1>2
  <2> HIDE DEF P
  <2> QED BY <2>1
<1>4. Price(row) = P /\ row.price = listed.price /\ row.shares = shares /\ row.permno = i
  BY DEF Price
<1>5. MarketCap(row) = IF listed.price = 0 \/ shares <= 0 THEN NoCap ELSE P * shares
  <2>1. MarketCap(row) = IF row.price = 0 \/ row.shares <= 0 THEN NoCap ELSE Price(row) * row.shares
    BY DEF MarketCap
  <2> HIDE DEF row, P, shares
  <2> QED BY <1>4, <2>1
<1>6. shares \in Int
  BY <1>3
<1>7. row \in MonthRows
  <2> HIDE DEF shares
  <2> QED BY <1>1, <1>6 DEF MonthRows
<1>8. RowOk(row, i)
  <2>1. CASE listed.price = 0 \/ shares <= 0
    <3> HIDE DEF row, P, shares
    <3> QED BY <1>4, <1>5, <2>1 DEF RowOk
  <2>2. CASE listed.price # 0 /\ ~(shares <= 0)
    <3>1. MarketCap(row) = P * q
      <4> HIDE DEF row, P, q
      <4> QED BY <1>5, <2>2
    <3> HIDE DEF row, P, q
    <3>2. 6 * (i - 1) = 6 * i - 6
      OBVIOUS
    <3>3. MarketCap(row) \in Int /\ 6 * (i - 1) < MarketCap(row) /\ MarketCap(row) <= 6 * i
      BY <1>2, <1>3, <2>2, <3>1, <3>2
    <3> QED BY <1>4, <3>3 DEF RowOk
  <2> QED BY <2>1, <2>2
<1> QED BY <1>7, <1>8

LEMMA MonthStep == MonthOk /\ [Next]_vars => MonthOk'
<1> SUFFICES ASSUME MonthOk, [Next]_vars, kind' = "month"
             PROVE  feed' \in Seq(MonthRows) /\ \A i \in 1..Len(feed') : RowOk(feed'[i], i)
  BY DEF MonthOk
<1>1. kind = "month" /\ (feed' = feed \/ List)
  BY DEF Next, VendorNext, DeskNext, Disclose, Load, Link, Unlink, ListAs, Delist, Estimate, Report,
         Score, Close, Validate, Trade, List, TakeIn, Tomorrow, DayRows, vars
<1>2. feed \in Seq(MonthRows) /\ \A i \in 1..Len(feed) : RowOk(feed[i], i)
  BY <1>1 DEF MonthOk
<1>3. CASE feed' = feed
  BY <1>2, <1>3
<1>4. CASE List
  <2> DEFINE i == Len(feed) + 1
  <2>1. PICK listed \in Listings :
           feed' = Append(feed, [permno |-> i, price |-> listed.price,
                     shares |-> IF listed.price = 0 THEN 1 ELSE (6 * i) \div Price(listed),
                     nyse |-> listed.nyse, common |-> listed.common,
                     signal |-> listed.signal, held |-> listed.held, return |-> listed.return])
    BY <1>4 DEF List
  <2> DEFINE row == [permno |-> i, price |-> listed.price,
                     shares |-> IF listed.price = 0 THEN 1 ELSE (6 * i) \div Price(listed),
                     nyse |-> listed.nyse, common |-> listed.common,
                     signal |-> listed.signal, held |-> listed.held, return |-> listed.return]
  <2>2. i \in Nat /\ i > 0 /\ Len(feed) \in Nat
    BY <1>2, LenProperties
  <2>3. row \in MonthRows /\ RowOk(row, i)
    <3> HIDE DEF i
    <3> QED BY <2>2, ListedRow
  <2>4. feed' = Append(feed, row)
    BY <2>1
  <2> HIDE DEF row
  <2>5. /\ feed' \in Seq(MonthRows) /\ Len(feed') = i /\ feed'[i] = row
        /\ \A j \in 1..Len(feed) : feed'[j] = feed[j]
    BY <1>2, <2>2, <2>3, <2>4, AppendProperties
  <2>6. \A j \in 1..i : j \in 1..Len(feed) \/ j = i
    BY <2>2
  <2> HIDE DEF i
  <2> QED BY <1>2, <2>3, <2>5, <2>6
<1> QED BY <1>1, <1>3, <1>4

LEMMA MonthInvariant == Spec => []MonthOk
BY MonthInit, MonthStep, PTL DEF Spec

LEMMA MonthFacts ==
  ASSUME MonthOk, kind = "month"
  PROVE  /\ DOMAIN feed = 1..Len(feed) /\ IsFiniteSet(DOMAIN feed) /\ DOMAIN feed \subseteq Int
         /\ \A i \in DOMAIN feed : feed[i] \in MonthRows /\ feed[i].permno = i
         /\ \A i \in DOMAIN feed : MarketCap(feed[i]) # NoCap => MarketCap(feed[i]) \in Int
         /\ Distinct(feed)
<1>1. feed \in Seq(MonthRows) /\ \A i \in 1..Len(feed) : RowOk(feed[i], i)
  BY DEF MonthOk
<1>2. DOMAIN feed = 1..Len(feed) /\ Len(feed) \in Nat /\ \A i \in 1..Len(feed) : feed[i] \in MonthRows
  BY <1>1, LenProperties, ElementOfSeq
<1>3. IsFiniteSet(DOMAIN feed)
  BY <1>2, FS_Interval
<1>4. \A i \in DOMAIN feed : MarketCap(feed[i]) # NoCap =>
         /\ MarketCap(feed[i]) \in Int
         /\ 6 * (i - 1) < MarketCap(feed[i]) /\ MarketCap(feed[i]) <= 6 * i
  BY <1>1, <1>2 DEF RowOk
<1>5. /\ NyseNames(feed) \subseteq DOMAIN feed
      /\ \A i \in NyseNames(feed) : MarketCap(feed[i]) # NoCap
  BY DEF NyseNames
<1>6. IsFiniteSet(NyseNames(feed))
  BY <1>3, <1>5, FS_Subset
<1>7. ASSUME NEW i \in NyseNames(feed), NEW j \in NyseNames(feed),
             MarketCap(feed[i]) = MarketCap(feed[j])
      PROVE  i = j
  <2>1. i \in Int /\ j \in Int
    BY <1>2, <1>5
  <2> QED BY <1>4, <1>5, <1>7, <2>1
<1>8. Distinct(feed)
  BY <1>4, <1>5, <1>6, <1>7 DEF Distinct
<1> QED BY <1>1, <1>2, <1>3, <1>4, <1>8 DEF RowOk

LEMMA CutsAreFair == MonthOk => FairCuts
<1> SUFFICES ASSUME MonthOk, kind = "month"
             PROVE  LET cuts == NyseBreakpoints(feed)
                        Held(d) == {i \in NyseNames(feed) : AssignDecile(MarketCap(feed[i]), cuts) = d}
                        n == Cardinality(NyseNames(feed))
                    IN  /\ cuts # <<>> => \A d \in 1..Deciles :
                              Cardinality(Held(d)) \in {n \div Deciles, (n + Deciles - 1) \div Deciles}
                        /\ \A year \in Years : \A m, o \in SelectUniverse(feed, year) :
                              m.market_cap <= o.market_cap => m.decile <= o.decile
  BY DEF FairCuts
<1> DEFINE cuts == NyseBreakpoints(feed)
           nyse == NyseNames(feed)
           Held(d) == {i \in nyse : AssignDecile(MarketCap(feed[i]), cuts) = d}
           n == Cardinality(nyse)
<1>1. Distinct(feed)
  BY MonthFacts
<1>2. n \in Nat /\ Deciles \in Nat /\ Deciles > 0
  BY <1>1, FS_CardinalityType, SizesAssumption DEF Distinct, SizesAssumption
<1>3. ASSUME cuts # <<>>, NEW d \in 1..Deciles
      PROVE  Cardinality(Held(d)) \in {n \div Deciles, (n + Deciles - 1) \div Deciles}
  <2>1. Deciles <= n
    <3>1. n < Deciles => cuts = <<>>
      BY <1>1, BreakpointFacts
    <3> HIDE DEF n, cuts
    <3> QED BY <1>2, <1>3, <3>1
  <2>2. Held(d) = {i \in nyse : Cut(n, d - 1) < NoLarger(feed, i) /\ NoLarger(feed, i) <= Cut(n, d)}
    <3>1. \A i \in nyse : AssignDecile(MarketCap(feed[i]), cuts) = d
             <=> Cut(n, d - 1) < NoLarger(feed, i) /\ NoLarger(feed, i) <= Cut(n, d)
      BY <1>1, <2>1, DecileFacts
    <3> HIDE DEF n, cuts, nyse
    <3> QED BY <3>1
  <2>3. /\ Cut(n, d - 1) \in 0..n /\ Cut(n, d) \in 0..n /\ Cut(n, d - 1) <= Cut(n, d)
        /\ Cut(n, d) - Cut(n, d - 1) \in {n \div Deciles, (n + Deciles - 1) \div Deciles}
    <3>1. d - 1 \in 0..Deciles /\ d \in 0..Deciles /\ d - 1 <= d
      BY <1>2
    <3> HIDE DEF n
    <3> QED BY <1>2, <2>1, <3>1, CutFacts
  <2>4. Cardinality(Held(d)) = Cut(n, d) - Cut(n, d - 1)
    <3>1. Cardinality({i \in nyse : Cut(n, d - 1) < NoLarger(feed, i) /\ NoLarger(feed, i) <= Cut(n, d)})
             = Cut(n, d) - Cut(n, d - 1)
      BY <1>1, <2>3, SizeFacts
    <3> HIDE DEF Held, n, nyse
    <3> QED BY <2>2, <3>1
  <2> HIDE DEF Held, n
  <2> QED BY <2>3, <2>4
<1>4. ASSUME NEW year \in Years, NEW m \in SelectUniverse(feed, year), NEW o \in SelectUniverse(feed, year),
             m.market_cap <= o.market_cap
      PROVE  m.decile <= o.decile
  <2>1. \A x \in SelectUniverse(feed, year) :
           x.market_cap \in Int /\ x.decile = AssignDecile(x.market_cap, cuts)
    <3> TAKE x \in SelectUniverse(feed, year)
    <3>1. PICK i \in {j \in DOMAIN feed : Selected(feed[j], year)} :
             x = [permno |-> feed[i].permno, market_cap |-> MarketCap(feed[i]),
                  decile |-> AssignDecile(MarketCap(feed[i]), cuts)]
      BY DEF SelectUniverse
    <3>2. MarketCap(feed[i]) \in Int
      BY MonthFacts DEF Selected
    <3> QED BY <3>1, <3>2
  <2>2. IsFiniteSet(DOMAIN cuts) /\ \A d \in DOMAIN cuts : cuts[d] \in Int
    BY <1>1, BreakpointFacts
  <2> HIDE DEF cuts
  <2> QED BY <1>4, <2>1, <2>2, DecileGrows
<1> QED BY <1>3, <1>4

\* Finitely many names, known by numbers, with whole scores.
Scored(signals) ==
    /\ IsFiniteSet(DOMAIN signals) /\ DOMAIN signals \subseteq Int
    /\ \A p \in DOMAIN signals : signals[p] \in Int

LEMMA EndsFacts ==
  ASSUME NEW signals, Scored(signals), NEW k \in Nat, 2 * k <= Cardinality(DOMAIN signals)
  PROVE  /\ Cardinality(Lowest(signals, k)) = k /\ Cardinality(Highest(signals, k)) = k
         /\ Lowest(signals, k) \cap Highest(signals, k) = {}
         /\ Lowest(signals, k) \subseteq DOMAIN signals /\ Highest(signals, k) \subseteq DOMAIN signals
         /\ \A p \in Lowest(signals, k), q \in Highest(signals, k) : signals[p] <= signals[q]
<1> DEFINE D == DOMAIN signals
           n == Cardinality(D)
           upto == [p \in D |-> {q \in D : signals[q] < signals[p] \/ (signals[q] = signals[p] /\ q <= p)}]
           place == [p \in D |-> Cardinality(upto[p])]
<1>1. IsFiniteSet(D) /\ n \in Nat /\ D \subseteq Int /\ \A p \in D : signals[p] \in Int
  BY FS_CardinalityType DEF Scored
<1>2. \A p \in D : place[p] = Standing(signals, p) /\ place[p] = Cardinality(upto[p])
  BY DEF Standing
<1>3. \A p, q \in D : p \in upto[q] <=> signals[p] < signals[q] \/ (signals[p] = signals[q] /\ p <= q)
  OBVIOUS
<1>4. \A p \in D : upto[p] \subseteq D
  OBVIOUS
<1>5. k \in Nat /\ 2 * k <= n
  OBVIOUS
<1>6. /\ Lowest(signals, k) = {p \in D : place[p] <= k}
      /\ Highest(signals, k) = {p \in D : place[p] > n - k}
  <2>1. /\ Lowest(signals, k) = {p \in D : Standing(signals, p) <= k}
        /\ Highest(signals, k) = {p \in D : Standing(signals, p) > n - k}
    BY DEF Lowest, Highest
  <2> HIDE DEF n, place, D
  <2> QED BY <1>2, <2>1
<1> HIDE DEF D, n, upto, place
<1>7. \A p \in D : upto[p] \subseteq D /\ p \in upto[p]
  BY <1>1, <1>3, <1>4
<1>8. \A p, q \in D : upto[p] \subseteq upto[q] \/ upto[q] \subseteq upto[p]
  <2> SUFFICES ASSUME NEW p \in D, NEW q \in D
               PROVE  upto[p] \subseteq upto[q] \/ upto[q] \subseteq upto[p]
    OBVIOUS
  <2>1. p \in upto[q] \/ q \in upto[p]
    BY <1>1, <1>3
  <2>2. ASSUME NEW x \in D, NEW y \in D, x \in upto[y] PROVE upto[x] \subseteq upto[y]
    <3> SUFFICES ASSUME NEW z \in upto[x] PROVE z \in upto[y]
      OBVIOUS
    <3>1. z \in D /\ x \in Int /\ y \in Int /\ z \in Int
      BY <1>1, <1>4
    <3>2. signals[x] \in Int /\ signals[y] \in Int /\ signals[z] \in Int
      BY <1>1, <3>1
    <3> QED BY <1>3, <2>2, <3>1, <3>2
  <2> QED BY <2>1, <2>2
<1>9. \A p, q \in D : p \in upto[q] /\ q \in upto[p] => p = q
  BY <1>1, <1>3
<1>10. /\ \A p \in D : Cardinality(upto[p]) \in 1..Cardinality(D)
       /\ \A p, q \in D : p \in upto[q] <=> Cardinality(upto[p]) <= Cardinality(upto[q])
       /\ \A low, high \in 0..Cardinality(D) : low <= high =>
            Cardinality({p \in D : low < Cardinality(upto[p]) /\ Cardinality(upto[p]) <= high}) = high - low
  BY <1>1, <1>7, <1>8, <1>9, StandingFacts
<1>11. /\ \A p \in D : place[p] \in 1..n
       /\ \A p, q \in D : p \in upto[q] <=> place[p] <= place[q]
       /\ \A low, high \in 0..n : low <= high =>
            Cardinality({p \in D : low < place[p] /\ place[p] <= high}) = high - low
  <2>1. ASSUME NEW low \in 0..n, NEW high \in 0..n, low <= high
        PROVE  Cardinality({p \in D : low < place[p] /\ place[p] <= high}) = high - low
    <3>1. {p \in D : low < place[p] /\ place[p] <= high}
             = {p \in D : low < Cardinality(upto[p]) /\ Cardinality(upto[p]) <= high}
      BY <1>2
    <3> QED BY <1>10, <2>1, <3>1 DEF n
  <2>2. /\ \A p \in D : place[p] \in 1..n
        /\ \A p, q \in D : p \in upto[q] <=> place[p] <= place[q]
    BY <1>2, <1>10 DEF n
  <2> QED BY <2>1, <2>2
<1>12. 0 \in 0..n /\ k \in 0..n /\ n - k \in 0..n /\ n \in 0..n /\ k <= n - k
  BY <1>1, <1>5
<1>13. Cardinality(Lowest(signals, k)) = k
  <2>1. Lowest(signals, k) = {p \in D : 0 < place[p] /\ place[p] <= k}
    BY <1>6, <1>11
  <2>2. 0 <= k /\ k - 0 = k
    BY <1>12
  <2> QED BY <1>11, <1>12, <2>1, <2>2
<1>14. Cardinality(Highest(signals, k)) = k
  <2>1. Highest(signals, k) = {p \in D : n - k < place[p] /\ place[p] <= n}
    <3>1. \A p \in D : place[p] \in Int /\ place[p] <= n
      BY <1>11
    <3> QED BY <1>6, <1>12, <3>1
  <2>2. n - k <= n /\ n - (n - k) = k
    BY <1>1, <1>12
  <2> QED BY <1>11, <1>12, <2>1, <2>2
<1>15. ASSUME NEW p \in Lowest(signals, k), NEW q \in Highest(signals, k)
       PROVE  signals[p] <= signals[q] /\ p # q
  <2>1. p \in D /\ q \in D /\ place[p] <= k /\ n - k < place[q] /\ place[p] \in Int /\ place[q] \in Int
    BY <1>6, <1>11, <1>12
  <2>2. place[p] < place[q]
    BY <1>12, <2>1
  <2>3. p \in upto[q]
    BY <1>11, <2>1, <2>2
  <2> QED BY <1>1, <1>3, <2>1, <2>2, <2>3
<1> QED BY <1>6, <1>13, <1>14, <1>15 DEF D

\* Half of a whole is enough for two parts of it.
LEMMA TwoParts ==
  ASSUME NEW n \in Nat, NEW parts \in Nat, parts >= 2
  PROVE  n \div parts \in Nat /\ 2 * (n \div parts) <= n
<1> DEFINE q == n \div parts
           m == n % parts
<1>1. n = parts * q + m /\ q \in Int /\ m \in Int /\ 0 <= m /\ m < parts
  OBVIOUS
<1> HIDE DEF q, m
<1>2. q >= 0
  <2>1. q < 0 => parts * q <= parts * (-1)
    BY <1>1, ScaledOrder
  <2>2. parts * q \in Int /\ parts * (-1) = -parts
    BY <1>1
  <2> QED BY <1>1, <2>1, <2>2
<1>3. q * 2 <= q * parts /\ q * parts = parts * q /\ parts * q \in Int
  BY <1>1, <1>2, ScaledOrder
<1> QED BY <1>1, <1>2, <1>3 DEF q

Apart(signals, low, high) ==
    /\ low \cap high = {} /\ Cardinality(low) = Cardinality(high)
    /\ \A p \in low, q \in high : signals[p] <= signals[q]

LEMMA QuintileFacts ==
  ASSUME NEW signals, Scored(signals)
  PROVE  LET legs == QuintileSplit(signals)
         IN  /\ Apart(signals, legs[1], legs[2])
             /\ legs[1] # {} => Cardinality(legs[1]) >= MIN_LEG
             /\ legs[1] = {} <=> legs[2] = {}
             /\ legs[1] \subseteq DOMAIN signals /\ legs[2] \subseteq DOMAIN signals
<1> DEFINE n == Cardinality(DOMAIN signals)
           size == n \div LegOneIn
           legs == QuintileSplit(signals)
<1>1. n \in Nat
  BY FS_CardinalityType DEF Scored
<1>2. LegOneIn \in Nat /\ LegOneIn >= 2 /\ MIN_LEG \in Nat /\ MIN_LEG > 0
  BY LegsAssumption DEF LegsAssumption
<1>3. size \in Nat /\ 2 * size <= n
  BY <1>1, <1>2, TwoParts
<1>4. legs = IF size < MIN_LEG THEN <<{}, {}>> ELSE <<Lowest(signals, size), Highest(signals, size)>>
  BY DEF QuintileSplit
<1> HIDE DEF size, legs
<1>5. CASE size < MIN_LEG
  <2>1. legs[1] = {} /\ legs[2] = {}
    BY <1>4, <1>5
  <2> HIDE DEF n
  <2> QED BY <2>1, FS_EmptySet DEF Apart, legs
<1>6. CASE ~(size < MIN_LEG)
  <2>1. legs[1] = Lowest(signals, size) /\ legs[2] = Highest(signals, size)
    BY <1>4, <1>6
  <2>2. /\ Cardinality(legs[1]) = size /\ Cardinality(legs[2]) = size
        /\ legs[1] \cap legs[2] = {}
        /\ legs[1] \subseteq DOMAIN signals /\ legs[2] \subseteq DOMAIN signals
        /\ \A p \in legs[1], q \in legs[2] : signals[p] <= signals[q]
    BY <1>3, <2>1, EndsFacts
  <2>3. legs[1] # {} /\ legs[2] # {} /\ size >= MIN_LEG
    BY <1>2, <1>3, <1>6, <2>2, FS_EmptySet
  <2> HIDE DEF n
  <2> QED BY <2>2, <2>3 DEF Apart, legs
<1> QED BY <1>5, <1>6

LEMMA TercileFacts ==
  ASSUME NEW signals, Scored(signals), NEW returns
  PROVE  LET tercile == TercileLegs(signals, returns)
         IN  Apart(signals, tercile[2], tercile[1])
<1> DEFINE ranked == Restrict(signals, DOMAIN signals \cap DOMAIN returns)
           n == Cardinality(DOMAIN ranked)
           third == n \div TercileOneIn
           k == Max({1, third})
           tercile == TercileLegs(signals, returns)
<1>1. /\ DOMAIN ranked \subseteq DOMAIN signals /\ \A p \in DOMAIN ranked : ranked[p] = signals[p]
  BY DEF Restrict
<1>2. Scored(ranked)
  <2> HIDE DEF ranked
  <2> QED BY <1>1, FS_Subset DEF Scored
<1> HIDE DEF ranked
<1>3. n \in Nat
  BY <1>2, FS_CardinalityType DEF Scored
<1>4. TercileOneIn \in Nat /\ TercileOneIn >= 2 /\ TercileMin \in Nat /\ TercileMin >= 2
  BY LegsAssumption DEF LegsAssumption
<1>5. third \in Nat /\ 2 * third <= n
  BY <1>3, <1>4, TwoParts
<1>6. tercile = IF n < TercileMin THEN <<{}, {}>> ELSE <<Highest(ranked, k), Lowest(ranked, k)>>
  BY DEF TercileLegs, ranked
<1> HIDE DEF third, tercile
<1>7. CASE n < TercileMin
  <2>1. tercile[1] = {} /\ tercile[2] = {}
    BY <1>6, <1>7
  <2> HIDE DEF n, k
  <2> QED BY <2>1 DEF Apart, tercile
<1>8. CASE ~(n < TercileMin)
  <2>1. k = IF 1 <= third THEN third ELSE 1
    <3>1. 1 \in Int /\ third \in Int
      BY <1>5
    <3> QED BY <3>1, ExtremesOfTwo
  <2>2. tercile[1] = Highest(ranked, k) /\ tercile[2] = Lowest(ranked, k)
    BY <1>6, <1>8
  <2> HIDE DEF k
  <2>3. k \in Nat /\ 2 * k <= n
    BY <1>3, <1>4, <1>5, <1>8, <2>1
  <2>4. /\ Cardinality(Lowest(ranked, k)) = k /\ Cardinality(Highest(ranked, k)) = k
        /\ Lowest(ranked, k) \cap Highest(ranked, k) = {}
        /\ Lowest(ranked, k) \subseteq DOMAIN ranked /\ Highest(ranked, k) \subseteq DOMAIN ranked
        /\ \A p \in Lowest(ranked, k), q \in Highest(ranked, k) : ranked[p] <= ranked[q]
    BY <1>2, <2>3, EndsFacts
  <2> HIDE DEF n
  <2>5. \A p \in Lowest(ranked, k), q \in Highest(ranked, k) : signals[p] <= signals[q]
    BY <1>1, <2>4
  <2> QED BY <2>2, <2>4, <2>5 DEF Apart, tercile
<1> QED BY <1>7, <1>8

LEMMA LegMeanFacts ==
  ASSUME NEW leg, IsFiniteSet(leg), NEW returns, \A p \in DOMAIN returns : returns[p] \in Int
  PROVE  /\ LegMean(leg, returns) \in Int \X Nat
         /\ LegMean(leg, returns)[2] = Cardinality(leg \cap DOMAIN returns)
         /\ leg = {} => LegMean(leg, returns)[2] = 0
<1> DEFINE known == leg \cap DOMAIN returns
           sum == SumFunctionOnSet(returns, known)
           count == Cardinality(known)
<1>1. IsFiniteSet(known) /\ \A p \in known : returns[p] \in Int
  BY FS_Intersection
<1>2. leg = {} => known = {}
  OBVIOUS
<1>3. LegMean(leg, returns) = <<sum, count>>
  BY DEF LegMean
<1> HIDE DEF known
<1>4. sum \in Int
  BY <1>1, SumFacts
<1>5. count \in Nat /\ (leg = {} => count = 0)
  BY <1>1, <1>2, FS_CardinalityType, FS_EmptySet
<1> HIDE DEF sum, count
<1> QED BY <1>3, <1>4, <1>5 DEF count, known

LEMMA AnnualFacts ==
  ASSUME NEW signals, Scored(signals), NEW returns, \A p \in DOMAIN returns : returns[p] \in Int
  PROVE  LET legs   == QuintileSplit(signals)
             result == AnnualResult(signals, returns)
             spread == SpreadReturn(legs[1], legs[2], returns)
         IN  /\ result = NoSpread <=> spread = NoSpread
             /\ result # NoSpread =>
                  /\ result.net_return = spread
                  /\ result.n_long = Cardinality(legs[1] \cap DOMAIN returns)
<1> DEFINE legs   == QuintileSplit(signals)
           result == AnnualResult(signals, returns)
           spread == SpreadReturn(legs[1], legs[2], returns)
           long   == LegMean(legs[1], returns)
           short  == LegMean(legs[2], returns)
           net    == Net(long, short)
           full   == [long_return |-> long, short_return |-> short, net_return |-> net,
                      n_long |-> long[2], n_short |-> short[2]]
<1>1. legs[1] \subseteq DOMAIN signals /\ legs[2] \subseteq DOMAIN signals
  BY QuintileFacts
<1>2. IsFiniteSet(legs[1]) /\ IsFiniteSet(legs[2])
  BY <1>1, FS_Subset DEF Scored
<1>3. /\ result = IF legs[1] = {} \/ legs[2] = {} \/ long[2] = 0 \/ short[2] = 0 THEN NoSpread ELSE full
      /\ spread = IF long[2] = 0 \/ short[2] = 0 THEN NoSpread ELSE net
  BY DEF AnnualResult, SpreadReturn
<1> HIDE DEF legs, result, spread
<1>4. /\ long \in Int \X Nat /\ short \in Int \X Nat
      /\ long[2] = Cardinality(legs[1] \cap DOMAIN returns)
      /\ legs[1] = {} => long[2] = 0
      /\ legs[2] = {} => short[2] = 0
  BY <1>2, LegMeanFacts
<1>5. Cost \in Int /\ NoSpread \notin Int
      /\ NoSpread \notin [long_return : Int \X Nat, short_return : Int \X Nat, net_return : Int,
                          n_long : Nat, n_short : Nat]
  BY LegsAssumption DEF LegsAssumption
<1> HIDE DEF long, short
<1>6. long[1] \in Int /\ long[2] \in Nat /\ short[1] \in Int /\ short[2] \in Nat
  BY <1>4
<1>7. net \in Int
  BY <1>5, <1>6 DEF Net
<1> HIDE DEF net
<1>8. /\ full \in [long_return : Int \X Nat, short_return : Int \X Nat, net_return : Int,
                   n_long : Nat, n_short : Nat]
      /\ full.net_return = net /\ full.n_long = long[2]
  BY <1>4, <1>6, <1>7
<1> HIDE DEF full
<1>9. full # NoSpread /\ net # NoSpread
  BY <1>5, <1>7, <1>8
<1>10. /\ result = NoSpread <=> spread = NoSpread
       /\ result # NoSpread => result = full /\ spread = net
  BY <1>3, <1>4, <1>9
<1>11. result # NoSpread => /\ result.net_return = spread
                            /\ result.n_long = Cardinality(legs[1] \cap DOMAIN returns)
  BY <1>4, <1>8, <1>10
<1> QED BY <1>10, <1>11 DEF result, spread, legs

LEMMA LegsStayApart == MonthOk => LegsAreApart
<1> SUFFICES ASSUME MonthOk, kind = "month", NEW year \in Years
             PROVE  LET signals == SignalsOf(Members(year))
                        legs    == QuintileSplit(signals)
                        result  == AnnualResult(signals, HeldReturns)
                        tercile == TercileLegs(signals, HeldReturns)
                    IN  /\ Apart(signals, legs[1], legs[2]) /\ Apart(signals, tercile[2], tercile[1])
                        /\ legs[1] # {} => Cardinality(legs[1]) >= MIN_LEG
                        /\ result = NoSpread <=> SpreadReturn(legs[1], legs[2], HeldReturns) = NoSpread
                        /\ result # NoSpread =>
                              /\ result.net_return = SpreadReturn(legs[1], legs[2], HeldReturns)
                              /\ result.n_long = Cardinality(legs[1] \cap DOMAIN HeldReturns)
  BY Zenon DEF LegsAreApart, Apart
<1> DEFINE members == Members(year)
           signals == SignalsOf(members)
<1>1. /\ IsFiniteSet(DOMAIN feed) /\ DOMAIN feed \subseteq Int
      /\ \A i \in DOMAIN feed : feed[i] \in MonthRows /\ feed[i].permno = i
  BY MonthFacts
<1>2. members \subseteq DOMAIN feed
  <2> SUFFICES ASSUME NEW m \in SelectUniverse(feed, year) PROVE m.permno \in DOMAIN feed
    BY DEF Members
  <2>1. PICK i \in {j \in DOMAIN feed : Selected(feed[j], year)} :
           m = [permno |-> feed[i].permno, market_cap |-> MarketCap(feed[i]),
                decile |-> AssignDecile(MarketCap(feed[i]), NyseBreakpoints(feed))]
    BY DEF SelectUniverse
  <2> QED BY <1>1, <2>1
<1>3. DOMAIN signals = members /\ \A p \in members : signals[p] = feed[p].signal
  BY DEF SignalsOf
<1> HIDE DEF members, signals
<1>4. Scored(signals)
  <2>1. IsFiniteSet(members)
    BY <1>1, <1>2, FS_Subset
  <2>2. \A p \in members : signals[p] \in Int
    BY <1>1, <1>2, <1>3 DEF MonthRows
  <2> QED BY <1>1, <1>2, <1>3, <2>1, <2>2 DEF Scored
<1>5. \A p \in DOMAIN HeldReturns : HeldReturns[p] \in Int
  BY <1>1 DEF HeldReturns, MonthRows
<1> QED BY <1>4, <1>5, QuintileFacts, TercileFacts, AnnualFacts DEF signals, members

\* Whatever the month lists and however it is cut: the NYSE names fall into deciles whose
\* sizes differ by at most one, a larger name is never in a lower decile, the legs of a
\* spread are disjoint, of one size and in order, and the two ways to score a year agree
\* (small_cap.py nyse_breakpoints and assign_decile, seasonal.py, backtest_runner.py).
THEOREM TheYearsAreFair == Spec => []YearsAreFair
<1>1. MonthOk => YearsAreFair
  BY CutsAreFair, LegsStayApart DEF YearsAreFair
<1> QED BY <1>1, MonthInvariant, PTL
================================================================================
