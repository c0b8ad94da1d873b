---- MODULE EdgarFundamentals ----
(***************************************************************************)
(* The join of src/data/public/edgar.py: from the companyfacts feed of one *)
(* company to its fundamentals per fiscal period.                          *)
(*                                                                         *)
(* A fact is an XBRL entry: the tag that carries it, the fiscal period     *)
(* <<fy, fp>> it is filed under, the day it was filed, the form, and what  *)
(* it spans.  One filing tags a flow several times under the same period:  *)
(* the quarter, the year to date, and the year-ago comparative.  A fact    *)
(* stands for its own value.                                               *)
(***************************************************************************)
EXTENDS Naturals, Sequences, FiniteSets, FiniteSetsExt

CONSTANTS Fields,    \* the fields of FundamentalData the join fills
          Tags,      \* the tags of each field, the preferred first
          Instants   \* the tags that carry a balance and no start date

ASSUME TagsAssumption == /\ IsFiniteSet(Fields) /\ Fields # {}
                         /\ Tags \in [Fields -> Seq(STRING)]

OriginalForms == {"10-Q", "10-K"}
Forms == OriginalForms \cup {"10-Q/A"}
Spans == {"quarter", "ytd", "comparative"}

\* The days a fact covers and the day they end on, as far as Beats tells them apart.
Days(fact) == IF fact.tag \in Instants THEN 0
              ELSE IF fact.span = "ytd" THEN 2 ELSE 1
PeriodEnd(fact) == IF fact.span = "comparative" THEN 1 ELSE 2

\* A slip of Beats, for the runs to refute.
BeatsByLongerFlow(candidate, chosen) ==
    \/ candidate.filed < chosen.filed
    \/ candidate.filed = chosen.filed /\ Days(candidate) > Days(chosen)

\* The original disclosure first, then the shorter flow, then the later period.
Beats(candidate, chosen) ==
    \/ candidate.filed < chosen.filed
    \/ /\ candidate.filed = chosen.filed
       /\ \/ Days(candidate) < Days(chosen)
          \/ /\ Days(candidate) = Days(chosen)
             /\ PeriodEnd(candidate) > PeriodEnd(chosen)

\* _usd_entries for one tag and one period.
Entries(facts, tag, period) ==
    {e \in facts : e.form \in OriginalForms /\ e.tag = tag /\ e.period = period}

Carriers(facts, field, period) ==
    {i \in DOMAIN Tags[field] : Entries(facts, Tags[field][i], period) # {}}

\* The preferred tag among those that carry the period decides alone.
Competing(facts, field, period) ==
    Entries(facts, Tags[field][Min(Carriers(facts, field, period))], period)

Chosen(facts, field, period) ==
    LET entries == Competing(facts, field, period)
    IN  CHOOSE e \in entries : \A other \in entries : ~Beats(other, e)

\* A period is complete when every field has a carrier; partial ones are never emitted.
Complete(facts, period) == \A field \in Fields : Carriers(facts, field, period) # {}

\* The day the last of the figures became known.
ReportDate(facts, period) ==
    Max({Chosen(facts, field, period).filed : field \in Fields})

FiscalQuarter(fp) == CASE fp = "Q1" -> 1 [] fp = "Q2" -> 2 [] fp = "Q3" -> 3 [] OTHER -> 4

EdgarRow(facts, period) ==
    [fiscal_year |-> period[1], fiscal_quarter |-> FiscalQuarter(period[2]),
     report_date |-> ReportDate(facts, period),
     figures |-> [field \in Fields |-> Chosen(facts, field, period)]]

\* get_fundamentals for one ticker whose feed was fetched.
EdgarRows(facts, start, end) ==
    {EdgarRow(facts, period) :
       period \in {p \in {e.period : e \in facts} :
                     Complete(facts, p) /\ ReportDate(facts, p) \in start..end}}
====
