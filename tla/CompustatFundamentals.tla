---- MODULE CompustatFundamentals ----
(***************************************************************************)
(* _to_fundamentals of src/data/wrds/source.py: Compustat quarters to      *)
(* fundamentals, with the year-to-date cash flow turned into quarterly     *)
(* flows.                                                                  *)
(*                                                                         *)
(* A row keeps the quarter it is about, the day it was reported (or        *)
(* Undated), the year-to-date flow (or NoFigure), whether it passes the     *)
(* academic screen and whether its other figures make a record.  The       *)
(* screen leaves one row per fiscal quarter of a company.                  *)
(***************************************************************************)
EXTENDS Integers, FiniteSets, FiniteSetsExt

CONSTANTS Undated, NoFigure

Usable(rows) == {r \in rows : r.screened /\ r.rdq # Undated}

\* A slip of Before, for the runs to refute.
BeforeInAnyYear(rows, r) ==
    {q \in Usable(rows) : q.fqtr < r.fqtr /\ q.ytd # NoFigure}

\* What prior_ytd[fyear] was set from when the walk over the sorted rows reaches r.
Before(rows, r) ==
    {q \in Usable(rows) : q.fyear = r.fyear /\ q.fqtr < r.fqtr /\ q.ytd # NoFigure}

Latest(quarters) == CHOOSE q \in quarters : \A other \in quarters : other.fqtr <= q.fqtr

QuarterlyFlow(rows, r) ==
    IF Before(rows, r) = {} THEN r.ytd ELSE r.ytd - Latest(Before(rows, r)).ytd

\* The rows whose own figures make a record.
Emitted(rows) ==
    {r \in Usable(rows) : r.ytd # NoFigure /\ r.sound /\ r.fqtr \in 1..4}

CompustatRow(rows, r) ==
    [fiscal_year |-> r.fyear, fiscal_quarter |-> r.fqtr, report_date |-> r.rdq,
     operating_cash_flow |-> QuarterlyFlow(rows, r)]

\* A slip of CompustatRows, for the runs to refute.
CompustatRowsCutFirst(rows, start, end) ==
    LET cut == {q \in rows : q.rdq # Undated /\ q.rdq \in start..end}
    IN  {CompustatRow(cut, r) : r \in Emitted(cut)}

CompustatRows(rows, start, end) ==
    {CompustatRow(rows, r) : r \in {q \in Emitted(rows) : q.rdq \in start..end}}
====
