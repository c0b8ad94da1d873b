---- MODULE CcmLinks ----
(***************************************************************************)
(* src/data/wrds/ccm_link.py: which security a company is linked to on a   *)
(* day, and back.  A row keeps company, security, type, primacy and the    *)
(* days it is valid between; an open link ends on NoDate.                  *)
(***************************************************************************)
EXTENDS Integers, Sequences, FiniteSets, FiniteSetsExt

CONSTANTS NoDate, NoMatch

LinkTypes == {"LC", "NR"}        \* one usable and one unusable value of each
LinkPrims == {"P", "J"}
USABLE_LINKTYPES == {"LC", "LU"}
USABLE_LINKPRIM  == {"P", "C"}

\* A slip of Parses, for the runs to refute.
ParsesAnyPrim(row) == row.linktype \in USABLE_LINKTYPES /\ row.start # NoDate

\* parse_link_row keeps the research-grade rows.
Parses(row) == /\ row.linktype \in USABLE_LINKTYPES
               /\ row.linkprim \in USABLE_LINKPRIM
               /\ row.start # NoDate

FromRows(rows) == {i \in DOMAIN rows : Parses(rows[i])}

Covers(link, day) == /\ link.start <= day
                     /\ link.end = NoDate \/ day <= link.end

\* Either way the first link that covers the day answers, in the order of the table.
PermnoForGvkey(rows, gvkey, day) ==
    LET covering == {i \in FromRows(rows) : rows[i].gvkey = gvkey /\ Covers(rows[i], day)}
    IN  IF covering = {} THEN NoMatch ELSE rows[Min(covering)].permno

GvkeyForPermno(rows, permno, day) ==
    LET covering == {i \in FromRows(rows) : rows[i].permno = permno /\ Covers(rows[i], day)}
    IN  IF covering = {} THEN NoMatch ELSE rows[Min(covering)].gvkey
====
