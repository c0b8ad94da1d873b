---- MODULE PointInTime ----
(***************************************************************************)
(* src/utils/pit.py: when a record became knowable, and the wrapper that   *)
(* pins a data source to an as-of date.  A record is a TLA+ record whose   *)
(* fields are the attributes the guard looks at.                           *)
(***************************************************************************)
EXTENDS Integers, Sequences, FiniteSets, FiniteSetsExt

CONSTANT Leak    \* PointInTimeError

KNOWLEDGE_DATE_ATTRS == <<"report_date", "estimate_date", "as_of_date", "date">>

\* The first attribute the record has decides.
KnowledgeDate(record) ==
    LET present == {i \in DOMAIN KNOWLEDGE_DATE_ATTRS :
                      KNOWLEDGE_DATE_ATTRS[i] \in DOMAIN record}
    IN  record[KNOWLEDGE_DATE_ATTRS[Min(present)]]

AsOf(records, cutoff) == {r \in records : KnowledgeDate(r) <= cutoff}

\* assert_point_in_time, as _guarded uses it: all of the records or an error.
Guarded(records, asOf) ==
    IF AsOf(records, asOf) = records THEN records ELSE Leak

Clamp(end, asOf) == IF end <= asOf THEN end ELSE asOf

\* get_prices, get_estimates, get_fundamentals and get_ownership of PITDataSource: the
\* source is not asked about a window after the as-of date.  Reply is what it answers.
Unasked(start, asOf) == start > asOf
Answer(reply, start, asOf) == IF Unasked(start, asOf) THEN {} ELSE Guarded(reply, asOf)
====
