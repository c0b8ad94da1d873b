---- MODULE Feeds ----
(***************************************************************************)
(* What the modules on records share: something that grows day by day, and *)
(* somebody who asks, today, about a day or a window that may be long past.*)
(* One behaviour follows one kind of records.                              *)
(***************************************************************************)
EXTENDS Integers

CONSTANTS Kinds,       \* the kinds of records to follow
          LastDay,     \* bound: the last day, for each kind
          MaxRecords   \* bound: how many records there are, for each kind

VARIABLES kind,    \* the kind this behaviour follows
          today,
          feed     \* the records so far

vars == <<kind, today, feed>>

Past == 1..(today - 1)
Asked(day) == {start \in Past : start <= day}
Windows == {w \in Past \X Past : w[1] <= w[2]}
====
