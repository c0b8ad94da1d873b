---- MODULE Records ----
(***************************************************************************)
(* The vendors' records and the desk's, over the same days.  Nothing that  *)
(* is asked of a past day may depend on what came after it, at any stage.  *)
(***************************************************************************)
EXTENDS VendorRecords, DeskRecords

DeskKinds == {"book", "signals", "validation", "month", "pipeline"}

Init == /\ kind \in Kinds
        /\ today = 1
        /\ feed = IF kind \in DeskKinds THEN EmptyDesk(kind) ELSE EmptyFeed(kind)

Tomorrow == /\ today < LastDay[kind]
            /\ today' = today + 1
            /\ feed' \in DayRows
            /\ UNCHANGED kind

Next == VendorNext \/ DeskNext \/ Tomorrow

Spec == Init /\ [][Next]_vars
---------------------------------------------------------------------------
\* The past is settled, whatever the records are of: no query about it, no signal and no
\* book of it, changes by what is recorded, reported or traded later.  What does change is
\* named in the parts: a period that a later filing carries under a preferred tag
\* (Shadowed), a quarter of whose year an earlier one was reported late (Overtaken), and
\* the level, though no return, of adjusted closes (SameButForScale).
PastIsSettled == /\ EdgarPointInTime
                 /\ CompustatPointInTime
                 /\ LinksPointInTime
                 /\ PricesPointInTime
                 /\ EstimatesPointInTime
                 /\ BookPointInTime
                 /\ DirectionIsSettled
====
