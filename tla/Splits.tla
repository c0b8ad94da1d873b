---- MODULE Splits ----
(***************************************************************************)
(* src/signals/validation/splits.py: chronological train and test windows  *)
(* with an embargo between them.  Days are integers; a test fraction is a  *)
(* number of tenths.                                                       *)
(***************************************************************************)
EXTENDS PointInTime

CONSTANTS MinWindowDays,   \* _MIN_WINDOW_DAYS
          SplitError

ASSUME SplitsAssumption == MinWindowDays \in Nat

\* round(span_days * test_fraction): to the nearest day, ties to the even one.
Rounded(tenths) ==
    LET days == tenths \div 10
        rest == tenths % 10
    IN  IF rest > 5 \/ (rest = 5 /\ days % 2 = 1) THEN days + 1 ELSE days

Window == [start : Int, end : Int]

\* TrainTestSplit.__post_init__.
TrainTestSplit(train, test) ==
    IF train.end < train.start \/ test.end < test.start \/ test.start <= train.end
    THEN SplitError
    ELSE [train |-> train, test |-> test]

EmbargoDays(split) == split.test.start - split.train.end - 1

\* A slip of MakeTrainTestSplit, for the runs to refute: the gap is a day short.
MakeSplitOffByOne(start, end, fraction, embargo) ==
    LET testDays  == Rounded((end - start) * fraction)
        testStart == end - testDays
        trainEnd  == testStart - embargo
    IN  IF \/ fraction \notin 1..9 \/ embargo < 0 \/ end < start
           \/ trainEnd - start < MinWindowDays \/ testDays < MinWindowDays
        THEN SplitError
        ELSE TrainTestSplit([start |-> start, end |-> trainEnd],
                            [start |-> testStart, end |-> end])

MakeTrainTestSplit(start, end, fraction, embargo) ==
    LET testDays  == Rounded((end - start) * fraction)
        testStart == end - testDays
        trainEnd  == testStart - (embargo + 1)
    IN  IF \/ ~(0 < fraction /\ fraction < 10)
           \/ embargo < 0
           \/ end < start
           \/ trainEnd - start < MinWindowDays
           \/ testDays < MinWindowDays
        THEN SplitError
        ELSE TrainTestSplit([start |-> start, end |-> trainEnd],
                            [start |-> testStart, end |-> end])

\* split_by_date: the embargo gap belongs to neither side.
Within(records, window) ==
    {r \in records : window.start <= KnowledgeDate(r) /\ KnowledgeDate(r) <= window.end}
SplitByDate(records, split) ==
    [train |-> Within(records, split.train), test |-> Within(records, split.test)]

\* assert_out_of_sample does not raise: every test record is after every train record (the
\* code compares the last one with the first one) and the gap is large enough.
OutOfSample(train, test, embargo) ==
    \A r \in train, q \in test :
        /\ KnowledgeDate(q) > KnowledgeDate(r)
        /\ KnowledgeDate(q) - KnowledgeDate(r) - 1 >= embargo
====
